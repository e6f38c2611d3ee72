----------------------------- MODULE UserTable ------------------------------
(***************************************************************************)
(* Registration and login (http/http_conn.cpp): the map users, shared by   *)
(* all workers, in front of the table user of the database.                *)
(*                                                                         *)
(* A registration looks the name up without the mutex, then takes m_lock,  *)
(* inserts the row, stores the password in the map whatever the result of  *)
(* the insert, and unlocks.  A login only reads the map, without m_lock.   *)
(* A look-up that overlaps an insertion is a data race: it may miss a name *)
(* that is there.                                                          *)
(*                                                                         *)
(* The schema of the table is not in the repository, so an insert may      *)
(* succeed or fail, also for a name that is in the table.                  *)
(***************************************************************************)
EXTENDS Naturals, FiniteSets

CONSTANTS
  Workers,     \* the threads that run do_request
  Names,       \* user names
  Passwords,
  NULL,        \* no worker, no password, no request, no page
  MaxRequests  \* bound: requests with a name and a password

\* The pages a request to register or to log in ends with.
Page == {"/log.html", "/registerError.html", "/welcom.html", "/logError.html"}

ASSUME UserTableAssumption ==
  /\ NULL \notin Workers \cup Passwords \cup Page
  /\ MaxRequests \in Nat

VARIABLES
  users,     \* the map: the password of each name, or NULL
  rows,      \* the passwords the table holds for each name
  m_lock,    \* the worker that has the mutex, or NULL
  pc,        \* where each worker is in the request
  request,   \* its request, from m_url and m_string
  res,       \* local variable: has mysql_query failed?
  page,      \* m_url at the end of the request
  latest,    \* history: the password of the last row of each name, or NULL
  refused,   \* history: the names whose last insert has failed
  requests   \* how many requests there have been

history == <<latest, refused>>
vars == <<users, rows, m_lock, pc, request, res, page, history, requests>>

Request == [kind : {"register", "login"}, name : Names, password : Passwords]

\* The table has any rows, and initmysql_result has read them into the map: if
\* a name has several, users[temp1] = temp2 leaves the one fetched last.  (When
\* the SELECT fails there is no result, and mysql_num_fields is called with a
\* null pointer: the server does not get beyond that.)
Init ==
  /\ rows \in [Names -> SUBSET Passwords]
  /\ users \in [Names -> Passwords \cup {NULL}]
  /\ \A n \in Names : IF rows[n] = {} THEN users[n] = NULL ELSE users[n] \in rows[n]
  /\ latest = users
  /\ refused = {}
  /\ m_lock = NULL
  /\ pc = [w \in Workers |-> "idle"]
  /\ request = [w \in Workers |-> NULL]
  /\ res = [w \in Workers |-> FALSE]
  /\ page = [w \in Workers |-> NULL]
  /\ requests = 0

GoTo(w, label) == pc' = [pc EXCEPT ![w] = label]

Answer(w, url) ==
  /\ page' = [page EXCEPT ![w] = url]
  /\ GoTo(w, "idle")

-----------------------------------------------------------------------------
(* A data race with the assignment to users[name] of another worker        *)

\* An insertion of a new name moves the nodes of the map.
MapMoves(w) == \E v \in Workers \ {w} : pc[v] = "store" /\ users[request[v].name] = NULL

\* An assignment changes the password that is compared.
PasswordMoves(w) ==
  \E v \in Workers \ {w} : pc[v] = "store" /\ request[v].name = request[w].name

\* The possible results of users.find(name) != users.end().
Finds(w) ==
  IF MapMoves(w) THEN BOOLEAN ELSE {users[request[w].name] # NULL}

\* The possible results of users[name] == password.
Matches(w) ==
  IF MapMoves(w) \/ PasswordMoves(w) THEN BOOLEAN
  ELSE {users[request[w].name] = request[w].password}

-----------------------------------------------------------------------------
\* do_request begins for a request to register or to log in.
Begin(w) ==
  /\ pc[w] = "idle"
  /\ requests < MaxRequests
  /\ requests' = requests + 1
  /\ request' \in {[request EXCEPT ![w] = r] : r \in Request}
  /\ page' = [page EXCEPT ![w] = NULL]
  /\ GoTo(w, "find")
  /\ UNCHANGED <<users, rows, m_lock, res, history>>

\* The name is known: the registration is refused without the mutex.
RegisterKnown(w) ==
  /\ pc[w] = "find"
  /\ request[w].kind = "register"
  /\ TRUE \in Finds(w)
  /\ Answer(w, "/registerError.html")
  /\ UNCHANGED <<users, rows, m_lock, request, res, history, requests>>

RegisterUnknown(w) ==
  /\ pc[w] = "find"
  /\ request[w].kind = "register"
  /\ FALSE \in Finds(w)
  /\ GoTo(w, "lock")
  /\ UNCHANGED <<users, rows, m_lock, request, res, page, history, requests>>

\* Mutant: the mutex is not taken.
LockNothing(w) ==
  /\ pc[w] = "lock"
  /\ GoTo(w, "query")
  /\ UNCHANGED <<users, rows, m_lock, request, res, page, history, requests>>

\* m_lock.lock()
Lock(w) ==
  /\ pc[w] = "lock"
  /\ m_lock = NULL
  /\ m_lock' = w
  /\ GoTo(w, "query")
  /\ UNCHANGED <<users, rows, request, res, page, history, requests>>

\* mysql_query(mysql, sql_insert) returns 0: there is a row more.
Insert(w) ==
  /\ pc[w] = "query"
  /\ LET r == request[w]
     IN /\ rows' = [rows EXCEPT ![r.name] = @ \cup {r.password}]
        /\ latest' = [latest EXCEPT ![r.name] = r.password]
        /\ refused' = refused \ {r.name}
  /\ res' = [res EXCEPT ![w] = FALSE]
  /\ GoTo(w, "store")
  /\ UNCHANGED <<users, m_lock, request, page, requests>>

\* Mutant: the request is refused at once, with the mutex held.
InsertFailsLocked(w) ==
  /\ pc[w] = "query"
  /\ res' = [res EXCEPT ![w] = TRUE]
  /\ Answer(w, "/registerError.html")
  /\ UNCHANGED <<users, rows, m_lock, request, history, requests>>

\* mysql_query fails: the database refuses the row or does not answer.
InsertFails(w) ==
  /\ pc[w] = "query"
  /\ refused' = refused \cup {request[w].name}
  /\ res' = [res EXCEPT ![w] = TRUE]
  /\ GoTo(w, "store")
  /\ UNCHANGED <<users, rows, m_lock, request, page, latest, requests>>

\* Mutant: a name that is in the map is left alone, as by map::insert.
StoreIfAbsent(w) ==
  /\ pc[w] = "store"
  /\ users' = [users EXCEPT ![request[w].name] = IF @ = NULL THEN request[w].password ELSE @]
  /\ GoTo(w, "unlock")
  /\ UNCHANGED <<rows, m_lock, request, res, page, history, requests>>

\* users[name] = password, whatever res is.
Store(w) ==
  /\ pc[w] = "store"
  /\ users' = [users EXCEPT ![request[w].name] = request[w].password]
  /\ GoTo(w, "unlock")
  /\ UNCHANGED <<rows, m_lock, request, res, page, history, requests>>

\* Mutant: the result of mysql_query is not tested.
UnlockTrusting(w) ==
  /\ pc[w] = "unlock"
  /\ m_lock' = NULL
  /\ Answer(w, "/log.html")
  /\ UNCHANGED <<users, rows, request, res, history, requests>>

\* m_lock.unlock(), and the page that res calls for.  The local variable res
\* is gone then.
Unlock(w) ==
  /\ pc[w] = "unlock"
  /\ m_lock' = NULL
  /\ Answer(w, IF res[w] THEN "/registerError.html" ELSE "/log.html")
  /\ res' = [res EXCEPT ![w] = FALSE]
  /\ UNCHANGED <<users, rows, request, history, requests>>

\* A login: the look-up, and if it finds the name, the comparison.
LoginFind(w) ==
  /\ pc[w] = "find"
  /\ request[w].kind = "login"
  /\ TRUE \in Finds(w)
  /\ GoTo(w, "compare")
  /\ UNCHANGED <<users, rows, m_lock, request, res, page, history, requests>>

LoginUnknown(w) ==
  /\ pc[w] = "find"
  /\ request[w].kind = "login"
  /\ FALSE \in Finds(w)
  /\ Answer(w, "/logError.html")
  /\ UNCHANGED <<users, rows, m_lock, request, res, history, requests>>

LoginCompare(w) ==
  /\ pc[w] = "compare"
  /\ \E match \in Matches(w) :
       Answer(w, IF match THEN "/welcom.html" ELSE "/logError.html")
  /\ UNCHANGED <<users, rows, m_lock, request, res, history, requests>>

-----------------------------------------------------------------------------
Step(w) ==
  \/ RegisterKnown(w) \/ RegisterUnknown(w) \/ Lock(w)
  \/ Insert(w) \/ InsertFails(w) \/ Store(w) \/ Unlock(w)
  \/ LoginFind(w) \/ LoginUnknown(w) \/ LoginCompare(w)

Next == \E w \in Workers : Begin(w) \/ Step(w)

Spec == Init /\ [][Next]_vars

\* The workers run, mysql_query returns, and no worker is overtaken at the
\* mutex for ever.  Requests need not come.
Fairness == \A w \in Workers : WF_vars(Step(w)) /\ SF_vars(Lock(w))

FairSpec == Spec /\ Fairness

-----------------------------------------------------------------------------
(* Properties *)

\* The type invariant, with the owner of the mutex: the insert and the store
\* are made under it.
TypeOK ==
  /\ users \in [Names -> Passwords \cup {NULL}]
  /\ rows \in [Names -> SUBSET Passwords]
  /\ m_lock \in Workers \cup {NULL}
  /\ pc \in [Workers -> {"idle", "find", "lock", "query", "store", "unlock", "compare"}]
  /\ request \in [Workers -> Request \cup {NULL}]
  /\ res \in [Workers -> BOOLEAN]
  /\ page \in [Workers -> Page \cup {NULL}]
  /\ latest \in [Names -> Passwords \cup {NULL}]
  /\ refused \subseteq Names
  /\ requests \in 0..MaxRequests
  /\ \A w \in Workers : pc[w] \in {"query", "store", "unlock"} <=> m_lock = w

\* Two workers that both miss a name insert it one after the other, and the
\* map ends with the password of the row inserted last: map and table never
\* take two registrations in different orders.  Unless the last insert of the
\* name has failed, see LoginIsInTable.
MapFollowsTable ==
  m_lock = NULL => \A n \in Names \ refused : users[n] = latest[n]

\* Who is sent on to log.html is in the table with this password, and the map
\* has the name: nobody is told so before both have been written.
RegisteredIsStored ==
  \A w \in Workers :
    page[w] = "/log.html" =>
      /\ request[w].password \in rows[request[w].name]
      /\ users[request[w].name] # NULL

\* Each request gets a page: no path keeps the mutex.
Answered == \A w \in Workers : pc[w] = "find" ~> page[w] # NULL

-----------------------------------------------------------------------------
(* What the comments say and the code does not do *)

\* "1 if the name and the password from the browser can be found in the table,
\* else 0" (http_conn.cpp:497), the map being the contents of the table
\* (http_conn.cpp:34 and 840): who logs in has a row with this password.
LoginIsInTable ==
  \A w \in Workers :
    page[w] = "/welcom.html" => request[w].password \in rows[request[w].name]
=============================================================================
