-------------------------- MODULE UserTableProofs ---------------------------
(***************************************************************************)
(* Theorems about UserTable, for any number of workers, names, passwords   *)
(* and requests: its three invariants.                                     *)
(*                                                                         *)
(* They follow from what a worker knows while it has the mutex.  Typed     *)
(* says who has it, and that a busy worker has a request; Behind, that the *)
(* map lacks at most the password of the worker that is about to store it; *)
(* OnItsWay, what that worker has already written.  Typed is inductive     *)
(* alone, Behind and OnItsWay each with Typed.                             *)
(***************************************************************************)
EXTENDS UserTable, TLAPS

\* A worker that is not idle, or has answered, has a request.
Asked ==
  \A w \in Workers : pc[w] # "idle" \/ page[w] # NULL => request[w] \in Request

\* The first layer.
Typed == TypeOK /\ Asked

\* The row that a worker between the insert and the store has inserted is the
\* last one of its name, unless the insert has failed, and no name but its own
\* may differ between map and table.
Behind ==
  /\ \A w \in Workers :
       pc[w] = "store" => \/ request[w].name \in refused
                          \/ latest[request[w].name] = request[w].password
  /\ \A n \in Names \ refused :
       users[n] # latest[n] =>
         \E w \in Workers : pc[w] = "store" /\ request[w].name = n

\* The registration of a worker has reached the table, and the map.
Stored(w) == request[w].password \in rows[request[w].name]
Mapped(w) == users[request[w].name] # NULL

\* What a worker has written before it answers: the row, unless the insert has
\* failed, then the map, and both when it has answered with log.html.
Knows(w) ==
  /\ pc[w] \in {"store", "unlock"} /\ ~res[w] => Stored(w)
  /\ pc[w] = "unlock" => Mapped(w)
  /\ page[w] = "/log.html" => Stored(w) /\ Mapped(w)

\* The third layer.
OnItsWay == \A w \in Workers : Knows(w)

\* The inductive invariant.
Inv == Typed /\ Behind /\ OnItsWay

-----------------------------------------------------------------------------
(* Types and the owner of the mutex                                        *)

\* The initial states have the types.
LEMMA TypedInit == Init => Typed
<1> SUFFICES ASSUME Init PROVE Typed
  OBVIOUS
<1>1. m_lock = NULL /\ NULL \notin Workers
  BY UserTableAssumption DEF Init
<1>2. requests \in 0..MaxRequests
  BY UserTableAssumption DEF Init
<1>3. users \in [Names -> Passwords \cup {NULL}]
  BY DEF Init
<1>4. rows \in [Names -> SUBSET Passwords]
  BY <1>3 DEF Init
<1> QED
  BY <1>1, <1>2, <1>3, <1>4 DEF Init, Typed, TypeOK, Asked

\* Every step keeps the types, and only the owner of the mutex is between the
\* lock and the unlock.
LEMMA TypedNext == Typed /\ [Next]_vars => Typed'
<1> SUFFICES ASSUME Typed, [Next]_vars PROVE Typed'
  OBVIOUS
<1> USE UserTableAssumption DEF Typed, TypeOK, Asked, history
<1>1. ASSUME NEW w \in Workers, Begin(w) PROVE Typed'
  <2>1. PICK r \in Request : request' = [request EXCEPT ![w] = r]
    BY <1>1 DEF Begin
  <2>2. requests' \in 0..MaxRequests
    BY <1>1 DEF Begin
  <2>3. pc' = [pc EXCEPT ![w] = "find"] /\ page' = [page EXCEPT ![w] = NULL]
    BY <1>1 DEF Begin, GoTo
  <2>4. UNCHANGED <<users, rows, m_lock, res, latest, refused>> /\ pc[w] = "idle"
    BY <1>1 DEF Begin, history
  <2> QED
    BY <2>1, <2>2, <2>3, <2>4
<1>2. ASSUME NEW w \in Workers, RegisterKnown(w) PROVE Typed'
  BY <1>2 DEF RegisterKnown, Answer, GoTo, Page
<1>3. ASSUME NEW w \in Workers, RegisterUnknown(w) PROVE Typed'
  BY <1>3 DEF RegisterUnknown, GoTo
<1>4. ASSUME NEW w \in Workers, Lock(w) PROVE Typed'
  BY <1>4 DEF Lock, GoTo
<1>5. ASSUME NEW w \in Workers, Insert(w) PROVE Typed'
  <2>1. request[w].name \in Names /\ request[w].password \in Passwords
    BY <1>5 DEF Insert, Request
  <2>2. rows' \in [Names -> SUBSET Passwords]
    BY <1>5, <2>1 DEF Insert
  <2>3. latest' \in [Names -> Passwords \cup {NULL}] /\ refused' \subseteq Names
    BY <1>5, <2>1 DEF Insert
  <2> QED
    BY <1>5, <2>2, <2>3 DEF Insert, GoTo
<1>6. ASSUME NEW w \in Workers, InsertFails(w) PROVE Typed'
  <2>1. request[w].name \in Names /\ request[w].password \in Passwords
    BY <1>6 DEF InsertFails, Request
  <2>2. refused' \subseteq Names
    BY <1>6, <2>1 DEF InsertFails
  <2> QED
    BY <1>6, <2>2 DEF InsertFails, GoTo
<1>7. ASSUME NEW w \in Workers, Store(w) PROVE Typed'
  <2>1. request[w].name \in Names /\ request[w].password \in Passwords
    BY <1>7 DEF Store, Request
  <2>2. users' \in [Names -> Passwords \cup {NULL}]
    BY <1>7, <2>1 DEF Store
  <2> QED
    BY <1>7, <2>2 DEF Store, GoTo
<1>8. ASSUME NEW w \in Workers, Unlock(w) PROVE Typed'
  BY <1>8 DEF Unlock, Answer, GoTo, Page
<1>9. ASSUME NEW w \in Workers, LoginFind(w) PROVE Typed'
  BY <1>9 DEF LoginFind, GoTo
<1>10. ASSUME NEW w \in Workers, LoginUnknown(w) PROVE Typed'
  BY <1>10 DEF LoginUnknown, Answer, GoTo, Page
<1>11. ASSUME NEW w \in Workers, LoginCompare(w) PROVE Typed'
  BY <1>11 DEF LoginCompare, Answer, GoTo, Page
<1>12. ASSUME UNCHANGED vars PROVE Typed'
  BY <1>12 DEF vars
<1> QED
  BY <1>1, <1>2, <1>3, <1>4, <1>5, <1>6, <1>7, <1>8, <1>9, <1>10, <1>11, <1>12
     DEF Next, Step

-----------------------------------------------------------------------------
(* Map and table                                                           *)

\* Every step but Store leaves the map alone, and Store writes what its worker
\* has inserted; no other worker is between its insert and its store then.
LEMMA BehindNext == Typed /\ Behind /\ [Next]_vars => Behind'
<1> SUFFICES ASSUME Typed, Behind, [Next]_vars PROVE Behind'
  OBVIOUS
<1> USE UserTableAssumption DEF Typed, TypeOK, Asked, Behind, history
<1>1. ASSUME NEW w \in Workers, Begin(w) PROVE Behind'
  <2>1. PICK r \in Request : request' = [request EXCEPT ![w] = r]
    BY <1>1 DEF Begin
  <2>2. \A v \in Workers : pc'[v] = "store" => pc[v] = "store" /\ request'[v] = request[v]
    BY <1>1, <2>1 DEF Begin, GoTo
  <2>3. \A v \in Workers : pc[v] = "store" => pc'[v] = "store" /\ request'[v] = request[v]
    BY <1>1, <2>1 DEF Begin, GoTo
  <2>4. UNCHANGED <<users, latest, refused>>
    BY <1>1 DEF Begin
  <2> QED
    BY <2>2, <2>3, <2>4
<1>2. ASSUME NEW w \in Workers,
             \/ RegisterKnown(w) \/ RegisterUnknown(w) \/ Lock(w) \/ Unlock(w)
             \/ LoginFind(w) \/ LoginUnknown(w) \/ LoginCompare(w)
      PROVE Behind'
  <2>1. /\ \E l \in {"idle", "lock", "query", "compare"} : pc' = [pc EXCEPT ![w] = l]
        /\ pc[w] # "store"
    <3>1. CASE RegisterKnown(w) \/ LoginUnknown(w) \/ LoginCompare(w)
      BY <3>1 DEF RegisterKnown, LoginUnknown, LoginCompare, Answer, GoTo
    <3>2. CASE RegisterUnknown(w) \/ Lock(w) \/ LoginFind(w)
      BY <3>2 DEF RegisterUnknown, Lock, LoginFind, GoTo
    <3>3. CASE Unlock(w)
      BY <3>3 DEF Unlock, Answer, GoTo
    <3> QED
      BY <1>2, <3>1, <3>2, <3>3
  <2>2. UNCHANGED <<users, latest, refused, request>>
    BY <1>2 DEF RegisterKnown, RegisterUnknown, Lock, Unlock, LoginFind,
                LoginUnknown, LoginCompare
  <2> QED
    BY <2>1, <2>2
<1>3. ASSUME NEW w \in Workers, Insert(w) \/ InsertFails(w) PROVE Behind'
  <2>1. request[w].name \in Names
    BY <1>3 DEF Insert, InsertFails, Request
  <2>2. /\ pc' = [pc EXCEPT ![w] = "store"]
        /\ UNCHANGED <<users, request>>
    BY <1>3 DEF Insert, InsertFails, GoTo
  <2>3. \A v \in Workers : pc[v] # "store"
    BY <1>3 DEF Insert, InsertFails
  <2>4. \/ /\ latest' = [latest EXCEPT ![request[w].name] = request[w].password]
           /\ refused' = refused \ {request[w].name}
        \/ latest' = latest /\ refused' = refused \cup {request[w].name}
    BY <1>3 DEF Insert, InsertFails
  <2> QED
    BY <2>1, <2>2, <2>3, <2>4
<1>4. ASSUME NEW w \in Workers, Store(w) PROVE Behind'
  <2>1. request[w].name \in Names
    BY <1>4 DEF Store, Request
  <2>2. /\ users' = [users EXCEPT ![request[w].name] = request[w].password]
        /\ pc' = [pc EXCEPT ![w] = "unlock"]
        /\ UNCHANGED <<latest, refused, request>>
    BY <1>4 DEF Store, GoTo
  <2>3. \A v \in Workers : pc[v] = "store" => v = w
    BY <1>4 DEF Store
  <2> QED
    BY <1>4, <2>1, <2>2, <2>3 DEF Store
<1>5. ASSUME UNCHANGED vars PROVE Behind'
  BY <1>5 DEF vars
<1> QED
  BY <1>1, <1>2, <1>3, <1>4, <1>5 DEF Next, Step

\* When nobody has the mutex, nobody is about to store.
LEMMA NobodyBehind == Typed /\ Behind => MapFollowsTable
<1> SUFFICES ASSUME Typed, Behind, m_lock = NULL, NEW n \in Names \ refused
             PROVE users[n] = latest[n]
  BY DEF MapFollowsTable
<1>1. \A w \in Workers : pc[w] # "store"
  BY UserTableAssumption DEF Typed, TypeOK
<1> QED
  BY <1>1 DEF Behind

-----------------------------------------------------------------------------
(* Confirmed registrations                                                 *)

\* Rows are never removed, and a name never leaves the map.
LEMMA StoredStays ==
  Typed /\ [Next]_vars =>
    /\ \A n \in Names : rows[n] \subseteq rows'[n]
    /\ \A n \in Names : users[n] # NULL => users'[n] # NULL
<1> SUFFICES ASSUME Typed, [Next]_vars
             PROVE /\ \A n \in Names : rows[n] \subseteq rows'[n]
                   /\ \A n \in Names : users[n] # NULL => users'[n] # NULL
  OBVIOUS
<1> USE UserTableAssumption DEF Typed, TypeOK, Asked
<1>1. CASE UNCHANGED <<rows, users>>
  BY <1>1
<1>2. ASSUME NEW w \in Workers, Insert(w)
      PROVE UNCHANGED users /\ \A n \in Names : rows[n] \subseteq rows'[n]
  <2>1. rows' = [rows EXCEPT ![request[w].name] = @ \cup {request[w].password}]
    BY <1>2 DEF Insert
  <2> QED
    BY <1>2, <2>1 DEF Insert
<1>3. ASSUME NEW w \in Workers, Store(w)
      PROVE UNCHANGED rows /\ \A n \in Names : users[n] # NULL => users'[n] # NULL
  <2>1. request[w].password # NULL
    BY <1>3 DEF Store, Request
  <2>2. users' = [users EXCEPT ![request[w].name] = request[w].password]
    BY <1>3 DEF Store
  <2> QED
    BY <1>3, <2>1, <2>2 DEF Store
<1>4. \/ UNCHANGED <<rows, users>>
      \/ \E w \in Workers : Insert(w) \/ Store(w)
  BY DEF Next, Step, Begin, RegisterKnown, RegisterUnknown, Lock, InsertFails,
         Unlock, LoginFind, LoginUnknown, LoginCompare, vars
<1> QED
  BY <1>1, <1>2, <1>3, <1>4

\* A worker that stands between lock and answer knows what it has written, and
\* only one that does answers with log.html.
LEMMA StoredNext == Typed /\ OnItsWay /\ [Next]_vars => OnItsWay'
<1> SUFFICES ASSUME Typed, OnItsWay, [Next]_vars PROVE OnItsWay'
  OBVIOUS
<1>1. /\ \A n \in Names : rows[n] \subseteq rows'[n]
      /\ \A n \in Names : users[n] # NULL => users'[n] # NULL
  BY StoredStays
<1>2. ASSUME NEW v \in Workers, request'[v] = request[v],
             pc[v] # "idle" \/ page[v] = "/log.html"
      PROVE (Stored(v) => Stored(v)') /\ (Mapped(v) => Mapped(v)')
  <2>1. page[v] = "/log.html" => page[v] # NULL
    BY UserTableAssumption DEF Page
  <2>2. request[v].name \in Names
    BY <1>2, <2>1 DEF Typed, Asked, Request
  <2> QED
    BY <1>1, <1>2, <2>2 DEF Stored, Mapped
<1>3. ASSUME NEW w \in Workers, Begin(w) \/ Step(w), Knows(w)' PROVE OnItsWay'
  <2>1. ASSUME NEW v \in Workers, v # w
        PROVE /\ pc'[v] = pc[v] /\ request'[v] = request[v]
              /\ res'[v] = res[v] /\ page'[v] = page[v]
    <3>1. CASE Begin(w)
      <4>1. PICK r \in Request : request' = [request EXCEPT ![w] = r]
        BY <3>1 DEF Begin
      <4> QED
        BY <2>1, <3>1, <4>1 DEF Begin, GoTo, Typed, TypeOK
    <3>2. CASE RegisterKnown(w) \/ LoginUnknown(w) \/ LoginCompare(w)
      BY <2>1, <3>2 DEF RegisterKnown, LoginUnknown, LoginCompare, Answer, GoTo,
                        Typed, TypeOK
    <3>3. CASE RegisterUnknown(w) \/ Lock(w) \/ LoginFind(w) \/ Store(w)
      BY <2>1, <3>3 DEF RegisterUnknown, Lock, LoginFind, Store, GoTo, Typed, TypeOK
    <3>4. CASE Insert(w) \/ InsertFails(w)
      BY <2>1, <3>4 DEF Insert, InsertFails, GoTo, Typed, TypeOK
    <3>5. CASE Unlock(w)
      BY <2>1, <3>5 DEF Unlock, Answer, GoTo, Typed, TypeOK
    <3> QED
      BY <1>3, <3>1, <3>2, <3>3, <3>4, <3>5 DEF Step
  <2>2. ASSUME NEW v \in Workers, v # w PROVE Knows(v)'
    BY <1>2, <2>1, <2>2 DEF OnItsWay, Knows
  <2> QED
    BY <1>3, <2>2 DEF OnItsWay
<1>4. ASSUME NEW w \in Workers, Begin(w) PROVE Knows(w)'
  <2>1. pc'[w] = "find" /\ page'[w] = NULL
    BY <1>4 DEF Begin, GoTo, Typed, TypeOK
  <2> QED
    BY <2>1, UserTableAssumption DEF Knows, Page
<1>5. ASSUME NEW w \in Workers, RegisterUnknown(w) \/ Lock(w) \/ LoginFind(w)
      PROVE Knows(w)'
  <2>1. /\ pc'[w] \in {"lock", "query", "compare"}
        /\ pc[w] # "idle"
        /\ page'[w] = page[w] /\ request'[w] = request[w]
    BY <1>5 DEF RegisterUnknown, Lock, LoginFind, GoTo, Typed, TypeOK
  <2> QED
    BY <1>2, <2>1 DEF OnItsWay, Knows
<1>6. ASSUME NEW w \in Workers, RegisterKnown(w) \/ LoginUnknown(w) \/ LoginCompare(w)
      PROVE Knows(w)'
  <2>1. pc'[w] = "idle" /\ page'[w] # "/log.html"
    BY <1>6 DEF RegisterKnown, LoginUnknown, LoginCompare, Answer, GoTo, Typed, TypeOK
  <2> QED
    BY <2>1 DEF Knows
<1>7. ASSUME NEW w \in Workers, Insert(w) PROVE Knows(w)'
  <2>1. /\ pc'[w] = "store" /\ pc[w] = "query"
        /\ page'[w] = page[w] /\ request'[w] = request[w]
    BY <1>7 DEF Insert, GoTo, Typed, TypeOK
  <2>2. request[w].name \in Names
    BY <2>1 DEF Typed, Asked, Request
  <2>3. rows' = [rows EXCEPT ![request[w].name] = @ \cup {request[w].password}]
    BY <1>7 DEF Insert
  <2>4. Stored(w)'
    BY <2>1, <2>2, <2>3 DEF Stored, Typed, TypeOK
  <2> QED
    BY <1>2, <2>1, <2>4 DEF OnItsWay, Knows
<1>8. ASSUME NEW w \in Workers, InsertFails(w) PROVE Knows(w)'
  <2>1. /\ pc'[w] = "store" /\ pc[w] = "query" /\ res'[w] = TRUE
        /\ page'[w] = page[w] /\ request'[w] = request[w]
    BY <1>8 DEF InsertFails, GoTo, Typed, TypeOK
  <2> QED
    BY <1>2, <2>1 DEF OnItsWay, Knows
<1>9. ASSUME NEW w \in Workers, Store(w) PROVE Knows(w)'
  <2>1. /\ pc'[w] = "unlock" /\ pc[w] = "store" /\ res'[w] = res[w]
        /\ page'[w] = page[w] /\ request'[w] = request[w]
    BY <1>9 DEF Store, GoTo, Typed, TypeOK
  <2>2. request[w].name \in Names /\ request[w].password # NULL
    BY <2>1, UserTableAssumption DEF Typed, Asked, Request
  <2>3. users' = [users EXCEPT ![request[w].name] = request[w].password]
    BY <1>9 DEF Store
  <2>4. Mapped(w)'
    BY <2>1, <2>2, <2>3 DEF Mapped, Typed, TypeOK
  <2> QED
    BY <1>2, <2>1, <2>4 DEF OnItsWay, Knows
<1>10. ASSUME NEW w \in Workers, Unlock(w) PROVE Knows(w)'
  <2>1. /\ pc'[w] = "idle" /\ pc[w] = "unlock" /\ request'[w] = request[w]
        /\ page'[w] = IF res[w] THEN "/registerError.html" ELSE "/log.html"
    BY <1>10 DEF Unlock, Answer, GoTo, Typed, TypeOK
  <2> QED
    BY <1>2, <2>1 DEF OnItsWay, Knows
<1>11. ASSUME UNCHANGED vars PROVE OnItsWay'
  BY <1>11 DEF vars, OnItsWay, Knows, Stored, Mapped
<1> QED
  BY <1>3, <1>4, <1>5, <1>6, <1>7, <1>8, <1>9, <1>10, <1>11 DEF Next, Step

-----------------------------------------------------------------------------
(* The theorems                                                            *)

\* The initial states: nobody is under way, and the map has what the table has.
LEMMA InvInit == Init => Inv
<1> SUFFICES ASSUME Init PROVE Inv
  OBVIOUS
<1>1. \A w \in Workers : pc[w] = "idle" /\ page[w] = NULL
  BY DEF Init
<1>2. OnItsWay
  BY <1>1, UserTableAssumption DEF OnItsWay, Knows, Page
<1>3. Behind
  BY <1>1 DEF Init, Behind
<1> QED
  BY TypedInit, <1>2, <1>3 DEF Inv

\* The three layers together are an invariant of registration and login.
THEOREM Invariance == Spec => []Inv
<1>1. Inv /\ [Next]_vars => Inv'
  BY TypedNext, BehindNext, StoredNext DEF Inv
<1> QED
  BY InvInit, <1>1, PTL DEF Spec

\* Every variable keeps its type, and the insert and the store are made by the
\* worker that has m_lock.
THEOREM TypeCorrect == Spec => []TypeOK
<1>1. Inv => TypeOK
  BY DEF Inv, Typed
<1> QED
  BY Invariance, <1>1, PTL

\* Between two registrations, the map holds the password of the row that was
\* inserted last for each name whose last insert did not fail, whoever missed
\* the name in the unlocked look-up.
THEOREM MapInOrder == Spec => []MapFollowsTable
<1>1. Inv => MapFollowsTable
  BY NobodyBehind DEF Inv
<1> QED
  BY Invariance, <1>1, PTL

\* A client that is sent to log.html has been registered: its row is in the
\* table, and its name is in the map.
THEOREM Registered == Spec => []RegisteredIsStored
<1>1. Inv => RegisteredIsStored
  BY DEF Inv, OnItsWay, Knows, Stored, Mapped, RegisteredIsStored
<1> QED
  BY Invariance, <1>1, PTL
=============================================================================
