------------------------------ MODULE HttpConn ------------------------------
(***************************************************************************)
(* One http_conn (http/http_conn.cpp): read_once() fills the read buffer,  *)
(* process() parses it line by line and builds the response, write() sends *)
(* the response.  Between them the descriptor is armed again with modfd;   *)
(* EPOLLONESHOT makes sure that nobody else uses the object in between.    *)
(*                                                                         *)
(* The text of a request is a sequence of tokens: the text of each line is *)
(* one token, and CR, LF and each byte of a body are one token each, so    *)
(* that a request may be cut anywhere by TCP.  A byte of the response is   *)
(* known by the memory it comes from.                                      *)
(*                                                                         *)
(* The loop that calls read_once() and write() and closes the connection   *)
(* when they return false is not in the repository, nor are init(),        *)
(* unmap() and close_conn(): they are modelled by their declarations.      *)
(***************************************************************************)
EXTENDS Integers, Sequences, FiniteSets

CONSTANTS
  Requests,          \* the requests of the client, sequences of tokens
  READ_BUFFER_SIZE,
  IntMax,            \* the largest value of an int
  ContentLengths,    \* what the header "length" may say: any ints
  HeaderLength,      \* m_write_idx once the response header is complete
  FileSize,          \* m_file_stat.st_size of a file that is not empty
  SendBuffer,        \* the size of the send buffer of the socket
  MaxSends           \* bound: how many requests the client sends

ASSUME HttpConnAssumption ==
  /\ \A r \in Requests : r \in Seq(STRING) /\ r # <<>>
  /\ IntMax \in Nat
  /\ READ_BUFFER_SIZE \in 1..IntMax
  /\ ContentLengths \subseteq (-IntMax - 1)..IntMax
  /\ {HeaderLength, FileSize, SendBuffer} \subseteq Nat \ {0}
  /\ MaxSends \in Nat

VARIABLES
  \* the client and the kernel
  incoming,        \* what the client has sent and read_once() not received
  sends,           \* number of requests sent
  hungUp,          \* the client has closed its side
  room,            \* free space in the send buffer
  wire,            \* what has been sent of the current response
  armed,           \* the event modfd asked for: "in", "out" or "none"; "gone"
                   \* once a timer has closed the descriptor
  \* the thread that has the connection
  state,           \* "polled" by epoll, "parsing", "writing", "closed", or
                   \* "undefined" after a write outside m_read_buf
  line_status,     \* local variable of process_read()
  newadd,          \* local variable of write()
  \* the members of http_conn
  m_read_buf,      \* its length is m_read_idx
  m_checked_idx,
  m_start_line,
  m_check_state,
  m_content_length,
  m_linger,
  mapped,          \* m_file_address is a mapping
  m_iv,            \* the two iovec: [part, base, len]
  bytes_to_send,
  bytes_have_send,
  \* history
  calls            \* how often this write() has sent something; 2 until the
                   \* next response once a write() has sent twice

clientVars == <<incoming, sends, hungUp>>
parseVars == <<m_read_buf, m_checked_idx, m_start_line, m_check_state,
               m_content_length, m_linger>>
responseVars == <<mapped, m_iv, bytes_to_send, bytes_have_send, calls>>
vars == <<clientVars, room, wire, armed, state, line_status, newadd,
          parseVars, responseVars>>

CR == "\r"
LF == "\n"
NUL == "NUL"

m_read_idx == Len(m_read_buf)

\* The byte at a position of m_read_buf.
Byte(buf, i) == buf[i + 1]

MinOf(a, b) == IF a < b THEN a ELSE b

Least(S) == CHOOSE i \in S : \A j \in S : i <= j

HeaderVec(base, len) == [part |-> "head", base |-> base, len |-> len]

FileVec(base, len) == [part |-> "file", base |-> base, len |-> len]

\* The bytes that an iovec stands for.
Bytes(v) == [i \in 1..v.len |-> <<v.part, v.base + i - 1>>]

NoResponse == <<HeaderVec(0, 0), FileVec(0, 0)>>

\* Mutant: init() leaves m_checked_idx where it was.
InitParseKeepsIndex ==
  /\ m_read_buf' = <<>>
  /\ m_start_line' = 0
  /\ m_check_state' = "REQUESTLINE"
  /\ m_content_length' = 0
  /\ m_linger' = FALSE
  /\ UNCHANGED m_checked_idx

\* void http_conn::init()
InitParse ==
  /\ m_read_buf' = <<>>
  /\ m_checked_idx' = 0
  /\ m_start_line' = 0
  /\ m_check_state' = "REQUESTLINE"
  /\ m_content_length' = 0
  /\ m_linger' = FALSE

InitResponse ==
  /\ m_iv' = NoResponse
  /\ bytes_to_send' = 0
  /\ bytes_have_send' = 0

Init ==
  /\ incoming = <<>>
  /\ sends = 0
  /\ hungUp = FALSE
  /\ room = SendBuffer
  /\ wire = <<>>
  /\ armed = "in"
  /\ state = "polled"
  /\ line_status = "OK"
  /\ newadd = 0
  /\ m_read_buf = <<>>
  /\ m_checked_idx = 0
  /\ m_start_line = 0
  /\ m_check_state = "REQUESTLINE"
  /\ m_content_length = 0
  /\ m_linger = FALSE
  /\ mapped = FALSE
  /\ m_iv = NoResponse
  /\ bytes_to_send = 0
  /\ bytes_have_send = 0
  /\ calls = 0

-----------------------------------------------------------------------------
(* The client and the kernel                                               *)

\* The client sends a request once the server is done with the one before.
Send(r) ==
  /\ incoming = <<>>
  /\ m_read_buf = <<>>
  /\ ~hungUp
  /\ sends < MaxSends
  /\ incoming' = r
  /\ sends' = sends + 1
  /\ UNCHANGED <<hungUp, room, wire, armed, state, line_status, newadd,
                 parseVars, responseVars>>

HangUp ==
  /\ ~hungUp
  /\ hungUp' = TRUE
  /\ UNCHANGED <<incoming, sends, room, wire, armed, state, line_status, newadd,
                 parseVars, responseVars>>

\* The peer acknowledges some data, while write() runs or not.
Drain ==
  /\ room' \in (room + 1)..SendBuffer
  /\ UNCHANGED <<clientVars, wire, armed, state, line_status, newadd,
                 parseVars, responseVars>>

-----------------------------------------------------------------------------
(* The descriptor                                                          *)

\* void modfd(int epollfd, int fd, int ev): asks for one more event.  For a
\* descriptor that is closed epoll_ctl fails, and nobody looks at the result.
ModFd(ev) == armed' = IF armed = "gone" THEN "gone" ELSE ev

\* void cb_func(client_data *user_data): the timer of an idle connection takes
\* the descriptor from epoll and closes it, whatever a worker does with the
\* object.  The file stays mapped, and the members stay as they are.  The main
\* loop, which calls cb_func(), is also what calls read_once() and write().
TimerCloses ==
  /\ state \in {"polled", "parsing"}
  /\ armed # "gone"
  /\ armed' = "gone"
  /\ UNCHANGED <<clientVars, room, wire, state, line_status, newadd,
                 parseVars, responseVars>>

-----------------------------------------------------------------------------
(* bool http_conn::read_once()                                             *)

\* What recv returns until there is nothing more to read, given that n tokens
\* have arrived: as many as fit into the buffer.
Received(n) == SubSeq(incoming, 1, MinOf(n, READ_BUFFER_SIZE - m_read_idx))

\* Mutant: the loop stops when the buffer is full, and returns true.
ReadFullBuffer ==
  /\ state = "polled" /\ armed = "in"
  /\ \E n \in 1..Len(incoming) :
       LET got == Received(n)
       IN /\ incoming' = SubSeq(incoming, Len(got) + 1, Len(incoming))
          /\ m_read_buf' = m_read_buf \o got
          /\ ~(hungUp /\ n = Len(incoming))
  /\ armed' = "none"
  /\ state' = "parsing"
  /\ line_status' = "OK"
  /\ UNCHANGED <<sends, hungUp, room, wire, newadd, m_checked_idx, m_start_line,
                 m_check_state, m_content_length, m_linger, responseVars>>

\* EPOLLIN: read_once() returns true and process() is called.  When the buffer
\* is full the next recv asks for 0 bytes and gets 0, as from a closed peer.
Read ==
  /\ state = "polled" /\ armed = "in"
  /\ \E n \in 1..Len(incoming) :
       LET got == Received(n)
       IN /\ m_read_idx + Len(got) < READ_BUFFER_SIZE
          /\ ~(hungUp /\ n = Len(incoming))
          /\ incoming' = SubSeq(incoming, Len(got) + 1, Len(incoming))
          /\ m_read_buf' = m_read_buf \o got
  /\ armed' = "none"
  /\ state' = "parsing"
  /\ line_status' = "OK"
  /\ UNCHANGED <<sends, hungUp, room, wire, newadd, m_checked_idx, m_start_line,
                 m_check_state, m_content_length, m_linger, responseVars>>

\* EPOLLIN: read_once() returns false, the buffer is full or the client has
\* closed its side, and the connection is closed.
ReadFails ==
  /\ state = "polled" /\ armed = "in"
  /\ \/ hungUp
     \/ m_read_idx + Len(incoming) >= READ_BUFFER_SIZE /\ incoming # <<>>
  /\ armed' = "none"
  /\ state' = "closed"
  /\ UNCHANGED <<clientVars, room, wire, line_status, newadd, parseVars,
                 responseVars>>

-----------------------------------------------------------------------------
(* LINE_STATUS http_conn::parse_line()                                     *)

\* Scan from m_checked_idx to the end of a line.  A complete line has its CR
\* and LF replaced by NUL and is skipped; a CR at the end of the data is
\* looked at again next time.
ParseLine ==
  LET ends == {i \in m_checked_idx..(m_read_idx - 1) : Byte(m_read_buf, i) \in {CR, LF}}
      i == Least(ends)
      ok(from, upto) ==
        [ status |-> "OK",
          checked |-> upto,
          buf |-> [k \in DOMAIN m_read_buf |->
                     IF k - 1 \in from..(from + 1) THEN NUL ELSE m_read_buf[k]] ]
      no(status, upto) == [status |-> status, checked |-> upto, buf |-> m_read_buf]
  IN IF ends = {} THEN no("OPEN", m_read_idx)
     ELSE IF Byte(m_read_buf, i) = CR
     THEN IF i + 1 = m_read_idx THEN no("OPEN", i)
          ELSE IF Byte(m_read_buf, i + 1) = LF THEN ok(i, i + 2)
          ELSE no("BAD", i)
     ELSE IF i > 1 /\ Byte(m_read_buf, i - 1) = CR THEN ok(i - 1, i + 1)
     ELSE no("BAD", i)

-----------------------------------------------------------------------------
(* bool http_conn::process_write(HTTP_CODE) and the rest of process()      *)

\* The result of do_request(), for a file that is there, empty, missing, not
\* readable or a directory.
RequestResults ==
  {"FILE_REQUEST", "EMPTY_FILE", "NO_RESOURCE", "FORBIDDEN_REQUEST", "BAD_REQUEST"}

\* Mutant: the file is mapped but not counted.
RespondWithoutFile(code) ==
  CASE code = "FILE_REQUEST" ->
         /\ mapped' = TRUE
         /\ m_iv' = <<HeaderVec(0, HeaderLength), FileVec(0, FileSize)>>
         /\ bytes_to_send' = HeaderLength
         /\ state' = "polled" /\ ModFd("out")
    [] code \in {"FORBIDDEN_REQUEST", "BAD_REQUEST"} ->
         /\ m_iv' = [m_iv EXCEPT ![1] = HeaderVec(0, HeaderLength)]
         /\ UNCHANGED <<mapped, bytes_to_send>>
         /\ state' = "polled" /\ ModFd("out")
    [] code \in {"NO_RESOURCE", "EMPTY_FILE"} ->
         /\ UNCHANGED <<mapped, m_iv, bytes_to_send>>
         /\ state' = "closed" /\ armed' = "none"

\* A file that is not empty is answered by header and file, and counted in
\* bytes_to_send.  An error page is put into the first iovec and not counted.
\* A missing file has no case of its own and an empty file falls through to
\* the default: process_write() returns false, and close_conn() is called;
\* the modfd that follows finds the descriptor closed.
Respond(code) ==
  CASE code = "FILE_REQUEST" ->
         /\ mapped' = TRUE
         /\ m_iv' = <<HeaderVec(0, HeaderLength), FileVec(0, FileSize)>>
         /\ bytes_to_send' = HeaderLength + FileSize
         /\ state' = "polled" /\ ModFd("out")
    [] code \in {"FORBIDDEN_REQUEST", "BAD_REQUEST"} ->
         /\ m_iv' = [m_iv EXCEPT ![1] = HeaderVec(0, HeaderLength)]
         /\ UNCHANGED <<mapped, bytes_to_send>>
         /\ state' = "polled" /\ ModFd("out")
    [] code \in {"NO_RESOURCE", "EMPTY_FILE"} ->
         /\ UNCHANGED <<mapped, m_iv, bytes_to_send>>
         /\ state' = "closed" /\ armed' = "none"

\* The request is answered with this code.
Answer(code) ==
  /\ Respond(code)
  /\ wire' = <<>>
  /\ calls' = 0
  /\ UNCHANGED bytes_have_send

\* The request goes on being parsed.
GoOn == UNCHANGED <<wire, armed, state, responseVars>>

-----------------------------------------------------------------------------
(* HTTP_CODE http_conn::process_read(): one iteration of the loop          *)

\* text = get_line(); m_start_line = m_checked_idx, after parse_line() has
\* returned LINE_OK.  The text is one token, or NUL for an empty line.
Text == Byte(ParseLine.buf, m_start_line)

TakeLine ==
  /\ ParseLine.status = "OK"
  /\ m_read_buf' = ParseLine.buf
  /\ m_checked_idx' = ParseLine.checked
  /\ m_start_line' = ParseLine.checked

\* parse_request_line()
ParseRequestLine ==
  /\ state = "parsing"
  /\ m_check_state = "REQUESTLINE"
  /\ TakeLine
  /\ \/ /\ Text \in {"GET", "POST"}
        /\ m_check_state' = "HEADER"
        /\ GoOn
     \/ /\ Text \notin {"GET", "POST"}
        /\ Answer("BAD_REQUEST")
        /\ UNCHANGED m_check_state
  /\ UNCHANGED <<clientVars, room, line_status, newadd, m_content_length, m_linger>>

\* parse_headers(), a line with a header.  The length is what atol() makes of
\* the text, taken as an int: it may be 0, negative or too large.
ParseHeader ==
  /\ state = "parsing"
  /\ m_check_state = "HEADER"
  /\ TakeLine
  /\ Text # NUL
  /\ m_linger' = (m_linger \/ Text = "keep-alive")
  /\ IF Text = "length"
     THEN m_content_length' \in ContentLengths
     ELSE UNCHANGED m_content_length
  /\ GoOn
  /\ UNCHANGED <<clientVars, room, line_status, newadd, m_check_state>>

\* parse_headers(), the empty line at the end: do_request() if there is no
\* body.
EndOfHeaders ==
  /\ state = "parsing"
  /\ m_check_state = "HEADER"
  /\ TakeLine
  /\ Text = NUL
  /\ \/ /\ m_content_length # 0
        /\ m_check_state' = "CONTENT"
        /\ GoOn
     \/ /\ m_content_length = 0
        /\ \E code \in RequestResults : Answer(code)
        /\ UNCHANGED m_check_state
  /\ UNCHANGED <<clientVars, room, line_status, newadd, m_content_length, m_linger>>

\* The results that m_read_idx >= m_content_length + m_checked_idx may have: a
\* sum that is no int is undefined.
BodyComplete(checked) ==
  IF m_content_length + checked > IntMax THEN BOOLEAN
  ELSE {m_read_idx >= m_content_length + checked}

\* parse_content(): entered without parse_line() as long as line_status is
\* LINE_OK, or when parse_line() finds a line end in the body.  If the body is
\* complete, a NUL is written m_content_length bytes behind the start of the
\* line; what happens after a write outside the buffer is not defined.  (Inside
\* it only do_request() reads what the NUL may cut, and its result is open.)
ParseContent ==
  /\ state = "parsing"
  /\ m_check_state = "CONTENT"
  /\ \/ /\ line_status = "OK"
        /\ m_start_line' = m_checked_idx
        /\ UNCHANGED <<m_read_buf, m_checked_idx>>
     \/ /\ line_status # "OK"
        /\ TakeLine
  /\ \/ /\ TRUE \in BodyComplete(m_checked_idx')
        /\ m_start_line + m_content_length \in 0..(READ_BUFFER_SIZE - 1)
        /\ \E code \in RequestResults : Answer(code)
        /\ UNCHANGED line_status
     \/ /\ TRUE \in BodyComplete(m_checked_idx')
        /\ m_start_line + m_content_length \notin 0..(READ_BUFFER_SIZE - 1)
        /\ state' = "undefined"
        /\ UNCHANGED <<wire, armed, line_status, responseVars>>
     \/ /\ FALSE \in BodyComplete(m_checked_idx')
        /\ line_status' = "OPEN"
        /\ GoOn
  /\ UNCHANGED <<clientVars, room, newadd, m_check_state, m_content_length, m_linger>>

\* Mutant: a complete line is only parsed when more data follows it.
NeedMoreTooEarly ==
  /\ state = "parsing"
  /\ m_check_state # "CONTENT" \/ line_status # "OK"
  /\ ParseLine.status # "OK" \/ ParseLine.checked = m_read_idx
  /\ m_checked_idx' = ParseLine.checked
  /\ ModFd("in")
  /\ state' = "polled"
  /\ UNCHANGED <<clientVars, room, wire, line_status, newadd, m_read_buf,
                 m_start_line, m_check_state, m_content_length, m_linger,
                 responseVars>>

\* The loop ends: NO_REQUEST, for LINE_OPEN and for LINE_BAD alike, and
\* process() asks for more data.
NeedMore ==
  /\ state = "parsing"
  /\ m_check_state # "CONTENT" \/ line_status # "OK"
  /\ ParseLine.status # "OK"
  /\ m_checked_idx' = ParseLine.checked
  /\ ModFd("in")
  /\ state' = "polled"
  /\ UNCHANGED <<clientVars, room, wire, line_status, newadd, m_read_buf,
                 m_start_line, m_check_state, m_content_length, m_linger,
                 responseVars>>

-----------------------------------------------------------------------------
(* bool http_conn::write()                                                 *)

\* EPOLLOUT, and bytes_to_send is 0: nothing is sent, read again.
WriteNothing ==
  /\ state = "polled" /\ armed = "out"
  /\ room > 0
  /\ bytes_to_send = 0
  /\ armed' = "in"
  /\ InitParse
  /\ InitResponse
  /\ UNCHANGED <<clientVars, room, wire, state, line_status, newadd, mapped, calls>>

\* EPOLLOUT: the loop begins.
StartWrite ==
  /\ state = "polled" /\ armed = "out"
  /\ room > 0
  /\ bytes_to_send # 0
  /\ state' = "writing"
  /\ armed' = "none"
  /\ newadd' = 0
  /\ calls' = IF calls = 2 THEN 2 ELSE 0
  /\ UNCHANGED <<clientVars, room, wire, line_status, parseVars, mapped, m_iv,
                 bytes_to_send, bytes_have_send>>

\* Everything is sent: unmap(), a modfd that asks for neither EPOLLIN nor
\* EPOLLOUT, and init() or, without keep-alive, false.
Finish(temp) ==
  /\ mapped' = FALSE
  /\ armed' = "none"
  /\ \/ /\ m_linger
        /\ InitParse
        /\ InitResponse
        /\ state' = "polled"
     \/ /\ ~m_linger
        /\ bytes_have_send' = bytes_have_send + temp
        /\ bytes_to_send' = bytes_to_send - temp
        /\ state' = "closed"
        /\ UNCHANGED <<parseVars, m_iv>>

\* writev sends what fits into the send buffer; the loop ends when everything
\* is sent.  The iovec are left as they are, also when there is room again for
\* the next writev of the loop.
Writev ==
  /\ state = "writing"
  /\ room > 0
  /\ LET all == Bytes(m_iv[1]) \o Bytes(m_iv[2])
         temp == MinOf(room, Len(all))
     IN /\ temp > 0
        /\ wire' = wire \o SubSeq(all, 1, temp)
        /\ room' = room - temp
        /\ newadd' = bytes_have_send + temp - HeaderLength
        /\ calls' = MinOf(calls + 1, 2)
        /\ IF bytes_to_send - temp <= 0
           THEN Finish(temp)
           ELSE /\ bytes_have_send' = bytes_have_send + temp
                /\ bytes_to_send' = bytes_to_send - temp
                /\ UNCHANGED <<state, armed, parseVars, mapped, m_iv>>
  /\ UNCHANGED <<clientVars, line_status>>

\* Mutant: after EAGAIN the file is sent from its beginning again.
RewindFile ==
  /\ state = "writing"
  /\ room = 0
  /\ m_iv' = IF bytes_have_send >= m_iv[1].len
             THEN <<HeaderVec(m_iv[1].base, 0), FileVec(0, bytes_to_send)>>
             ELSE [m_iv EXCEPT ![1] =
                     HeaderVec(bytes_have_send, m_iv[1].len - bytes_have_send)]
  /\ armed' = "out"
  /\ state' = "polled"
  /\ UNCHANGED <<clientVars, room, wire, line_status, newadd, parseVars, mapped,
                 bytes_to_send, bytes_have_send, calls>>

\* writev fails with EAGAIN: the iovec are moved behind what has been sent,
\* and modfd asks for EPOLLOUT.
WriteAgain ==
  /\ state = "writing"
  /\ room = 0
  /\ m_iv' = IF bytes_have_send >= m_iv[1].len
             THEN <<HeaderVec(m_iv[1].base, 0), FileVec(newadd, bytes_to_send)>>
             ELSE [m_iv EXCEPT ![1] =
                     HeaderVec(bytes_have_send, m_iv[1].len - bytes_have_send)]
  /\ armed' = "out"
  /\ state' = "polled"
  /\ UNCHANGED <<clientVars, room, wire, line_status, newadd, parseVars, mapped,
                 bytes_to_send, bytes_have_send, calls>>

\* Mutant: a failed write leaves the file mapped.
WriteFailsMapped ==
  /\ state = "writing"
  /\ hungUp
  /\ state' = "closed"
  /\ UNCHANGED <<clientVars, room, wire, armed, line_status, newadd, parseVars,
                 responseVars>>

\* writev fails for good: unmap() and false.
WriteFails ==
  /\ state = "writing"
  /\ hungUp
  /\ mapped' = FALSE
  /\ state' = "closed"
  /\ UNCHANGED <<clientVars, room, wire, armed, line_status, newadd, parseVars,
                 m_iv, bytes_to_send, bytes_have_send, calls>>

-----------------------------------------------------------------------------
Process == ParseRequestLine \/ ParseHeader \/ EndOfHeaders \/ ParseContent \/ NeedMore

Write == WriteNothing \/ StartWrite \/ Writev \/ WriteAgain \/ WriteFails

Next ==
  \/ \E r \in Requests : Send(r)
  \/ HangUp \/ Drain \/ TimerCloses
  \/ Read \/ ReadFails
  \/ Process
  \/ Write

Spec == Init /\ [][Next]_vars

\* The threads keep running, epoll reports what it was asked for, what the
\* client has sent arrives, and the peer takes what has been sent.
Fairness == WF_vars(Read \/ ReadFails) /\ WF_vars(Process) /\ WF_vars(Write) /\ WF_vars(Drain)

FairSpec == Spec /\ Fairness

-----------------------------------------------------------------------------
(* Properties *)

\* The type invariant: the indices of the read buffer are in order.
TypeOK ==
  /\ sends \in 0..MaxSends
  /\ hungUp \in BOOLEAN
  /\ room \in 0..SendBuffer
  /\ armed \in {"in", "out", "none", "gone"}
  /\ state \in {"polled", "parsing", "writing", "closed", "undefined"}
  /\ line_status \in {"OK", "OPEN"}
  /\ m_read_idx \in 0..READ_BUFFER_SIZE
  /\ m_checked_idx \in 0..m_read_idx
  /\ m_start_line \in 0..m_checked_idx
  /\ m_check_state \in {"REQUESTLINE", "HEADER", "CONTENT"}
  /\ m_content_length \in ContentLengths \cup {0}
  /\ m_linger \in BOOLEAN
  /\ mapped \in BOOLEAN
  /\ bytes_to_send \in Int
  /\ bytes_have_send \in Int
  /\ calls \in 0..2

\* text[m_content_length] = NUL is written outside the read buffer only for a
\* length that is negative or makes the sum in the test overflow.  For every
\* other length the byte behind a body that parse_content() finds complete is
\* one of the buffer's, because read_once() takes a full buffer for a closed
\* peer and m_start_line is never ahead of m_checked_idx.
BodyTerminatorInBuffer ==
  state = "undefined" => \/ m_content_length < 0
                         \/ m_content_length + m_checked_idx > IntMax

\* The read buffer holds a whole request, all of it has been processed, and
\* the server waits for more.  (After an error page the rest of the rejected
\* request is taken for a new one; that does not start like a request.)
Stalled ==
  /\ state = "polled" /\ armed = "in"
  /\ incoming = <<>>
  /\ \E r \in Requests : m_read_buf # <<>> /\ m_read_buf[1] = r[1]

\* The first n tokens of r are its header: CR and LF come in pairs, and the
\* last line is empty.
HeaderOf(r, n) ==
  /\ \A i \in 1..n : r[i] = LF <=> i > 1 /\ r[i - 1] = CR
  /\ r[n] = LF
  /\ r[n - 2] = LF

\* Requests that have a header and are told apart from what is left of another.
ProperRequests ==
  /\ \A r \in Requests : r[1] # NUL /\ \E n \in 4..Len(r) : HeaderOf(r, n)
  /\ \A r \in Requests, q \in Requests : \A i \in 2..Len(q) : q[i] # r[1]

\* However the network cuts a request, its lines are found: the server never
\* waits for more of a request it has completely, except inside a body.
\* (For ProperRequests.)
LinesNeverStall == Stalled => m_check_state = "CONTENT"

Response ==
  Bytes(HeaderVec(0, HeaderLength)) \o Bytes(FileVec(0, FileSize))

\* What is on the wire is a prefix of the header and the file.
StreamIsPrefix ==
  /\ Len(wire) <= Len(Response)
  /\ wire = SubSeq(Response, 1, Len(wire))

\* As long as no write() has sent twice, over all the calls of write() no byte
\* is repeated, skipped or read from elsewhere, whenever the peer takes data:
\* the iovec are moved correctly each time writev answers EAGAIN.  (With a send
\* buffer that takes the header.)
StreamIsPrefixUnlessResent == calls < 2 => StreamIsPrefix

\* The file is mapped exactly as long as there is something to send: process(),
\* read_once() and write() end a connection only with the file unmapped.  The
\* timer ends it otherwise, see TimerReleasesResources.
MappedWhileSending ==
  IF state = "closed" THEN ~mapped ELSE mapped <=> bytes_to_send > 0

\* A response with a file is sent to its end, unless a write() sends twice, the
\* client hangs up or a timer closes the connection.
ResponseCompleted ==
  mapped ~> (wire = Response \/ calls = 2 \/ hungUp \/ armed = "gone")

-----------------------------------------------------------------------------
(* What the comments say and the code does not do *)

\* "NO_REQUEST means that the request is incomplete" (http_conn.cpp:149), and
\* parse_content "decides whether the request has been read completely"
\* (http_conn.cpp:417): a complete request is not waited for.  (When the header
\* "length" tells the length of the body.)
CompleteRequestNotAwaited == ~Stalled

\* "Remove the event from epoll, close the descriptor, release the resources of
\* the connection" (lst_timer.h:46): a connection that a timer has closed while
\* it waited for EPOLLOUT keeps no mapping.
TimerReleasesResources == state = "polled" /\ armed = "gone" => ~mapped

\* "With keep-alive the connection is initialised again" (http_conn.cpp:824)
\* and goes on being served: it is not left without an event to wait for.
KeptAliveListens == state = "polled" => armed # "none"
=============================================================================
