--------------------------- MODULE HttpConnProofs ---------------------------
(***************************************************************************)
(* Theorems about HttpConn, for any requests, any size of the read buffer, *)
(* of the response and of the send buffer, and any number of requests: the *)
(* indices of the read buffer, the mapping of the file, the bytes of the   *)
(* response and the lines of a request that the network cuts anywhere.     *)
(***************************************************************************)
EXTENDS HttpConn, SequenceTheorems, WellFoundedInduction, TLAPS

\* The tokens of a request, and what parse_line() overwrites them with.
Token == STRING \cup {NUL}

\* The types of what the client sends, of the parser and of the control of the
\* connection.  The read buffer is never full between two calls.
Typed ==
  /\ incoming \in Seq(Token)
  /\ sends \in 0..MaxSends
  /\ hungUp \in BOOLEAN
  /\ armed \in {"in", "out", "none", "gone"}
  /\ state \in {"polled", "parsing", "writing", "closed", "undefined"}
  /\ line_status \in {"OK", "OPEN"}
  /\ m_read_buf \in Seq(Token)
  /\ Len(m_read_buf) < READ_BUFFER_SIZE
  /\ m_checked_idx \in 0..Len(m_read_buf)
  /\ m_start_line \in 0..m_checked_idx
  /\ m_check_state \in {"REQUESTLINE", "HEADER", "CONTENT"}
  /\ m_content_length \in ContentLengths \cup {0}
  /\ m_linger \in BOOLEAN
  /\ mapped \in BOOLEAN

\* The types of what is sent.  A length may be any number: a response whose
\* header is sent in three pieces is miscounted.
Vec == [part : {"head", "file"}, base : Int, len : Int]

\* The two iovec and the counts of write().
Counted ==
  /\ room \in 0..SendBuffer
  /\ newadd \in Int
  /\ m_iv \in [1..2 -> Vec]
  /\ bytes_to_send \in Int
  /\ bytes_have_send \in Int
  /\ calls \in 0..2

\* Nothing is to be sent while a request is awaited or parsed, something is
\* while write() loops, and the file is mapped exactly then.
Mapping ==
  /\ state \in {"parsing", "undefined"} => bytes_to_send = 0
  /\ state = "polled" /\ armed = "in" => bytes_to_send = 0
  /\ state = "writing" => bytes_to_send # 0
  /\ MappedWhileSending

\* The inductive invariant that needs nothing of the peer or the requests.
Inv == Typed /\ Counted /\ Mapping /\ BodyTerminatorInBuffer

\* The bytes on the wire, and how many a response has.
Sent == {"head", "file"} \X Int

\* The length of a response.
Total == HeaderLength + FileSize

\* What the iovec stand for while there is something to send.  At first: the
\* whole response, and the send buffer is empty.
Whole ==
  /\ m_iv = <<HeaderVec(0, HeaderLength), FileVec(0, FileSize)>>
  /\ bytes_have_send = 0
  /\ room = SendBuffer
  /\ state = "writing" => calls = 0

\* The header has been sent: the second iovec is the rest of the file.
RestOfFile ==
  /\ bytes_have_send >= HeaderLength
  /\ m_iv[1].len = 0
  /\ m_iv[2] = FileVec(bytes_have_send - HeaderLength, bytes_to_send)
  /\ state = "writing" => calls = 0 /\ room > 0

\* A writev has sent a part: newadd says where in the file the rest begins.  The
\* iovec are behind, until the next writev answers EAGAIN or sends them again.
Partly ==
  /\ state = "writing"
  /\ calls = 1
  /\ bytes_have_send >= HeaderLength
  /\ m_iv[1].len <= bytes_have_send
  /\ newadd = bytes_have_send - HeaderLength

\* The server waits for a request, parses one or is about to send a response.
Idle == state = "parsing" \/ (state = "polled" /\ armed \in {"in", "out"})

\* The send buffer is empty until a response is sent, and as long as no write()
\* has sent twice the counts of write() agree with the wire.
Sending ==
  /\ state # "closed" /\ bytes_to_send = 0 /\ Idle
       => bytes_have_send = 0 /\ room = SendBuffer
  /\ calls < 2
       => /\ wire \in Seq(Sent)
          /\ StreamIsPrefix
          /\ bytes_to_send \in 0..Total
          /\ bytes_have_send \in 0..Total
          /\ state # "closed" /\ bytes_to_send > 0
               => /\ bytes_have_send = Len(wire)
                  /\ bytes_have_send + bytes_to_send = Total
                  /\ Whole \/ RestOfFile \/ Partly

\* The read buffer and what is still to arrive are r without its first k
\* tokens; parse_line() has overwritten some of it.
RestOf(r, k) ==
  /\ k + Len(m_read_buf) + Len(incoming) = Len(r)
  /\ \A i \in 1..Len(incoming) : incoming[i] = r[k + Len(m_read_buf) + i]
  /\ \A i \in 1..Len(m_read_buf) : m_read_buf[i] = r[k + i] \/ m_read_buf[i] = NUL

\* A request is awaited or parsed.
Waiting == state = "parsing" \/ (state = "polled" /\ armed = "in")

\* m_start_line is at the beginning of a line of the header, the last one at
\* the latest; from there on the buffer is as it was received, and no line ends
\* before m_checked_idx.
InHeader(r, n) ==
  /\ n \in 4..Len(r) /\ HeaderOf(r, n)
  /\ m_start_line <= n - 2
  /\ m_start_line = 0 \/ r[m_start_line] = LF
  /\ \A i \in (m_start_line + 1)..Len(m_read_buf) : m_read_buf[i] = r[i]
  /\ m_checked_idx <= n - 1
  /\ \A i \in (m_start_line + 1)..m_checked_idx : r[i] \notin {CR, LF}
  /\ state = "polled" => Len(m_read_buf) < n

\* Nothing has arrived, or the buffer holds the beginning or the rest of one
\* request; the header of one that begins is parsed line by line.
Lines ==
  \/ incoming = <<>> /\ m_read_buf = <<>>
  \/ \E r \in Requests, k \in Nat :
       /\ RestOf(r, k)
       /\ k = 0 /\ Waiting /\ m_check_state # "CONTENT" => \E n \in Nat : InHeader(r, n)

-----------------------------------------------------------------------------
(* parse_line()                                                            *)

\* A set of numbers that is not empty has a smallest element.
LEMMA LeastFacts ==
  ASSUME NEW S \in SUBSET Nat, S # {}
  PROVE  Least(S) \in S /\ \A j \in S : Least(S) <= j
<1>1. \E i \in S : \A j \in S : ~ (<<j, i>> \in OpToRel(<, Nat))
  BY NatLessThanWellFounded, WFMin
<1>2. \E i \in S : \A j \in S : i <= j
  <2>1. PICK i \in S : \A j \in S : ~ (<<j, i>> \in OpToRel(<, Nat))
    BY <1>1
  <2>2. \A j \in S : ~ (j < i)
    BY <2>1 DEF OpToRel
  <2> QED
    BY <2>2
<1> QED
  BY <1>2 DEF Least

\* The positions that parse_line() has not looked at and that end a line.
LineEnds == {i \in m_checked_idx..(m_read_idx - 1) : Byte(m_read_buf, i) \in {CR, LF}}

\* What parse_line() makes of a CR at i, and of a LF at i.
LineEndAt(i) ==
  IF Byte(m_read_buf, i) = CR
  THEN IF i + 1 = m_read_idx
       THEN [status |-> "OPEN", checked |-> i, buf |-> m_read_buf]
       ELSE IF Byte(m_read_buf, i + 1) = LF
       THEN [ status |-> "OK", checked |-> i + 2,
              buf |-> [k \in DOMAIN m_read_buf |->
                         IF k - 1 \in i..(i + 1) THEN NUL ELSE m_read_buf[k]] ]
       ELSE [status |-> "BAD", checked |-> i, buf |-> m_read_buf]
  ELSE IF i > 1 /\ Byte(m_read_buf, i - 1) = CR
  THEN [ status |-> "OK", checked |-> i + 1,
         buf |-> [k \in DOMAIN m_read_buf |->
                    IF k - 1 \in (i - 1)..((i - 1) + 1) THEN NUL ELSE m_read_buf[k]] ]
  ELSE [status |-> "BAD", checked |-> i, buf |-> m_read_buf]

\* parse_line() stops at the first end of a line, or at the end of the data.
LEMMA ParseLineCases ==
  ASSUME Typed
  PROVE  \/ /\ LineEnds = {}
            /\ ParseLine = [status |-> "OPEN", checked |-> m_read_idx, buf |-> m_read_buf]
         \/ \E i \in LineEnds : /\ \A j \in LineEnds : i <= j
                                /\ ParseLine = LineEndAt(i)
<1>1. LineEnds \subseteq Nat
  BY DEF LineEnds, Typed, m_read_idx
<1>2. CASE LineEnds = {}
  BY <1>2 DEF LineEnds, ParseLine
<1>3. CASE LineEnds # {}
  <2>1. Least(LineEnds) \in LineEnds /\ \A j \in LineEnds : Least(LineEnds) <= j
    BY <1>1, <1>3, LeastFacts
  <2>2. ParseLine = LineEndAt(Least(LineEnds))
    BY <1>3 DEF ParseLine, LineEnds, LineEndAt
  <2> QED
    BY <2>1, <2>2
<1> QED
  BY <1>2, <1>3

\* A buffer with two bytes overwritten.
LEMMA OverwriteFacts ==
  ASSUME NEW s \in Seq(Token), NEW i \in Int
  PROVE  LET b == [k \in DOMAIN s |-> IF k - 1 \in i..(i + 1) THEN NUL ELSE s[k]]
         IN  b \in Seq(Token) /\ Len(b) = Len(s)
<1> DEFINE e(k) == IF k - 1 \in i..(i + 1) THEN NUL ELSE s[k]
           b == [k \in 1..Len(s) |-> e(k)]
<1>1. DOMAIN s = 1..Len(s) /\ Len(s) \in Nat
  OBVIOUS
<1>2. \A k \in 1..Len(s) : e(k) \in Token
  <2>1. NUL \in Token
    BY DEF Token
  <2>2. \A k \in 1..Len(s) : s[k] \in Token
    OBVIOUS
  <2> QED
    BY <2>1, <2>2
<1>3. b \in Seq(Token) /\ Len(b) = Len(s)
  BY <1>1, <1>2
<1> QED
  BY <1>1, <1>3

\* parse_line() keeps the length of the data, never goes back, and never goes
\* beyond the data.
LEMMA ParseLineFacts ==
  ASSUME Typed
  PROVE  /\ ParseLine.buf \in Seq(Token)
         /\ Len(ParseLine.buf) = Len(m_read_buf)
         /\ ParseLine.checked \in m_checked_idx..Len(m_read_buf)
         /\ ParseLine.status \in {"OK", "OPEN", "BAD"}
         /\ ParseLine.status # "OK" => ParseLine.buf = m_read_buf
<1>1. /\ m_read_buf \in Seq(Token) /\ Len(m_read_buf) \in Nat
      /\ m_checked_idx \in Nat /\ m_checked_idx <= Len(m_read_buf)
      /\ m_read_idx = Len(m_read_buf)
  BY DEF Typed, m_read_idx
<1>2. CASE ParseLine = [status |-> "OPEN", checked |-> m_read_idx, buf |-> m_read_buf]
  BY <1>1, <1>2
<1>3. ASSUME NEW i \in LineEnds, ParseLine = LineEndAt(i)
      PROVE  /\ ParseLine.buf \in Seq(Token)
             /\ Len(ParseLine.buf) = Len(m_read_buf)
             /\ ParseLine.checked \in m_checked_idx..Len(m_read_buf)
             /\ ParseLine.status \in {"OK", "OPEN", "BAD"}
             /\ ParseLine.status # "OK" => ParseLine.buf = m_read_buf
  <2>1. i \in Nat /\ i >= m_checked_idx /\ i < Len(m_read_buf) /\ i - 1 \in Int
    BY <1>1 DEF LineEnds
  <2> DEFINE b(j) == [k \in DOMAIN m_read_buf |->
                         IF k - 1 \in j..(j + 1) THEN NUL ELSE m_read_buf[k]]
  <2>2. \A j \in Int : b(j) \in Seq(Token) /\ Len(b(j)) = Len(m_read_buf)
    BY <1>1, OverwriteFacts
  <2>3. \/ ParseLine = [status |-> "OK", checked |-> i + 2, buf |-> b(i)]
           /\ i + 1 # m_read_idx
        \/ ParseLine = [status |-> "OK", checked |-> i + 1, buf |-> b(i - 1)]
        \/ ParseLine = [status |-> "OPEN", checked |-> i, buf |-> m_read_buf]
        \/ ParseLine = [status |-> "BAD", checked |-> i, buf |-> m_read_buf]
    BY <1>3 DEF LineEndAt
  <2> HIDE DEF b
  <2> QED
    BY <1>1, <2>1, <2>2, <2>3
<1> QED
  BY <1>2, <1>3, ParseLineCases

-----------------------------------------------------------------------------
(* read_once()                                                             *)

\* What recv() takes away from the front of what has arrived goes to the end
\* of the read buffer, and both keep their order.
LEMMA ReceivedFacts ==
  ASSUME Typed, NEW n \in 1..Len(incoming)
  PROVE  LET got == Received(n)
             rest == SubSeq(incoming, Len(got) + 1, Len(incoming))
         IN  /\ Len(got) \in 1..Len(incoming)
             /\ m_read_buf \o got \in Seq(Token)
             /\ Len(m_read_buf \o got) = Len(m_read_buf) + Len(got)
             /\ \A i \in 1..Len(m_read_buf) : (m_read_buf \o got)[i] = m_read_buf[i]
             /\ \A i \in 1..Len(got) : (m_read_buf \o got)[Len(m_read_buf) + i] = incoming[i]
             /\ rest \in Seq(Token)
             /\ Len(rest) = Len(incoming) - Len(got)
             /\ \A i \in 1..Len(rest) : rest[i] = incoming[Len(got) + i]
<1> DEFINE room1 == MinOf(n, READ_BUFFER_SIZE - m_read_idx)
           got == Received(n)
           rest == SubSeq(incoming, Len(got) + 1, Len(incoming))
<1>1. /\ incoming \in Seq(Token) /\ Len(incoming) \in Nat
      /\ m_read_buf \in Seq(Token) /\ Len(m_read_buf) \in Nat
      /\ Len(m_read_buf) < READ_BUFFER_SIZE /\ READ_BUFFER_SIZE \in Nat
      /\ m_read_idx = Len(m_read_buf)
  BY HttpConnAssumption DEF Typed, m_read_idx
<1>2. room1 \in 1..Len(incoming)
  BY <1>1 DEF MinOf
<1>3. got = SubSeq(incoming, 1, room1)
  BY DEF Received
<1> HIDE DEF room1, got, rest
<1>4. \A i \in 1..Len(incoming) : incoming[i] \in Token
  BY <1>1
<1>5. /\ got \in Seq(Token) /\ Len(got) = room1
      /\ \A i \in 1..Len(got) : got[i] = incoming[i]
  <2>1. \A i \in 1..room1 : incoming[i] \in Token
    BY <1>2, <1>4
  <2>2. /\ SubSeq(incoming, 1, room1) \in Seq(Token)
        /\ Len(SubSeq(incoming, 1, room1)) = IF 1 <= room1 THEN room1 - 1 + 1 ELSE 0
        /\ \A i \in 1..(room1 - 1 + 1) : SubSeq(incoming, 1, room1)[i] = incoming[1 + i - 1]
    BY <1>2, <2>1, SubSeqProperties
  <2> QED
    BY <1>2, <1>3, <2>2
<1>6. /\ rest \in Seq(Token) /\ Len(rest) = Len(incoming) - Len(got)
      /\ \A i \in 1..Len(rest) : rest[i] = incoming[Len(got) + i]
  <2>1. \A i \in (Len(got) + 1)..Len(incoming) : incoming[i] \in Token
    BY <1>2, <1>4, <1>5
  <2>2. /\ rest \in Seq(Token)
        /\ Len(rest) = IF Len(got) + 1 <= Len(incoming)
                       THEN Len(incoming) - (Len(got) + 1) + 1 ELSE 0
        /\ \A i \in 1..(Len(incoming) - (Len(got) + 1) + 1) :
             rest[i] = incoming[(Len(got) + 1) + i - 1]
    BY <1>1, <1>2, <1>5, <2>1, Len(got) + 1 \in Int, Len(incoming) \in Int,
       SubSeqProperties DEF rest
  <2> QED
    BY <1>1, <1>2, <1>5, <2>2
<1>7. /\ m_read_buf \o got \in Seq(Token)
      /\ Len(m_read_buf \o got) = Len(m_read_buf) + Len(got)
      /\ \A i \in 1..Len(m_read_buf) + Len(got) :
           (m_read_buf \o got)[i] = IF i <= Len(m_read_buf) THEN m_read_buf[i]
                                    ELSE got[i - Len(m_read_buf)]
  BY <1>1, <1>5, ConcatProperties
<1>8. \A i \in 1..Len(got) : (m_read_buf \o got)[Len(m_read_buf) + i] = incoming[i]
  BY <1>1, <1>2, <1>5, <1>7
<1>9. \A i \in 1..Len(m_read_buf) : (m_read_buf \o got)[i] = m_read_buf[i]
  BY <1>1, <1>2, <1>5, <1>7
<1> QED
  BY <1>2, <1>5, <1>6, <1>7, <1>8, <1>9 DEF got, rest

-----------------------------------------------------------------------------
(* Indices and mapping                                                     *)

\* The connection starts with an empty buffer and nothing to send.
LEMMA TypedInit == Init => Typed
<1> SUFFICES ASSUME Init PROVE Typed
  OBVIOUS
<1>1. <<>> \in Seq(Token) /\ Len(<<>>) = 0
  BY EmptySeq
<1>2. READ_BUFFER_SIZE > 0 /\ 0 \in 0..MaxSends
  BY HttpConnAssumption
<1>3. Typed
  <2>1. /\ incoming \in Seq(Token) /\ m_read_buf \in Seq(Token)
        /\ Len(m_read_buf) = 0 /\ m_checked_idx = 0 /\ m_start_line = 0
    BY <1>1 DEF Init
  <2>2. /\ m_checked_idx \in 0..Len(m_read_buf) /\ m_start_line \in 0..m_checked_idx
        /\ Len(m_read_buf) < READ_BUFFER_SIZE
    BY <1>2, <2>1
  <2> QED
    BY <1>2, <2>1, <2>2 DEF Init, Typed
<1> QED
  BY <1>3

\* The indices of the read buffer are kept: by read_once(), which stops before
\* the buffer is full, by parse_line(), which stays in the data, and by init().
LEMMA TypedNext == Typed /\ [Next]_vars => Typed'
<1> SUFFICES ASSUME Typed, [Next]_vars PROVE Typed'
  OBVIOUS
<1> USE HttpConnAssumption
<1>1. /\ m_read_buf \in Seq(Token) /\ Len(m_read_buf) \in Nat
      /\ m_read_idx = Len(m_read_buf)
      /\ m_checked_idx \in Nat /\ m_checked_idx <= Len(m_read_buf)
      /\ m_start_line \in Nat /\ m_start_line <= m_checked_idx
  BY DEF Typed, m_read_idx
<1>2. <<>> \in Seq(Token) /\ Len(<<>>) = 0
  BY EmptySeq
<1>3. ASSUME TakeLine
      PROVE  /\ m_read_buf' \in Seq(Token)
             /\ Len(m_read_buf') = Len(m_read_buf)
             /\ m_checked_idx' \in 0..Len(m_read_buf')
             /\ m_start_line' = m_checked_idx'
  BY <1>1, <1>3, ParseLineFacts DEF TakeLine
<1>4. ASSUME NEW code \in RequestResults, Respond(code)
      PROVE  /\ mapped' \in BOOLEAN /\ state' \in {"polled", "closed"}
             /\ armed' \in {"out", "none", "gone"}
  BY <1>4 DEF Respond, ModFd, RequestResults, Typed
<1>init. ASSUME InitParse
       PROVE  /\ m_read_buf' \in Seq(Token) /\ Len(m_read_buf') < READ_BUFFER_SIZE
              /\ m_checked_idx' \in 0..Len(m_read_buf') /\ m_start_line' \in 0..m_checked_idx'
              /\ m_check_state' = "REQUESTLINE" /\ m_content_length' = 0 /\ m_linger' = FALSE
  <2>1. m_read_buf' = <<>> /\ m_checked_idx' = 0 /\ m_start_line' = 0
    BY <1>init DEF InitParse
  <2>2. /\ m_read_buf' \in Seq(Token) /\ Len(m_read_buf') = 0
    BY <1>2, <2>1
  <2> QED
    BY <1>init, <2>1, <2>2 DEF InitParse
<1>5. ASSUME NEW r \in Requests, Send(r) PROVE Typed'
  <2>1. r \in Seq(Token)
    BY DEF Token
  <2> QED
    BY <1>5, <2>1 DEF Send, Typed, parseVars, responseVars
<1>6. ASSUME HangUp \/ Drain \/ TimerCloses \/ ReadFails PROVE Typed'
  <2>1. /\ hungUp' \in BOOLEAN /\ armed' \in {armed, "none", "gone"}
        /\ state' \in {state, "closed"}
        /\ UNCHANGED <<incoming, sends, line_status, parseVars, mapped>>
    BY <1>6 DEF HangUp, Drain, TimerCloses, ReadFails, Typed, clientVars, responseVars
  <2> QED
    BY <2>1 DEF Typed, parseVars
<1>7. ASSUME Read PROVE Typed'
  <2>1. PICK n \in 1..Len(incoming) :
          LET got == Received(n)
          IN /\ m_read_idx + Len(got) < READ_BUFFER_SIZE
             /\ incoming' = SubSeq(incoming, Len(got) + 1, Len(incoming))
             /\ m_read_buf' = m_read_buf \o got
    BY <1>7 DEF Read
  <2>2. /\ incoming' \in Seq(Token) /\ m_read_buf' \in Seq(Token)
        /\ Len(m_read_buf') >= Len(m_read_buf)
        /\ Len(m_read_buf') < READ_BUFFER_SIZE /\ Len(m_read_buf') \in Nat
    <3> DEFINE got == Received(n)
               rest == SubSeq(incoming, Len(got) + 1, Len(incoming))
    <3>1. /\ Len(got) \in 1..Len(incoming) /\ rest \in Seq(Token)
          /\ m_read_buf \o got \in Seq(Token)
          /\ Len(m_read_buf \o got) = Len(m_read_buf) + Len(got)
      BY ReceivedFacts
    <3>2. /\ m_read_idx + Len(got) < READ_BUFFER_SIZE
          /\ incoming' = rest /\ m_read_buf' = m_read_buf \o got
      BY <2>1
    <3> HIDE DEF got, rest
    <3> QED
      BY <1>1, <3>1, <3>2
  <2>3. m_checked_idx' \in 0..Len(m_read_buf') /\ m_start_line' \in 0..m_checked_idx'
    BY <1>1, <1>7, <2>2 DEF Read
  <2> QED
    BY <1>7, <2>2, <2>3 DEF Read, Typed, responseVars
<1>8. ASSUME ParseRequestLine PROVE Typed'
  <2>1. TakeLine
    BY <1>8 DEF ParseRequestLine
  <2>2. \/ m_check_state' = "HEADER" /\ UNCHANGED <<armed, state, mapped>>
        \/ /\ m_check_state' = m_check_state
           /\ mapped' \in BOOLEAN /\ state' \in {"polled", "closed"}
           /\ armed' \in {"out", "none", "gone"}
    BY <1>8, <1>4, "BAD_REQUEST" \in RequestResults
       DEF ParseRequestLine, GoOn, Answer, responseVars, RequestResults
  <2>3. UNCHANGED <<incoming, sends, hungUp, line_status, m_content_length, m_linger>>
    BY <1>8 DEF ParseRequestLine, clientVars
  <2> QED
    BY <1>1, <1>3, <2>1, <2>2, <2>3 DEF Typed
<1>9. ASSUME ParseHeader PROVE Typed'
  <2>1. TakeLine
    BY <1>9 DEF ParseHeader
  <2>2. /\ UNCHANGED <<incoming, sends, hungUp, line_status, m_check_state, armed, state, mapped>>
        /\ m_linger' \in BOOLEAN
        /\ m_content_length' \in ContentLengths \cup {0}
    BY <1>9 DEF ParseHeader, clientVars, GoOn, responseVars, Typed
  <2> QED
    BY <1>1, <1>3, <2>1, <2>2 DEF Typed
<1>10. ASSUME EndOfHeaders PROVE Typed'
  <2>1. TakeLine
    BY <1>10 DEF EndOfHeaders
  <2>2. \/ m_check_state' = "CONTENT" /\ UNCHANGED <<armed, state, mapped>>
        \/ /\ m_check_state' = m_check_state
           /\ mapped' \in BOOLEAN /\ state' \in {"polled", "closed"}
           /\ armed' \in {"out", "none", "gone"}
    BY <1>10, <1>4 DEF EndOfHeaders, GoOn, Answer, responseVars
  <2>3. UNCHANGED <<incoming, sends, hungUp, line_status, m_content_length, m_linger>>
    BY <1>10 DEF EndOfHeaders, clientVars
  <2> QED
    BY <1>1, <1>3, <2>1, <2>2, <2>3 DEF Typed
<1>11. ASSUME ParseContent PROVE Typed'
  <2>1. /\ m_read_buf' \in Seq(Token)
        /\ Len(m_read_buf') = Len(m_read_buf)
        /\ m_checked_idx' \in 0..Len(m_read_buf')
        /\ m_start_line' \in 0..m_checked_idx'
    BY <1>1, <1>3, <1>11 DEF ParseContent
  <2>2. \/ UNCHANGED <<armed, mapped>> /\ state' \in {state, "undefined"}
        \/ /\ mapped' \in BOOLEAN /\ state' \in {"polled", "closed"}
           /\ armed' \in {"out", "none", "gone"}
    BY <1>11, <1>4 DEF ParseContent, GoOn, Answer, responseVars
  <2>3. /\ UNCHANGED <<incoming, sends, hungUp, m_check_state, m_content_length, m_linger>>
        /\ line_status' \in {line_status, "OPEN"}
    BY <1>11 DEF ParseContent, clientVars
  <2> QED
    BY <1>1, <2>1, <2>2, <2>3 DEF Typed
<1>12. ASSUME NeedMore PROVE Typed'
  <2>1. /\ m_checked_idx' \in 0..Len(m_read_buf)
        /\ m_start_line \in 0..m_checked_idx'
    BY <1>1, <1>12, ParseLineFacts DEF NeedMore
  <2> QED
    BY <1>12, <2>1 DEF NeedMore, ModFd, Typed, clientVars, responseVars
<1>13. ASSUME WriteNothing PROVE Typed'
  BY <1>13, <1>init DEF WriteNothing, Typed, clientVars
<1>14. ASSUME StartWrite \/ WriteAgain \/ WriteFails PROVE Typed'
  BY <1>14 DEF StartWrite, WriteAgain, WriteFails, Typed, clientVars, parseVars, responseVars
<1>15. ASSUME Writev PROVE Typed'
  <2>1. /\ UNCHANGED <<incoming, sends, hungUp, line_status>>
        /\ \/ \E temp : Finish(temp)
           \/ UNCHANGED <<state, armed, parseVars, mapped>>
    BY <1>15 DEF Writev, clientVars
  <2>2. CASE \E temp : Finish(temp)
    BY <1>init, <2>1, <2>2 DEF Finish, Typed, parseVars
  <2>3. CASE UNCHANGED <<state, armed, parseVars, mapped>>
    BY <2>1, <2>3 DEF Typed, parseVars
  <2> QED
    BY <2>1, <2>2, <2>3
<1>16. ASSUME UNCHANGED vars PROVE Typed'
  BY <1>16 DEF vars, Typed, clientVars, parseVars, responseVars
<1> QED
  BY <1>5, <1>6, <1>7, <1>8, <1>9, <1>10, <1>11, <1>12, <1>13, <1>14, <1>15, <1>16
     DEF Next, Process, Write

-----------------------------------------------------------------------------
(* What is counted                                                         *)

\* An iovec, two of them, and the bytes of one.
LEMMA VecFacts ==
  ASSUME NEW base \in Int, NEW len \in Int
  PROVE  HeaderVec(base, len) \in Vec /\ FileVec(base, len) \in Vec
BY DEF HeaderVec, FileVec, Vec

\* Two iovec.
LEMMA PairFacts ==
  ASSUME NEW u \in Vec, NEW v \in Vec
  PROVE  <<u, v>> \in [1..2 -> Vec] /\ <<u, v>>[1] = u /\ <<u, v>>[2] = v
<1>1. 1..2 = {1, 2}
  OBVIOUS
<1> QED
  BY <1>1

\* The bytes of an iovec.
LEMMA BytesFacts ==
  ASSUME NEW v \in Vec
  PROVE  /\ Bytes(v) \in Seq({"head", "file"} \X Int)
         /\ Len(Bytes(v)) = IF v.len > 0 THEN v.len ELSE 0
         /\ \A i \in 1..v.len : Bytes(v)[i] = <<v.part, v.base + i - 1>>
<1> DEFINE n == IF v.len > 0 THEN v.len ELSE 0
           e(i) == <<v.part, v.base + i - 1>>
<1>1. v.part \in {"head", "file"} /\ v.base \in Int /\ v.len \in Int
  BY DEF Vec
<1>2. n \in Nat /\ 1..v.len = 1..n
  BY <1>1
<1>3. \A i \in 1..n : e(i) \in {"head", "file"} \X Int
  BY <1>1, <1>2
<1>4. Bytes(v) = [i \in 1..n |-> e(i)]
  BY <1>2 DEF Bytes
<1> HIDE DEF e
<1>5. [i \in 1..n |-> e(i)] \in Seq({"head", "file"} \X Int) /\ Len([i \in 1..n |-> e(i)]) = n
  BY <1>2, <1>3
<1> USE DEF e
<1> QED
  BY <1>2, <1>4, <1>5

\* What one writev sends: something, and no more than there is room for.
LEMMA WritevFacts ==
  ASSUME Counted, room > 0
  PROVE  LET all == Bytes(m_iv[1]) \o Bytes(m_iv[2])
             temp == MinOf(room, Len(all))
         IN  /\ all \in Seq({"head", "file"} \X Int)
             /\ Len(all) \in Nat
             /\ temp \in 0..room
             /\ temp <= Len(all)
<1> DEFINE all == Bytes(m_iv[1]) \o Bytes(m_iv[2])
<1>1. all \in Seq({"head", "file"} \X Int) /\ Len(all) \in Nat
  <2>1. m_iv[1] \in Vec /\ m_iv[2] \in Vec
    BY DEF Counted
  <2> DEFINE x == Bytes(m_iv[1])
             y == Bytes(m_iv[2])
  <2>2. x \in Seq({"head", "file"} \X Int) /\ y \in Seq({"head", "file"} \X Int)
    BY <2>1, BytesFacts
  <2> HIDE DEF x, y
  <2>3. x \o y \in Seq({"head", "file"} \X Int) /\ Len(x \o y) \in Nat
    BY <2>2, ConcatProperties
  <2> QED
    BY <2>3 DEF x, y
<1> HIDE DEF all
<1>2. room \in Nat
  BY DEF Counted
<1> QED
  BY <1>1, <1>2 DEF all, MinOf

\* The connection starts with nothing to send.
LEMMA CountedInit == Init => Counted /\ Mapping
<1> SUFFICES ASSUME Init PROVE Counted /\ Mapping
  OBVIOUS
<1>1. m_iv \in [1..2 -> Vec]
  BY VecFacts, PairFacts DEF Init, NoResponse
<1>2. SendBuffer \in Nat
  BY HttpConnAssumption
<1> QED
  BY <1>1, <1>2 DEF Init, Counted, Mapping, MappedWhileSending

\* A response is counted when it is built; write() counts what is sent.
LEMMA CountedNext == Counted /\ [Next]_vars => Counted'
<1> SUFFICES ASSUME Counted, [Next]_vars PROVE Counted'
  OBVIOUS
<1>1. HeaderLength \in Nat /\ FileSize \in Nat
  BY HttpConnAssumption
<1>2. ASSUME InitResponse
      PROVE  m_iv' \in [1..2 -> Vec] /\ bytes_to_send' \in Int /\ bytes_have_send' \in Int
  BY <1>2, VecFacts, PairFacts DEF InitResponse, NoResponse
<1>3. ASSUME NEW code \in RequestResults, Answer(code)
      PROVE  /\ m_iv' \in [1..2 -> Vec] /\ bytes_to_send' \in Int
             /\ bytes_have_send' \in Int /\ calls' \in 0..2
  <2> DEFINE head == HeaderVec(0, HeaderLength)
             file == FileVec(0, FileSize)
  <2>1. head \in Vec /\ <<head, file>> \in [1..2 -> Vec]
    BY <1>1, VecFacts, PairFacts
  <2>2. \/ m_iv' = <<head, file>> /\ bytes_to_send' = HeaderLength + FileSize
        \/ m_iv' = [m_iv EXCEPT ![1] = head] /\ bytes_to_send' = bytes_to_send
        \/ m_iv' = m_iv /\ bytes_to_send' = bytes_to_send
    BY <1>3 DEF Answer, Respond, RequestResults
  <2> HIDE DEF head, file
  <2> QED
    BY <1>1, <1>3, <2>1, <2>2 DEF Answer, Counted
<1>4. ASSUME \/ \E r \in Requests : Send(r)
             \/ HangUp \/ TimerCloses \/ Read \/ ReadFails
             \/ ParseHeader \/ NeedMore \/ WriteFails \/ UNCHANGED vars
      PROVE  Counted'
  BY <1>4 DEF Send, HangUp, TimerCloses, Read, ReadFails, ParseHeader, GoOn, NeedMore, WriteFails,
              vars, responseVars, Counted
<1>5. ASSUME Drain PROVE Counted'
  BY <1>5 DEF Drain, responseVars, Counted
<1>6. ASSUME ParseRequestLine \/ EndOfHeaders \/ ParseContent PROVE Counted'
  <2>1. (\E code \in RequestResults : Answer(code)) \/ UNCHANGED responseVars
    BY <1>6, "BAD_REQUEST" \in RequestResults
       DEF ParseRequestLine, EndOfHeaders, ParseContent, GoOn, RequestResults
  <2>2. UNCHANGED <<room, newadd>>
    BY <1>6 DEF ParseRequestLine, EndOfHeaders, ParseContent
  <2> QED
    BY <1>3, <2>1, <2>2 DEF Counted, responseVars
<1>7. ASSUME WriteNothing PROVE Counted'
  BY <1>2, <1>7 DEF WriteNothing, Counted
<1>8. ASSUME StartWrite PROVE Counted'
  BY <1>8 DEF StartWrite, responseVars, Counted
<1>9. ASSUME Writev PROVE Counted'
  <2> DEFINE temp == MinOf(room, Len(Bytes(m_iv[1]) \o Bytes(m_iv[2])))
  <2>1. temp \in 0..room /\ room \in 0..SendBuffer /\ SendBuffer \in Nat
    BY <1>9, WritevFacts, HttpConnAssumption DEF Writev, Counted
  <2>2. /\ room' = room - temp
        /\ newadd' = bytes_have_send + temp - HeaderLength
        /\ calls' = MinOf(calls + 1, 2)
        /\ \/ Finish(temp)
           \/ /\ bytes_have_send' = bytes_have_send + temp
              /\ bytes_to_send' = bytes_to_send - temp
              /\ m_iv' = m_iv
    BY <1>9 DEF Writev
  <2> HIDE DEF temp
  <2>3. /\ m_iv' \in [1..2 -> Vec] /\ bytes_to_send' \in Int /\ bytes_have_send' \in Int
    BY <1>2, <2>1, <2>2 DEF Finish, Counted
  <2>4. calls' \in 0..2
    BY <2>2 DEF Counted, MinOf
  <2> QED
    BY <1>1, <2>1, <2>2, <2>3, <2>4 DEF Counted
<1>10. ASSUME WriteAgain PROVE Counted'
  <2> DEFINE u == HeaderVec(m_iv[1].base, 0)
             v == FileVec(newadd, bytes_to_send)
             w == HeaderVec(bytes_have_send, m_iv[1].len - bytes_have_send)
  <2>1. m_iv[1] \in Vec /\ newadd \in Int /\ bytes_to_send \in Int /\ bytes_have_send \in Int
    BY DEF Counted
  <2>2. m_iv[1].base \in Int /\ m_iv[1].len \in Int
    BY <2>1 DEF Vec
  <2>3. w \in Vec /\ <<u, v>> \in [1..2 -> Vec]
    BY <2>1, <2>2, VecFacts, PairFacts
  <2>4. m_iv' = <<u, v>> \/ m_iv' = [m_iv EXCEPT ![1] = w]
    BY <1>10 DEF WriteAgain
  <2> HIDE DEF u, v, w
  <2>5. m_iv' \in [1..2 -> Vec]
    BY <2>3, <2>4 DEF Counted
  <2> QED
    BY <1>10, <2>5 DEF WriteAgain, Counted
<1> QED
  BY <1>4, <1>5, <1>6, <1>7, <1>8, <1>9, <1>10 DEF Next, Process, Write

\* The file is mapped when something is counted, and unmapped when the last
\* byte is sent or write() gives up; it is not read from again in between.
LEMMA MappingNext == Typed /\ Counted /\ Mapping /\ [Next]_vars => Mapping'
<1> SUFFICES ASSUME Typed, Counted, Mapping, [Next]_vars PROVE Mapping'
  OBVIOUS
<1> USE DEF Mapping, MappedWhileSending
<1>1. HeaderLength + FileSize > 0 /\ bytes_to_send \in Int /\ bytes_to_send' \in Int
  BY HttpConnAssumption, CountedNext DEF Counted
<1>2. ASSUME state = "parsing", NEW code \in RequestResults, Answer(code) PROVE Mapping'
  <2>1. bytes_to_send = 0 /\ mapped = FALSE
    BY <1>2 DEF Typed
  <2>2. \/ /\ mapped' = TRUE /\ bytes_to_send' = HeaderLength + FileSize
           /\ state' = "polled" /\ armed' \in {"out", "gone"}
        \/ /\ UNCHANGED <<mapped, bytes_to_send>>
           /\ state' = "polled" /\ armed' \in {"out", "gone"}
        \/ /\ UNCHANGED <<mapped, bytes_to_send>>
           /\ state' = "closed" /\ armed' = "none"
    BY <1>2 DEF Answer, Respond, ModFd, RequestResults
  <2> QED
    BY <1>1, <2>1, <2>2
<1>3. ASSUME state = "parsing", GoOn PROVE Mapping'
  BY <1>3 DEF GoOn, responseVars
<1>4. ASSUME \/ \E r \in Requests : Send(r)
             \/ HangUp \/ Drain \/ TimerCloses \/ UNCHANGED vars
      PROVE  Mapping'
  BY <1>4 DEF Send, HangUp, Drain, TimerCloses, vars, responseVars
<1>5. ASSUME Read \/ ReadFails PROVE Mapping'
  BY <1>5 DEF Read, ReadFails, responseVars
<1>6. ASSUME ParseRequestLine \/ EndOfHeaders \/ ParseContent PROVE Mapping'
  <2>1. \/ (\E code \in RequestResults : Answer(code)) \/ GoOn
        \/ state' = "undefined" /\ UNCHANGED <<armed, responseVars>>
    BY <1>6, "BAD_REQUEST" \in RequestResults
       DEF ParseRequestLine, EndOfHeaders, ParseContent, RequestResults
  <2>2. state = "parsing"
    BY <1>6 DEF ParseRequestLine, EndOfHeaders, ParseContent
  <2>3. CASE state' = "undefined" /\ UNCHANGED <<armed, responseVars>>
    BY <2>2, <2>3 DEF responseVars
  <2> QED
    BY <1>2, <1>3, <2>1, <2>2, <2>3
<1>7. ASSUME ParseHeader PROVE Mapping'
  BY <1>3, <1>7 DEF ParseHeader
<1>8. ASSUME NeedMore PROVE Mapping'
  BY <1>8 DEF NeedMore, ModFd, responseVars
<1>9. ASSUME WriteNothing PROVE Mapping'
  BY <1>9 DEF WriteNothing, InitResponse
<1>10. ASSUME StartWrite PROVE Mapping'
  BY <1>10 DEF StartWrite, responseVars
<1>11. ASSUME Writev PROVE Mapping'
  <2> DEFINE temp == MinOf(room, Len(Bytes(m_iv[1]) \o Bytes(m_iv[2])))
  <2>1. temp \in Int /\ temp >= 0
    BY <1>11, WritevFacts DEF Writev, Counted
  <2>2. /\ state = "writing"
        /\ IF bytes_to_send - temp <= 0
           THEN Finish(temp)
           ELSE /\ bytes_to_send' = bytes_to_send - temp
                /\ UNCHANGED <<state, armed, parseVars, mapped, m_iv>>
    BY <1>11 DEF Writev
  <2> HIDE DEF temp
  <2>3. CASE bytes_to_send - temp <= 0
    <3>1. /\ mapped' = FALSE /\ armed' = "none"
          /\ (state' = "polled" /\ bytes_to_send' = 0) \/ state' = "closed"
      BY <2>2, <2>3 DEF Finish, InitResponse
    <3> QED
      BY <3>1
  <2>4. CASE ~ (bytes_to_send - temp <= 0)
    BY <1>1, <2>1, <2>2, <2>4
  <2> QED
    BY <2>3, <2>4
<1>12. ASSUME WriteAgain PROVE Mapping'
  BY <1>12 DEF WriteAgain
<1>13. ASSUME WriteFails PROVE Mapping'
  BY <1>13 DEF WriteFails
<1> QED
  BY <1>4, <1>5, <1>6, <1>7, <1>8, <1>9, <1>10, <1>11, <1>12, <1>13
     DEF Next, Process, Write

\* For a length that is a non-negative int, and a sum that is one too, a body is
\* complete only before the end of the buffer; nothing else leads to a write
\* outside of it.
LEMMA TerminatorNext ==
  Typed /\ BodyTerminatorInBuffer /\ [Next]_vars => BodyTerminatorInBuffer'
<1> SUFFICES ASSUME Typed, BodyTerminatorInBuffer, [Next]_vars, state' = "undefined"
             PROVE  m_content_length' < 0 \/ m_content_length' + m_checked_idx' > IntMax
  BY DEF BodyTerminatorInBuffer
<1>1. ASSUME state = "undefined", UNCHANGED <<m_content_length, m_checked_idx>>
      PROVE  m_content_length' < 0 \/ m_content_length' + m_checked_idx' > IntMax
  BY <1>1 DEF BodyTerminatorInBuffer
<1>2. CASE \/ \E r \in Requests : Send(r)
           \/ HangUp \/ Drain \/ UNCHANGED vars
  BY <1>1, <1>2 DEF Send, HangUp, Drain, vars, parseVars
<1>3. CASE ParseContent
  <2>1. /\ m_content_length' = m_content_length
        /\ m_start_line + m_content_length \notin 0..(READ_BUFFER_SIZE - 1)
    <3>1. ASSUME NEW code \in RequestResults, Answer(code) PROVE state' # "undefined"
      BY <3>1 DEF Answer, Respond, RequestResults
    <3>2. ASSUME state = "parsing", GoOn PROVE state' # "undefined"
      BY <3>2 DEF GoOn
    <3> QED
      BY <1>3, <3>1, <3>2 DEF ParseContent
  <2>test. TRUE \in BodyComplete(m_checked_idx')
    <3>1. ASSUME state = "parsing", GoOn PROVE state' # "undefined"
      BY <3>1 DEF GoOn
    <3> QED
      BY <1>3, <3>1 DEF ParseContent
  <2>2. m_checked_idx' \in m_checked_idx..Len(m_read_buf)
    <3>1. m_checked_idx' = m_checked_idx \/ m_checked_idx' = ParseLine.checked
      BY <1>3 DEF ParseContent, TakeLine
    <3> QED
      BY <3>1, ParseLineFacts DEF Typed
  <2>3. /\ m_content_length \in Int /\ IntMax \in Int
        /\ m_start_line \in Nat /\ m_start_line <= m_checked_idx
        /\ m_checked_idx \in Nat /\ Len(m_read_buf) \in Nat
        /\ m_read_idx = Len(m_read_buf)
        /\ Len(m_read_buf) < READ_BUFFER_SIZE /\ READ_BUFFER_SIZE \in Nat
    BY HttpConnAssumption DEF Typed, m_read_idx
  <2>4. PICK checked \in Int : checked = m_checked_idx' /\ checked >= m_checked_idx
    BY <2>2, <2>3
  <2> DEFINE sum == m_content_length + checked
  <2>5. TRUE \in IF sum > IntMax THEN BOOLEAN ELSE {m_read_idx >= sum}
    BY <2>test, <2>4 DEF BodyComplete
  <2>6. ASSUME m_content_length >= 0, ~ (sum > IntMax) PROVE FALSE
    <3> HIDE DEF sum
    <3>1. TRUE \in {m_read_idx >= sum}
      BY <2>5, <2>6
    <3>2. m_read_idx >= sum
      BY <3>1
    <3> USE DEF sum
    <3>3. m_start_line + m_content_length \in 0..(READ_BUFFER_SIZE - 1)
      BY <2>3, <2>4, <2>6, <3>2
    <3> QED
      BY <2>1, <3>3
  <2>7. m_content_length < 0 \/ m_content_length + checked > IntMax
    BY <2>3, <2>6
  <2> QED
    BY <2>1, <2>4, <2>7, Zenon
<1>4. CASE \/ TimerCloses \/ Read \/ ReadFails
           \/ ParseRequestLine \/ ParseHeader \/ EndOfHeaders \/ NeedMore
           \/ WriteNothing \/ StartWrite \/ WriteAgain \/ WriteFails
  BY <1>4 DEF TimerCloses, Read, ReadFails, ParseRequestLine, ParseHeader, EndOfHeaders,
              NeedMore, GoOn, Answer, Respond, RequestResults, WriteNothing, StartWrite,
              WriteAgain, WriteFails
<1>5. CASE Writev
  BY <1>5 DEF Writev, Finish
<1> QED
  BY <1>2, <1>3, <1>4, <1>5 DEF Next, Process, Write

\* The part of the invariant that needs nothing of the peer or the requests.
LEMMA InvInit == Init => Inv
BY TypedInit, CountedInit DEF Inv, BodyTerminatorInBuffer, Init

\* Its parts, each by its own lemma.
LEMMA InvNext == Inv /\ [Next]_vars => Inv'
BY TypedNext, CountedNext, MappingNext, TerminatorNext DEF Inv

\* The inductive invariant.
THEOREM Invariance == Spec => []Inv
BY InvInit, InvNext, PTL DEF Spec

\* Every variable keeps its type: the indices of the read buffer are in order.
THEOREM TypeCorrect == Spec => []TypeOK
<1>1. Inv => TypeOK
  <2> SUFFICES ASSUME Inv PROVE TypeOK
    OBVIOUS
  <2>1. m_read_idx \in 0..READ_BUFFER_SIZE
    BY HttpConnAssumption DEF Inv, Typed, m_read_idx
  <2>2. m_checked_idx \in 0..m_read_idx
    BY DEF Inv, Typed, m_read_idx
  <2> QED
    BY <2>1, <2>2 DEF Inv, Typed, Counted, TypeOK
<1> QED
  BY Invariance, <1>1, PTL

\* The file is mapped exactly as long as there is something to send: process(),
\* read_once() and write() end a connection only with the file unmapped, and the
\* close by the timer leaves the mapping to the counts.
THEOREM MappingExact == Spec => []MappedWhileSending
<1>1. Inv => MappedWhileSending
  BY DEF Inv, Mapping
<1> QED
  BY Invariance, <1>1, PTL

\* The NUL that parse_content() writes behind a body leaves the read buffer only
\* for a length that is negative or makes the sum in its test overflow.
THEOREM TerminatorInBuffer == Spec => []BodyTerminatorInBuffer
<1>1. Inv => BodyTerminatorInBuffer
  BY DEF Inv
<1> QED
  BY Invariance, <1>1, PTL

-----------------------------------------------------------------------------
(* The bytes of a response                                                 *)

\* The response, byte by byte: the header and then the file.
LEMMA ResponseFacts ==
  /\ Response \in Seq(Sent)
  /\ Len(Response) = Total
  /\ \A i \in 1..Total :
       Response[i] = IF i <= HeaderLength THEN <<"head", i - 1>>
                     ELSE <<"file", i - HeaderLength - 1>>
<1> DEFINE x == Bytes(HeaderVec(0, HeaderLength))
           y == Bytes(FileVec(0, FileSize))
<1>1. HeaderLength \in Nat /\ FileSize \in Nat /\ HeaderLength > 0 /\ FileSize > 0
  BY HttpConnAssumption
<1>2. /\ x \in Seq(Sent) /\ Len(x) = HeaderLength
      /\ \A i \in 1..HeaderLength : x[i] = <<"head", i - 1>>
  <2>1. HeaderVec(0, HeaderLength) \in Vec
    BY <1>1, VecFacts
  <2> QED
    BY <1>1, <2>1, BytesFacts DEF Sent, HeaderVec
<1>3. /\ y \in Seq(Sent) /\ Len(y) = FileSize
      /\ \A i \in 1..FileSize : y[i] = <<"file", i - 1>>
  <2>1. FileVec(0, FileSize) \in Vec
    BY <1>1, VecFacts
  <2> QED
    BY <1>1, <2>1, BytesFacts DEF Sent, FileVec
<1>4. Response = x \o y
  BY DEF Response
<1> HIDE DEF x, y
<1>5. /\ x \o y \in Seq(Sent) /\ Len(x \o y) = Len(x) + Len(y)
      /\ \A i \in 1..Len(x) + Len(y) :
           (x \o y)[i] = IF i <= Len(x) THEN x[i] ELSE y[i - Len(x)]
  BY <1>2, <1>3, ConcatProperties
<1>6. \A i \in 1..Total :
        Response[i] = IF i <= HeaderLength THEN <<"head", i - 1>>
                      ELSE <<"file", i - HeaderLength - 1>>
  <2> TAKE i \in 1..Total
  <2>1. CASE i <= HeaderLength
    BY <1>1, <1>2, <1>3, <1>4, <1>5, <2>1 DEF Total
  <2>2. CASE ~ (i <= HeaderLength)
    <3>1. i - HeaderLength \in 1..FileSize
      BY <1>1, <2>2 DEF Total
    <3> QED
      BY <1>1, <1>2, <1>3, <1>4, <1>5, <2>2, <3>1 DEF Total
  <2> QED
    BY <2>1, <2>2
<1> QED
  BY <1>2, <1>3, <1>4, <1>5, <1>6 DEF Total

\* If the iovec stand for what follows on the wire, then so does any part from
\* their beginning that writev sends.
LEMMA PrefixGrows ==
  ASSUME wire \in Seq(Sent), StreamIsPrefix,
         NEW all \in Seq(Sent), Len(wire) + Len(all) = Total,
         \A i \in 1..Len(all) : all[i] = Response[Len(wire) + i],
         NEW temp \in 0..Len(all)
  PROVE  LET w == wire \o SubSeq(all, 1, temp)
         IN  /\ w \in Seq(Sent)
             /\ Len(w) = Len(wire) + temp
             /\ Len(w) <= Len(Response)
             /\ w = SubSeq(Response, 1, Len(w))
<1> DEFINE h == Len(wire)
           sub == SubSeq(all, 1, temp)
           w == wire \o sub
           pre == SubSeq(Response, 1, h + temp)
<1>1. /\ Total \in Nat /\ h \in Nat /\ Len(all) \in Nat /\ temp \in Nat
      /\ h + temp <= Total /\ temp <= Len(all)
  BY HttpConnAssumption DEF Total
<1>2. /\ sub \in Seq(Sent) /\ Len(sub) = temp
      /\ \A i \in 1..temp : sub[i] = all[i]
  <2>1. \A i \in 1..temp : all[i] \in Sent
    BY <1>1
  <2>2. /\ sub \in Seq(Sent)
        /\ Len(sub) = IF 1 <= temp THEN temp - 1 + 1 ELSE 0
        /\ \A i \in 1..(temp - 1 + 1) : sub[i] = all[1 + i - 1]
    BY <1>1, <2>1, SubSeqProperties
  <2> QED
    BY <1>1, <2>2
<1>3. /\ pre \in Seq(Sent) /\ Len(pre) = h + temp
      /\ \A i \in 1..(h + temp) : pre[i] = Response[i]
  <2>1. \A i \in 1..(h + temp) : Response[i] \in Sent
    BY <1>1, ResponseFacts
  <2>2. /\ pre \in Seq(Sent)
        /\ Len(pre) = IF 1 <= h + temp THEN (h + temp) - 1 + 1 ELSE 0
        /\ \A i \in 1..((h + temp) - 1 + 1) : pre[i] = Response[1 + i - 1]
    BY <1>1, <2>1, 1 \in Int, h + temp \in Int, SubSeqProperties
  <2> QED
    BY <1>1, <2>2
<1>4. \A i \in 1..h : wire[i] = Response[i]
  <2>1. h <= Total /\ wire = SubSeq(Response, 1, h)
    BY ResponseFacts DEF StreamIsPrefix
  <2>2. \A i \in 1..h : Response[i] \in Sent
    BY <1>1, <2>1, ResponseFacts
  <2>3. \A i \in 1..(h - 1 + 1) : SubSeq(Response, 1, h)[i] = Response[1 + i - 1]
    BY <1>1, <2>2, 1 \in Int, h \in Int, SubSeqProperties
  <2> QED
    BY <1>1, <2>1, <2>3
<1> HIDE DEF sub, pre
<1>5. /\ w \in Seq(Sent) /\ Len(w) = h + temp
      /\ \A i \in 1..(h + temp) : w[i] = IF i <= h THEN wire[i] ELSE sub[i - h]
  BY <1>2, ConcatProperties
<1>6. \A i \in 1..(h + temp) : w[i] = pre[i]
  <2> TAKE i \in 1..(h + temp)
  <2>1. CASE i <= h
    BY <1>1, <1>3, <1>4, <1>5, <2>1
  <2>2. CASE ~ (i <= h)
    <3>1. i - h \in 1..temp /\ i - h \in 1..Len(all) /\ h + (i - h) = i
      BY <1>1, <2>2
    <3> QED
      BY <1>2, <1>3, <1>5, <2>2, <3>1
  <2> QED
    BY <2>1, <2>2
<1>7. w = pre
  BY <1>3, <1>5, <1>6, SeqEqual
<1> QED
  BY <1>1, <1>5, <1>7, ResponseFacts DEF pre, sub

\* Before the first writev of a write() the iovec stand for what follows on the
\* wire.
LEMMA NextBytes ==
  ASSUME Inv, Sending, state = "writing", calls = 0
  PROVE  LET all == Bytes(m_iv[1]) \o Bytes(m_iv[2])
         IN  /\ all \in Seq(Sent)
             /\ Len(all) = bytes_to_send
             /\ Len(wire) + Len(all) = Total
             /\ \A i \in 1..Len(all) : all[i] = Response[Len(wire) + i]
<1> DEFINE x == Bytes(m_iv[1])
           y == Bytes(m_iv[2])
<1>1. bytes_to_send > 0 /\ bytes_to_send \in Nat /\ bytes_have_send \in Nat
  BY DEF Inv, Mapping, Sending
<1>2. /\ bytes_have_send = Len(wire) /\ bytes_have_send + bytes_to_send = Total
      /\ Whole \/ RestOfFile
  BY <1>1 DEF Sending, Partly
<1>3. HeaderLength \in Nat /\ FileSize \in Nat
  BY HttpConnAssumption
<1>4. CASE Whole
  <2>1. m_iv[1] = HeaderVec(0, HeaderLength) /\ m_iv[2] = FileVec(0, FileSize)
    BY <1>4 DEF Whole
  <2>2. Bytes(m_iv[1]) \o Bytes(m_iv[2]) = Response
    BY <2>1 DEF Response
  <2>3. Len(wire) = 0 /\ bytes_to_send = Total
    BY <1>1, <1>2, <1>4 DEF Whole
  <2> QED
    BY <1>3, <2>2, <2>3, ResponseFacts DEF Total
<1>5. CASE RestOfFile
  <2>1. x = <<>>
    <3>1. m_iv[1] \in Vec /\ m_iv[1].len = 0
      BY <1>5 DEF RestOfFile, Inv, Counted
    <3>2. x \in Seq(Sent) /\ Len(x) = 0
      BY <3>1, BytesFacts DEF Sent
    <3> QED
      BY <3>2, EmptySeq
  <2>2. m_iv[2] = FileVec(bytes_have_send - HeaderLength, bytes_to_send)
    BY <1>5 DEF RestOfFile
  <2>3. /\ y \in Seq(Sent) /\ Len(y) = bytes_to_send
        /\ \A i \in 1..bytes_to_send :
             y[i] = <<"file", (bytes_have_send - HeaderLength) + i - 1>>
    <3>1. m_iv[2] \in Vec
      BY DEF Inv, Counted
    <3> QED
      BY <1>1, <2>2, <3>1, BytesFacts DEF FileVec, Sent
  <2> HIDE DEF x, y
  <2>4. x \o y = y
    BY <2>1, <2>3, ConcatEmptySeq
  <2>5. \A i \in 1..bytes_to_send : y[i] = Response[Len(wire) + i]
    <3> TAKE i \in 1..bytes_to_send
    <3>1. Len(wire) + i \in 1..Total /\ ~ (Len(wire) + i <= HeaderLength)
      BY <1>1, <1>2, <1>3, <1>5 DEF RestOfFile
    <3>2. Response[Len(wire) + i] = <<"file", (Len(wire) + i) - HeaderLength - 1>>
      BY <3>1, ResponseFacts
    <3> QED
      BY <1>1, <1>2, <1>3, <2>3, <3>2
  <2> QED
    BY <1>1, <1>2, <2>3, <2>4, <2>5 DEF x, y
<1> QED
  BY <1>2, <1>4, <1>5

\* The send buffer is empty and nothing has been sent.
LEMMA SendingInit == Init => Sending
<1> SUFFICES ASSUME Init PROVE Sending
  OBVIOUS
<1>1. Total \in Nat
  BY HttpConnAssumption DEF Total
<1>2. <<>> \in Seq(Sent) /\ Len(<<>>) = 0
  BY EmptySeq
<1>3. SubSeq(Response, 1, 0) = <<>>
  BY SubSeqEmpty
<1>4. wire \in Seq(Sent) /\ StreamIsPrefix
  BY <1>1, <1>2, <1>3, ResponseFacts DEF Init, StreamIsPrefix
<1> QED
  BY <1>1, <1>4 DEF Init, Sending

\* The header is sent in one piece, because it is sent first into an empty send
\* buffer that it fits into.  From then on the second iovec is moved behind what
\* has been sent each time a writev answers EAGAIN.  When instead the peer makes
\* room and a second writev of the loop sends something, calls is 2.
LEMMA SendingNext ==
  ASSUME HeaderLength <= SendBuffer
  PROVE  Inv /\ Sending /\ [Next]_vars => Sending'
<1> SUFFICES ASSUME Inv, Sending, [Next]_vars PROVE Sending'
  OBVIOUS
<1>1. /\ HeaderLength \in Nat /\ HeaderLength > 0 /\ FileSize \in Nat /\ FileSize > 0
      /\ SendBuffer \in Nat /\ Total \in Nat /\ Total = HeaderLength + FileSize
  BY HttpConnAssumption DEF Total
<1>2. /\ room \in Nat /\ room <= SendBuffer /\ newadd \in Int /\ calls \in 0..2
      /\ bytes_to_send \in Int /\ bytes_have_send \in Int
      /\ calls < 2 => /\ bytes_to_send \in Nat /\ bytes_have_send \in Nat
                      /\ wire \in Seq(Sent) /\ Len(wire) \in Nat
  BY DEF Sending, Inv, Counted
<1>3. ASSUME UNCHANGED <<wire, room, newadd, armed, state, m_iv, bytes_to_send,
                         bytes_have_send, calls>>
      PROVE  Sending'
  BY <1>3 DEF Sending, Idle, StreamIsPrefix, Whole, RestOfFile, Partly
<1>4. ASSUME state = "parsing", NEW code \in RequestResults, Answer(code),
             UNCHANGED <<room, newadd>>
      PROVE  Sending'
  <2>1. bytes_to_send = 0 /\ bytes_have_send = 0 /\ room = SendBuffer
    BY <1>4 DEF Inv, Mapping, Sending, Idle
  <2>2. wire' = <<>> /\ bytes_have_send' = 0 /\ room' = SendBuffer /\ calls' = 0
    BY <1>4, <2>1 DEF Answer
  <2>3. wire' \in Seq(Sent) /\ Len(wire') = 0 /\ StreamIsPrefix'
    <3>1. <<>> \in Seq(Sent) /\ Len(<<>>) = 0 /\ SubSeq(Response, 1, 0) = <<>>
      BY EmptySeq, SubSeqEmpty
    <3> QED
      BY <1>1, <2>2, <3>1, ResponseFacts DEF StreamIsPrefix
  <2>4. \/ /\ m_iv' = <<HeaderVec(0, HeaderLength), FileVec(0, FileSize)>>
           /\ bytes_to_send' = Total
        \/ bytes_to_send' = 0
    BY <1>4, <2>1 DEF Answer, Respond, RequestResults, Total
  <2> QED
    BY <1>1, <2>2, <2>3, <2>4 DEF Sending, Whole
<1>5. ASSUME \/ \E r \in Requests : Send(r)
             \/ HangUp \/ UNCHANGED vars
      PROVE  Sending'
  BY <1>3, <1>5 DEF Send, HangUp, vars, responseVars
<1>6. ASSUME Drain PROVE Sending'
  <2>1. /\ room' > room /\ room' <= SendBuffer /\ room' \in Nat
        /\ UNCHANGED <<wire, newadd, armed, state, m_iv, bytes_to_send, bytes_have_send, calls>>
    BY <1>2, <1>6 DEF Drain, responseVars
  <2>2. room # SendBuffer
    BY <1>1, <1>2, <2>1
  <2> QED
    BY <1>2, <2>1, <2>2 DEF Sending, Idle, StreamIsPrefix, Whole, RestOfFile, Partly
<1>time. ASSUME TimerCloses PROVE Sending'
  <2>1. /\ state \in {"polled", "parsing"} /\ armed' = "gone"
        /\ UNCHANGED <<wire, room, newadd, state, m_iv, bytes_to_send, bytes_have_send, calls>>
    BY <1>time DEF TimerCloses, responseVars
  <2> QED
    BY <2>1 DEF Sending, Idle, StreamIsPrefix, Whole, RestOfFile, Partly
<1>7. ASSUME Read \/ ReadFails PROVE Sending'
  <2>1. /\ state = "polled" /\ armed = "in" /\ armed' = "none"
        /\ state' = "parsing" \/ state' = "closed"
        /\ UNCHANGED <<wire, room, newadd, m_iv, bytes_to_send, bytes_have_send, calls>>
    BY <1>7 DEF Read, ReadFails, responseVars
  <2>2. bytes_to_send = 0
    BY <2>1 DEF Inv, Mapping
  <2> QED
    BY <2>1, <2>2 DEF Sending, Idle, StreamIsPrefix
<1>8. ASSUME ParseRequestLine \/ ParseHeader \/ EndOfHeaders \/ ParseContent PROVE Sending'
  <2>1. \/ (\E code \in RequestResults : Answer(code)) \/ GoOn
        \/ state' = "undefined" /\ UNCHANGED <<wire, armed, responseVars>>
    BY <1>8, "BAD_REQUEST" \in RequestResults
       DEF ParseRequestLine, ParseHeader, EndOfHeaders, ParseContent, RequestResults
  <2>2. state = "parsing" /\ UNCHANGED <<room, newadd>>
    BY <1>8 DEF ParseRequestLine, ParseHeader, EndOfHeaders, ParseContent
  <2>3. CASE state' = "undefined" /\ UNCHANGED <<wire, armed, responseVars>>
    <3>1. bytes_to_send = 0
      BY <2>2 DEF Inv, Mapping
    <3> QED
      BY <2>2, <2>3, <3>1 DEF Sending, Idle, StreamIsPrefix, responseVars
  <2> QED
    BY <1>3, <1>4, <2>1, <2>2, <2>3 DEF GoOn, responseVars
<1>9. ASSUME NeedMore PROVE Sending'
  <2>1. /\ state = "parsing" /\ state' = "polled"
        /\ UNCHANGED <<wire, room, newadd, m_iv, bytes_to_send, bytes_have_send, calls>>
    BY <1>9 DEF NeedMore, responseVars
  <2>2. bytes_to_send = 0
    BY <2>1 DEF Inv, Mapping
  <2> QED
    BY <2>1, <2>2 DEF Sending, Idle, StreamIsPrefix
<1>10. ASSUME WriteNothing PROVE Sending'
  <2>1. /\ state = "polled" /\ armed = "out" /\ bytes_to_send = 0
        /\ bytes_to_send' = 0 /\ bytes_have_send' = 0
        /\ UNCHANGED <<wire, room, newadd, state, calls>>
    BY <1>10 DEF WriteNothing, InitResponse
  <2> QED
    BY <1>1, <2>1 DEF Sending, Idle, StreamIsPrefix
<1>11. ASSUME StartWrite PROVE Sending'
  <2>1. /\ state = "polled" /\ state' = "writing" /\ room > 0 /\ bytes_to_send # 0
        /\ calls' = IF calls = 2 THEN 2 ELSE 0
        /\ UNCHANGED <<wire, room, m_iv, bytes_to_send, bytes_have_send>>
    BY <1>11 DEF StartWrite
  <2>2. CASE calls = 2
    BY <2>1, <2>2 DEF Sending, Idle
  <2>3. CASE calls < 2
    <3>1. calls' = 0 /\ bytes_to_send > 0
      BY <1>2, <2>1, <2>3
    <3>2. Whole' \/ RestOfFile'
      BY <2>1, <2>3, <3>1 DEF Sending, Whole, RestOfFile, Partly
    <3> QED
      BY <2>1, <2>3, <3>1, <3>2 DEF Sending, Idle, StreamIsPrefix
  <2> QED
    BY <1>2, <2>2, <2>3
<1>12. ASSUME Writev PROVE Sending'
  <2> DEFINE all == Bytes(m_iv[1]) \o Bytes(m_iv[2])
             temp == MinOf(room, Len(all))
             w == wire \o SubSeq(all, 1, temp)
  <2>1. state = "writing" /\ room > 0 /\ temp > 0 /\ calls' = MinOf(calls + 1, 2)
    BY <1>12 DEF Writev
  <2>again. CASE calls # 0
    <3>1. calls' = 2
      BY <1>2, <2>1, <2>again DEF MinOf
    <3>2. (state' = "polled" /\ armed' = "none") \/ state' \in {"closed", "writing"}
      BY <1>12 DEF Writev, Finish
    <3> QED
      BY <3>1, <3>2 DEF Sending, Idle
  <2> SUFFICES ASSUME calls = 0 PROVE Sending'
    BY <2>again
  <2>first. calls' = 1 /\ wire \in Seq(Sent) /\ StreamIsPrefix
    BY <1>2, <2>1 DEF MinOf, Sending
  <2>2. /\ all \in Seq(Sent) /\ Len(all) = bytes_to_send
        /\ Len(wire) + Len(all) = Total
        /\ \A i \in 1..Len(all) : all[i] = Response[Len(wire) + i]
    BY <2>1, NextBytes
  <2>3. temp \in 0..Len(all) /\ temp <= room /\ (temp < Len(all) => temp = room)
    BY <1>2, <2>2 DEF MinOf
  <2>4. /\ wire' = w /\ room' = room - temp
        /\ newadd' = bytes_have_send + temp - HeaderLength
        /\ IF bytes_to_send - temp <= 0
           THEN Finish(temp)
           ELSE /\ bytes_have_send' = bytes_have_send + temp
                /\ bytes_to_send' = bytes_to_send - temp
                /\ UNCHANGED <<state, armed, parseVars, mapped, m_iv>>
    BY <1>12 DEF Writev
  <2> HIDE DEF all, temp
  <2>5. /\ w \in Seq(Sent) /\ Len(w) = Len(wire) + temp
        /\ Len(w) <= Len(Response) /\ w = SubSeq(Response, 1, Len(w))
    BY <2>first, <2>2, <2>3, PrefixGrows
  <2> HIDE DEF w
  <2>6. wire' \in Seq(Sent) /\ StreamIsPrefix'
    BY <2>4, <2>5, ResponseFacts DEF StreamIsPrefix, Response
  <2>7. /\ bytes_to_send > 0 /\ bytes_have_send = Len(wire)
        /\ bytes_have_send + bytes_to_send = Total
        /\ Whole \/ RestOfFile
    BY <1>2, <2>1 DEF Inv, Mapping, Sending, Partly
  <2>8. CASE bytes_to_send - temp <= 0
    <3>1. temp = bytes_to_send
      BY <1>2, <2>2, <2>3, <2>8
    <3>2. \/ /\ bytes_to_send' = 0 /\ bytes_have_send' = 0
             /\ state' = "polled" /\ armed' = "none"
          \/ /\ bytes_to_send' = 0 /\ bytes_have_send' = Total
             /\ state' = "closed"
      BY <1>1, <1>2, <2>4, <2>7, <2>8, <3>1 DEF Finish, InitResponse
    <3> QED
      BY <1>1, <2>6, <3>2 DEF Sending, Idle
  <2>9. CASE ~ (bytes_to_send - temp <= 0)
    <3>1. /\ temp < Len(all) /\ temp = room /\ room' = 0
          /\ bytes_have_send' = bytes_have_send + temp
          /\ bytes_to_send' = bytes_to_send - temp /\ bytes_to_send' > 0
          /\ state' = "writing" /\ m_iv' = m_iv
      BY <1>2, <2>1, <2>2, <2>3, <2>4, <2>9
    <3>2. bytes_have_send' >= HeaderLength
      BY <1>1, <1>2, <2>3, <2>7, <3>1 DEF Whole, RestOfFile
    <3>3. m_iv[1].len <= bytes_have_send'
      BY <1>1, <1>2, <2>3, <2>7, <3>1, <3>2 DEF Whole, RestOfFile, HeaderVec
    <3>4. Partly'
      BY <1>1, <1>2, <2>first, <2>3, <2>4, <3>1, <3>2, <3>3 DEF Partly
    <3>5. /\ bytes_have_send' + bytes_to_send' = Total
          /\ bytes_have_send' = Len(wire')
          /\ bytes_to_send' \in 0..Total /\ bytes_have_send' \in 0..Total
      BY <1>1, <1>2, <2>3, <2>4, <2>5, <2>7, <3>1
    <3> QED
      BY <2>6, <3>1, <3>4, <3>5 DEF Sending, Idle
  <2> QED
    BY <2>8, <2>9
<1>13. ASSUME WriteAgain PROVE Sending'
  <2>1. /\ state = "writing" /\ state' = "polled" /\ room = 0 /\ bytes_to_send # 0
        /\ UNCHANGED <<wire, room, bytes_to_send, bytes_have_send, calls>>
    BY <1>13 DEF WriteAgain, Inv, Mapping
  <2>2. CASE calls = 2
    BY <2>1, <2>2 DEF Sending, Idle
  <2>3. CASE calls < 2
    <3>1. bytes_to_send > 0 /\ Partly
      BY <1>1, <1>2, <2>1, <2>3 DEF Sending, Whole, RestOfFile
    <3>2. m_iv' = <<HeaderVec(m_iv[1].base, 0),
                    FileVec(bytes_have_send - HeaderLength, bytes_to_send)>>
      BY <1>13, <3>1 DEF WriteAgain, Partly
    <3>3. RestOfFile'
      BY <2>1, <3>1, <3>2 DEF RestOfFile, Partly, HeaderVec
    <3>4. wire' \in Seq(Sent) /\ StreamIsPrefix'
      BY <2>1, <2>3 DEF Sending, StreamIsPrefix
    <3> QED
      BY <2>1, <2>3, <3>1, <3>3, <3>4 DEF Sending, Idle
  <2> QED
    BY <1>2, <2>2, <2>3
<1>14. ASSUME WriteFails PROVE Sending'
  BY <1>14 DEF WriteFails, Sending, Idle, StreamIsPrefix
<1> QED
  BY <1>5, <1>6, <1>time, <1>7, <1>8, <1>9, <1>10, <1>11, <1>12, <1>13, <1>14
     DEF Next, Process, Write

\* As long as no write() has sent twice, the wire is a prefix of header and file,
\* if the send buffer takes the header.
THEOREM StreamExact ==
  ASSUME HeaderLength <= SendBuffer
  PROVE  Spec => []StreamIsPrefixUnlessResent
<1>1. Init => Inv /\ Sending
  BY InvInit, SendingInit
<1>2. Inv /\ Sending /\ [Next]_vars => Inv' /\ Sending'
  BY InvNext, SendingNext
<1>3. Sending => StreamIsPrefixUnlessResent
  BY DEF Sending, StreamIsPrefixUnlessResent
<1> QED
  BY <1>1, <1>2, <1>3, PTL DEF Spec

-----------------------------------------------------------------------------
(* The lines of a request                                                  *)

\* parse_line() never rejects a line of the header: it finds the next one, or
\* the buffer holds less than the header.
LEMMA LineFound ==
  ASSUME Inv, NEW r \in Requests, NEW n \in Nat, InHeader(r, n)
  PROVE  \/ /\ ParseLine.status = "OPEN"
            /\ Len(m_read_buf) < n
            /\ ParseLine.checked <= n - 1
            /\ \A i \in (m_start_line + 1)..ParseLine.checked : r[i] \notin {CR, LF}
         \/ /\ ParseLine.status = "OK"
            /\ \E p \in (m_start_line + 1)..(n - 1) :
                 /\ r[p] = CR /\ r[p + 1] = LF
                 /\ \A i \in (m_start_line + 1)..(p - 1) : r[i] \notin {CR, LF}
                 /\ p + 1 <= Len(m_read_buf)
                 /\ ParseLine.checked = p + 1
                 /\ ParseLine.buf = [k \in DOMAIN m_read_buf |->
                                       IF k - 1 \in (p - 1)..p THEN NUL ELSE m_read_buf[k]]
<1> DEFINE s == m_start_line
           c == m_checked_idx
           len == Len(m_read_buf)
<1>1. /\ s \in Nat /\ c \in Nat /\ len \in Nat /\ s <= c /\ c <= len
      /\ m_read_idx = len
  BY DEF Inv, Typed, m_read_idx
<1>2. /\ n \in 4..Len(r) /\ s <= n - 2 /\ c <= n - 1
      /\ \A i \in 1..n : r[i] = LF <=> i > 1 /\ r[i - 1] = CR
      /\ r[n] = LF
      /\ s = 0 \/ r[s] = LF
      /\ \A i \in (s + 1)..len : m_read_buf[i] = r[i]
      /\ \A i \in (s + 1)..c : r[i] \notin {CR, LF}
  BY DEF InHeader, HeaderOf
<1>3. CR # LF
  BY DEF CR, LF
<1> HIDE DEF s, c, len
<1>4. \A i \in c..(len - 1) : Byte(m_read_buf, i) = r[i + 1]
  BY <1>1, <1>2 DEF Byte
<1>5. LineEnds = {i \in c..(len - 1) : r[i + 1] \in {CR, LF}}
  BY <1>1, <1>4 DEF LineEnds, c
<1>6. CASE LineEnds = {}
  <2>1. len < n
    <3>1. SUFFICES ASSUME len >= n PROVE FALSE
      BY <1>1, <1>2
    <3>2. n - 1 \in c..(len - 1) /\ r[(n - 1) + 1] = LF
      BY <1>1, <1>2, <3>1
    <3>3. n - 1 \in LineEnds
      BY <1>5, <3>2
    <3> QED
      BY <1>6, <3>3
  <2>2. ParseLine.status = "OPEN" /\ ParseLine.checked = len
    BY <1>1, <1>6, ParseLineCases DEF Inv
  <2>3. \A i \in (s + 1)..len : r[i] \notin {CR, LF}
    <3> TAKE i \in (s + 1)..len
    <3>1. CASE i <= c
      BY <1>1, <1>2, <3>1
    <3>2. CASE ~ (i <= c)
      <4>1. i - 1 \in c..(len - 1) /\ r[(i - 1) + 1] = r[i]
        BY <1>1, <3>2
      <4> QED
        BY <1>5, <1>6, <4>1
    <3> QED
      BY <3>1, <3>2
  <2> QED
    BY <1>1, <1>2, <2>1, <2>2, <2>3 DEF s, len
<1>7. CASE LineEnds # {}
  <2>1. PICK i \in LineEnds : (\A j \in LineEnds : i <= j) /\ ParseLine = LineEndAt(i)
    BY <1>7, ParseLineCases DEF Inv
  <2> DEFINE p == i + 1
  <2>2. /\ i \in Nat /\ i >= c /\ i <= len - 1 /\ p \in Nat /\ p - 1 = i
        /\ r[p] \in {CR, LF}
    BY <1>1, <1>5, <2>1
  <2>3. \A j \in (s + 1)..(p - 1) : r[j] \notin {CR, LF}
    <3> TAKE j \in (s + 1)..(p - 1)
    <3>1. CASE j <= c
      BY <1>1, <1>2, <3>1
    <3>2. CASE ~ (j <= c)
      <4>1. j - 1 \in c..(len - 1) /\ r[(j - 1) + 1] = r[j] /\ ~ (i <= j - 1)
        BY <1>1, <2>2, <3>2
      <4> QED
        BY <1>5, <2>1, <4>1
    <3> QED
      BY <3>1, <3>2
  <2>4. p <= n
    <3>1. SUFFICES ASSUME p > n PROVE FALSE
      BY <1>2, <2>2
    <3>2. n \in (s + 1)..(p - 1) /\ r[n] = LF
      BY <1>1, <1>2, <2>2, <3>1
    <3> QED
      BY <2>3, <3>2
  <2>5. r[p] = CR
    <3>1. SUFFICES ASSUME r[p] = LF PROVE FALSE
      BY <2>2
    <3>2. p \in 1..n /\ p > 1 /\ r[p - 1] = CR
      BY <1>1, <1>2, <2>2, <2>4, <3>1
    <3>3. p - 1 \notin (s + 1)..(p - 1)
      BY <2>3, <3>2
    <3>4. s = p - 1 /\ s # 0
      BY <1>1, <2>2, <3>2, <3>3
    <3> QED
      BY <1>2, <1>3, <3>2, <3>4
  <2>6. p \in (s + 1)..(n - 1)
    BY <1>1, <1>2, <1>3, <2>2, <2>4, <2>5
  <2>7. r[p + 1] = LF
    <3>1. p + 1 \in 1..n /\ p + 1 > 1 /\ (p + 1) - 1 = p
      BY <1>1, <1>2, <2>2, <2>6
    <3> QED
      BY <1>2, <2>5, <3>1
  <2>8. Byte(m_read_buf, i) = CR
    BY <1>4, <2>2, <2>5
  <2>9. CASE p = len
    <3>1. ParseLine.status = "OPEN" /\ ParseLine.checked = i
      BY <1>1, <2>1, <2>8, <2>9 DEF LineEndAt
    <3>2. \A j \in (s + 1)..i : r[j] \notin {CR, LF}
      BY <2>2, <2>3
    <3> QED
      BY <1>1, <1>2, <2>2, <2>6, <2>9, <3>1, <3>2 DEF s, len
  <2>10. CASE p # len
    <3>1. p + 1 <= len /\ p \in c..(len - 1)
      BY <1>1, <2>2, <2>10
    <3>2. Byte(m_read_buf, i + 1) = LF
      BY <1>4, <2>7, <3>1
    <3>3. ParseLine = [ status |-> "OK", checked |-> i + 2,
                        buf |-> [k \in DOMAIN m_read_buf |->
                                   IF k - 1 \in i..(i + 1) THEN NUL ELSE m_read_buf[k]] ]
      BY <1>1, <2>1, <2>8, <2>10, <3>2 DEF LineEndAt
    <3>4. /\ ParseLine.status = "OK" /\ ParseLine.checked = p + 1
          /\ ParseLine.buf = [k \in DOMAIN m_read_buf |->
                                IF k - 1 \in (p - 1)..p THEN NUL ELSE m_read_buf[k]]
      BY <2>2, <3>3
    <3> HIDE DEF p
    <3> QED
      BY <2>3, <2>5, <2>6, <2>7, <3>1, <3>4 DEF s, len
  <2> QED
    BY <2>9, <2>10
<1> QED
  BY <1>6, <1>7

\* A complete line overwrites two bytes and is skipped.
LEMMA TakeLineFacts ==
  ASSUME Inv, TakeLine
  PROVE  /\ Len(m_read_buf') = Len(m_read_buf)
         /\ Len(m_read_buf) > 0
         /\ \A i \in 1..Len(m_read_buf) : m_read_buf'[i] = m_read_buf[i] \/ m_read_buf'[i] = NUL
<1>1. m_read_buf \in Seq(Token) /\ Len(m_read_buf) \in Nat /\ DOMAIN m_read_buf = 1..Len(m_read_buf)
  BY DEF Inv, Typed
<1>2. m_read_buf' = ParseLine.buf /\ ParseLine.status = "OK"
  BY DEF TakeLine
<1>3. Len(m_read_buf') = Len(m_read_buf)
  BY <1>2, ParseLineFacts DEF Inv
<1>4. PICK i \in LineEnds : ParseLine = LineEndAt(i)
  BY <1>2, ParseLineCases DEF Inv
<1>5. Len(m_read_buf) > 0
  BY <1>1, <1>4 DEF LineEnds, m_read_idx, Inv, Typed
<1>6. \E S : ParseLine.buf = [k \in DOMAIN m_read_buf |-> IF k - 1 \in S THEN NUL ELSE m_read_buf[k]]
  BY <1>2, <1>4 DEF LineEndAt
<1> QED
  BY <1>1, <1>2, <1>3, <1>5, <1>6

\* A line that is not empty is not the last one of the header, so that the next
\* one begins inside the header too.
LEMMA NextLineInHeader ==
  ASSUME Inv, NEW r \in Requests, NEW n \in Nat, InHeader(r, n), TakeLine, Text # NUL
  PROVE  /\ m_start_line' = m_checked_idx' /\ m_start_line' \in Nat
         /\ m_start_line' <= n - 2
         /\ r[m_start_line'] = LF
         /\ \A i \in (m_start_line' + 1)..Len(m_read_buf') : m_read_buf'[i] = r[i]
<1>1. PICK p \in (m_start_line + 1)..(n - 1) :
        /\ r[p] = CR /\ r[p + 1] = LF
        /\ \A i \in (m_start_line + 1)..(p - 1) : r[i] \notin {CR, LF}
        /\ p + 1 <= Len(m_read_buf)
        /\ ParseLine.checked = p + 1
        /\ ParseLine.buf = [k \in DOMAIN m_read_buf |->
                              IF k - 1 \in (p - 1)..p THEN NUL ELSE m_read_buf[k]]
  BY LineFound DEF TakeLine
<1>2. /\ m_read_buf \in Seq(Token) /\ Len(m_read_buf) \in Nat
      /\ DOMAIN m_read_buf = 1..Len(m_read_buf)
      /\ m_start_line \in Nat /\ p \in Nat
      /\ Len(m_read_buf') = Len(m_read_buf)
  BY <1>1, TakeLineFacts DEF Inv, Typed
<1>3. /\ n \in 4..Len(r) /\ m_start_line <= n - 2
      /\ \A i \in 1..n : r[i] = LF <=> i > 1 /\ r[i - 1] = CR
      /\ r[n] = LF /\ r[n - 2] = LF
      /\ \A i \in (m_start_line + 1)..Len(m_read_buf) : m_read_buf[i] = r[i]
  BY DEF InHeader, HeaderOf
<1>4. CR # LF
  BY DEF CR, LF
<1>5. m_read_buf' = ParseLine.buf /\ m_checked_idx' = p + 1 /\ m_start_line' = p + 1
  BY <1>1 DEF TakeLine
<1>6. p # m_start_line + 1
  <2>1. SUFFICES ASSUME p = m_start_line + 1 PROVE FALSE
    OBVIOUS
  <2>2. m_start_line + 1 \in DOMAIN m_read_buf /\ (m_start_line + 1) - 1 \in (p - 1)..p
    BY <1>1, <1>2, <2>1
  <2>3. ParseLine.buf[m_start_line + 1] = NUL
    BY <1>1, <2>2
  <2> QED
    BY <2>3 DEF Text, Byte
<1>7. p + 1 # n
  <2>1. SUFFICES ASSUME p + 1 = n PROVE FALSE
    OBVIOUS
  <2>2. n - 2 \in (m_start_line + 1)..(p - 1)
    BY <1>1, <1>2, <1>3, <1>6, <2>1
  <2> QED
    BY <1>1, <1>3, <2>2
<1>8. p + 1 # n - 1
  <2>1. n \in 1..n /\ r[n - 1] = CR
    BY <1>3
  <2> QED
    BY <1>1, <1>4, <2>1
<1>9. \A i \in (p + 2)..Len(m_read_buf) : m_read_buf'[i] = r[i]
  <2> TAKE i \in (p + 2)..Len(m_read_buf)
  <2>1. i \in DOMAIN m_read_buf /\ i - 1 \notin (p - 1)..p /\ i \in (m_start_line + 1)..Len(m_read_buf)
    BY <1>1, <1>2
  <2> QED
    BY <1>1, <1>3, <1>5, <2>1
<1> QED
  BY <1>1, <1>2, <1>3, <1>5, <1>7, <1>8, <1>9

\* The buffer is empty before the first request.
LEMMA LinesInit == Init => Lines
BY DEF Init, Lines

\* Whatever recv() delivers, the lines of a header are taken one after another,
\* and the server asks for more only while part of the header is missing.
LEMMA LinesNext ==
  ASSUME ProperRequests
  PROVE  Inv /\ Lines /\ [Next]_vars => Lines'
<1> SUFFICES ASSUME Inv, Lines, [Next]_vars PROVE Lines'
  OBVIOUS
<1>1. /\ m_read_buf \in Seq(Token) /\ Len(m_read_buf) \in Nat
      /\ incoming \in Seq(Token) /\ Len(incoming) \in Nat
      /\ m_checked_idx \in Nat /\ m_start_line \in Nat
      /\ m_start_line <= m_checked_idx /\ m_checked_idx <= Len(m_read_buf)
  BY DEF Inv, Typed
<1>2. <<>> \in Seq(Token) /\ Len(<<>>) = 0
  BY EmptySeq
<1>3. \A r \in Requests : r \in Seq(STRING) /\ Len(r) \in Nat
  BY HttpConnAssumption
<1>4. ASSUME NEW r \in Requests, m_read_buf' = <<>>, m_checked_idx' = 0, m_start_line' = 0
      PROVE  \E n \in Nat : InHeader(r, n)'
  <2>1. PICK n \in 4..Len(r) : HeaderOf(r, n)
    BY DEF ProperRequests
  <2>2. InHeader(r, n)'
    BY <1>2, <1>3, <1>4, <2>1 DEF InHeader
  <2>3. n \in Nat
    BY <1>3, <2>1
  <2> QED
    BY <2>2, <2>3
<1>5. ASSUME UNCHANGED <<incoming, m_read_buf, m_checked_idx, m_start_line, m_check_state>>,
             Waiting' => Waiting,
             Waiting' /\ state' = "polled" => state = "polled"
      PROVE  Lines'
  <2>1. CASE incoming = <<>> /\ m_read_buf = <<>>
    BY <1>5, <2>1 DEF Lines
  <2>2. ASSUME NEW r \in Requests, NEW k \in Nat, RestOf(r, k),
               k = 0 /\ Waiting /\ m_check_state # "CONTENT" => \E n \in Nat : InHeader(r, n)
        PROVE  Lines'
    <3>1. RestOf(r, k)'
      BY <1>5, <2>2 DEF RestOf
    <3>2. ASSUME k = 0, Waiting', m_check_state' # "CONTENT" PROVE \E n \in Nat : InHeader(r, n)'
      <4>1. PICK n \in Nat : InHeader(r, n)
        BY <1>5, <2>2, <3>2
      <4>2. InHeader(r, n)'
        BY <1>5, <3>2, <4>1 DEF InHeader
      <4> QED
        BY <4>2
    <3> QED
      BY <3>1, <3>2 DEF Lines
  <2> QED
    BY <2>1, <2>2 DEF Lines
<1>6. ASSUME incoming' = incoming, Len(m_read_buf') = Len(m_read_buf),
             m_read_buf' = <<>> \/ Len(m_read_buf) > 0,
             \A i \in 1..Len(m_read_buf) : m_read_buf'[i] = m_read_buf[i] \/ m_read_buf'[i] = NUL,
             ~ Waiting' \/ m_check_state' = "CONTENT"
      PROVE  Lines'
  <2>1. CASE incoming = <<>> /\ m_read_buf = <<>>
    BY <1>2, <1>6, <2>1 DEF Lines
  <2>2. ASSUME NEW r \in Requests, NEW k \in Nat, RestOf(r, k) PROVE Lines'
    <3>1. RestOf(r, k)'
      BY <1>6, <2>2 DEF RestOf
    <3> QED
      BY <1>6, <3>1 DEF Lines
  <2> QED
    BY <2>1, <2>2 DEF Lines
<1>7. ASSUME InitParse, incoming' = incoming PROVE Lines'
  <2>1. m_read_buf' = <<>> /\ m_checked_idx' = 0 /\ m_start_line' = 0
    BY <1>7 DEF InitParse
  <2>2. CASE incoming = <<>> /\ m_read_buf = <<>>
    BY <1>7, <2>1, <2>2 DEF Lines
  <2>3. ASSUME NEW r \in Requests, NEW k \in Nat, RestOf(r, k) PROVE Lines'
    <3>1. PICK j \in Nat : j = k + Len(m_read_buf)
      BY <1>1
    <3>2. /\ j + Len(incoming) = Len(r)
          /\ \A i \in 1..Len(incoming) : incoming[i] = r[j + i]
      BY <2>3, <3>1 DEF RestOf
    <3>3. Len(m_read_buf') = 0 /\ j + 0 = j
      BY <1>2, <2>1, <3>1
    <3>4. RestOf(r, j)'
      BY <1>7, <3>1, <3>2, <3>3 DEF RestOf
    <3>5. \E n \in Nat : InHeader(r, n)'
      BY <1>4, <2>1
    <3> QED
      BY <3>1, <3>4, <3>5 DEF Lines
  <2> QED
    BY <2>2, <2>3 DEF Lines
<1>8. ASSUME NEW code \in RequestResults, Answer(code) PROVE ~ Waiting'
  BY <1>8 DEF Answer, Respond, ModFd, RequestResults, Waiting
<1>9. ASSUME TakeLine, incoming' = incoming, state = "parsing", state' = state,
             m_check_state # "CONTENT", Text # NUL
      PROVE  Lines'
  <2>1. /\ Len(m_read_buf') = Len(m_read_buf) /\ Len(m_read_buf) > 0
        /\ \A i \in 1..Len(m_read_buf) : m_read_buf'[i] = m_read_buf[i] \/ m_read_buf'[i] = NUL
    BY <1>9, TakeLineFacts
  <2>2. m_read_buf # <<>>
    BY <1>2, <2>1
  <2>3. PICK r \in Requests, k \in Nat :
          /\ RestOf(r, k)
          /\ k = 0 /\ Waiting /\ m_check_state # "CONTENT" => \E n \in Nat : InHeader(r, n)
    BY <2>2 DEF Lines
  <2>4. RestOf(r, k)'
    BY <1>9, <2>1, <2>3 DEF RestOf
  <2>5. ASSUME k = 0 PROVE \E n \in Nat : InHeader(r, n)'
    <3>1. PICK n \in Nat : InHeader(r, n)
      BY <1>9, <2>3, <2>5 DEF Waiting
    <3>2. /\ m_start_line' = m_checked_idx' /\ m_start_line' \in Nat
          /\ m_start_line' <= n - 2 /\ r[m_start_line'] = LF
          /\ \A i \in (m_start_line' + 1)..Len(m_read_buf') : m_read_buf'[i] = r[i]
      BY <1>9, <3>1, NextLineInHeader
    <3>3. /\ n \in 4..Len(r) /\ HeaderOf(r, n)
          /\ m_checked_idx' <= n - 1
          /\ (m_start_line' + 1)..m_checked_idx' = {}
      <4>1. n \in 4..Len(r) /\ HeaderOf(r, n)
        BY <3>1 DEF InHeader
      <4> HIDE DEF InHeader
      <4>2. m_checked_idx' <= n - 1
        BY <3>1, <3>2
      <4>3. (m_start_line' + 1)..m_checked_idx' = {}
        <5>1. \A x \in Nat : (x + 1)..x = {}
          OBVIOUS
        <5> QED
          BY <3>2, <5>1
      <4> QED
        BY <4>1, <4>2, <4>3
    <3>4. InHeader(r, n)'
      BY <1>9, <3>2, <3>3 DEF InHeader
    <3> QED
      BY <3>4
  <2> QED
    BY <2>4, <2>5 DEF Lines
<1>10. ASSUME NEW r \in Requests, Send(r) PROVE Lines'
  <2>1. /\ m_read_buf = <<>> /\ incoming' = r
        /\ UNCHANGED <<m_read_buf, m_checked_idx, m_start_line>>
    BY <1>10 DEF Send, parseVars
  <2>2. RestOf(r, 0)'
    BY <1>2, <1>3, <2>1 DEF RestOf
  <2>3. \E n \in Nat : InHeader(r, n)'
    BY <1>1, <1>2, <1>4, <2>1
  <2> QED
    BY <2>2, <2>3 DEF Lines
<1>11. ASSUME Read PROVE Lines'
  <2>1. PICK m \in 1..Len(incoming) :
          LET got == Received(m)
          IN /\ incoming' = SubSeq(incoming, Len(got) + 1, Len(incoming))
             /\ m_read_buf' = m_read_buf \o got
    BY <1>11 DEF Read
  <2> DEFINE g == Len(Received(m))
  <2>2. /\ g \in 1..Len(incoming)
        /\ Len(m_read_buf') = Len(m_read_buf) + g
        /\ \A i \in 1..Len(m_read_buf) : m_read_buf'[i] = m_read_buf[i]
        /\ \A i \in 1..g : m_read_buf'[Len(m_read_buf) + i] = incoming[i]
        /\ Len(incoming') = Len(incoming) - g
        /\ \A i \in 1..Len(incoming') : incoming'[i] = incoming[g + i]
    BY <2>1, ReceivedFacts DEF Inv
  <2> HIDE DEF g
  <2>3. PICK r \in Requests, k \in Nat :
          /\ RestOf(r, k)
          /\ k = 0 /\ Waiting /\ m_check_state # "CONTENT" => \E n \in Nat : InHeader(r, n)
    <3>1. incoming # <<>>
      BY <1>2, <2>2
    <3> QED
      BY <3>1 DEF Lines
  <2>4. \A i \in 1..Len(m_read_buf') :
          i \in 1..Len(m_read_buf)
            \/ (i - Len(m_read_buf) \in 1..g /\ Len(m_read_buf) + (i - Len(m_read_buf)) = i)
    BY <1>1, <2>2
  <2>5. \A i \in 1..g : m_read_buf'[Len(m_read_buf) + i] = r[k + (Len(m_read_buf) + i)]
    <3> TAKE i \in 1..g
    <3>1. i \in 1..Len(incoming)
      BY <2>2
    <3>2. incoming[i] = r[k + Len(m_read_buf) + i]
      BY <2>3, <3>1 DEF RestOf
    <3>3. k + Len(m_read_buf) + i = k + (Len(m_read_buf) + i)
      BY <1>1, <2>2
    <3> QED
      BY <2>2, <3>2, <3>3
  <2>6. RestOf(r, k)'
    <3>1. k + Len(m_read_buf') + Len(incoming') = Len(r)
      <4>1. k + Len(m_read_buf) + Len(incoming) = Len(r)
        BY <2>3 DEF RestOf
      <4>2. g \in Int /\ k \in Int /\ Len(m_read_buf) \in Int /\ Len(incoming) \in Int
        BY <1>1, <2>2, <2>3
      <4>3. Len(m_read_buf') = Len(m_read_buf) + g /\ Len(incoming') = Len(incoming) - g
        BY <2>2
      <4>4. k + (Len(m_read_buf) + g) + (Len(incoming) - g)
              = k + Len(m_read_buf) + Len(incoming)
        BY <4>2
      <4> QED
        BY <4>1, <4>3, <4>4
    <3>2. \A i \in 1..Len(incoming') : incoming'[i] = r[k + Len(m_read_buf') + i]
      <4> TAKE i \in 1..Len(incoming')
      <4>1. g + i \in 1..Len(incoming) /\ incoming'[i] = incoming[g + i]
        BY <1>1, <2>2
      <4>2. k + Len(m_read_buf) + (g + i) = k + Len(m_read_buf') + i
        BY <1>1, <2>2
      <4> QED
        BY <2>3, <4>1, <4>2 DEF RestOf
    <3>3. \A i \in 1..Len(m_read_buf') : m_read_buf'[i] = r[k + i] \/ m_read_buf'[i] = NUL
      <4> TAKE i \in 1..Len(m_read_buf')
      <4>1. CASE i \in 1..Len(m_read_buf)
        BY <2>2, <2>3, <4>1 DEF RestOf
      <4>2. CASE i \notin 1..Len(m_read_buf)
        BY <2>4, <2>5, <4>2
      <4> QED
        BY <4>1, <4>2
    <3> QED
      BY <3>1, <3>2, <3>3 DEF RestOf
  <2>7. ASSUME k = 0, m_check_state' # "CONTENT" PROVE \E n \in Nat : InHeader(r, n)'
    <3>1. /\ Waiting /\ state' = "parsing"
          /\ UNCHANGED <<m_checked_idx, m_start_line, m_check_state>>
      BY <1>11 DEF Read, Waiting
    <3>2. PICK n \in Nat : InHeader(r, n)
      BY <2>3, <2>7, <3>1
    <3>3. \A i \in (m_start_line + 1)..Len(m_read_buf') : m_read_buf'[i] = r[i]
      <4> TAKE i \in (m_start_line + 1)..Len(m_read_buf')
      <4>1. CASE i \in 1..Len(m_read_buf)
        <5>1. i \in (m_start_line + 1)..Len(m_read_buf)
          BY <1>1, <4>1
        <5> QED
          BY <2>2, <3>2, <4>1, <5>1 DEF InHeader
      <4>2. CASE i \notin 1..Len(m_read_buf)
        <5>1. i \in 1..Len(m_read_buf')
          BY <1>1, <2>2
        <5>2. /\ i - Len(m_read_buf) \in 1..g
              /\ Len(m_read_buf) + (i - Len(m_read_buf)) = i /\ 0 + i = i
          BY <1>1, <2>4, <4>2, <5>1
        <5> QED
          BY <2>5, <2>7, <5>2
      <4> QED
        BY <4>1, <4>2
    <3>4. InHeader(r, n)'
      BY <3>1, <3>2, <3>3 DEF InHeader
    <3> QED
      BY <3>4
  <2> QED
    BY <2>6, <2>7 DEF Lines
<1>12. ASSUME ParseRequestLine PROVE Lines'
  <2>1. TakeLine /\ incoming' = incoming /\ state = "parsing" /\ m_check_state # "CONTENT"
    BY <1>12 DEF ParseRequestLine, clientVars
  <2>2. CASE Answer("BAD_REQUEST")
    BY <1>6, <1>8, <2>1, <2>2, TakeLineFacts DEF RequestResults
  <2>3. CASE Text \in {"GET", "POST"} /\ GoOn
    BY <1>9, <2>1, <2>3 DEF GoOn, NUL
  <2> QED
    BY <1>12, <2>2, <2>3 DEF ParseRequestLine
<1>13. ASSUME ParseHeader PROVE Lines'
  BY <1>9, <1>13 DEF ParseHeader, GoOn, clientVars
<1>14. ASSUME EndOfHeaders PROVE Lines'
  <2>1. TakeLine /\ incoming' = incoming
    BY <1>14 DEF EndOfHeaders, clientVars
  <2>2. ~ Waiting' \/ m_check_state' = "CONTENT"
    BY <1>8, <1>14 DEF EndOfHeaders
  <2> QED
    BY <1>6, <2>1, <2>2, TakeLineFacts
<1>15. ASSUME ParseContent PROVE Lines'
  <2>1. incoming' = incoming /\ m_check_state' = "CONTENT"
    BY <1>15 DEF ParseContent, clientVars
  <2>2. CASE TakeLine
    BY <1>6, <2>1, <2>2, TakeLineFacts
  <2>3. CASE m_read_buf' = m_read_buf
    <3>1. m_read_buf = <<>> \/ Len(m_read_buf) > 0
      BY <1>1, EmptySeq
    <3> QED
      BY <1>6, <2>1, <2>3, <3>1
  <2> QED
    BY <1>15, <2>2, <2>3 DEF ParseContent
<1>16. ASSUME NeedMore PROVE Lines'
  <2>1. /\ state = "parsing" /\ state' = "polled" /\ ParseLine.status # "OK"
        /\ m_checked_idx' = ParseLine.checked
        /\ UNCHANGED <<incoming, m_read_buf, m_start_line, m_check_state>>
    BY <1>16 DEF NeedMore, clientVars
  <2>2. CASE incoming = <<>> /\ m_read_buf = <<>>
    BY <2>1, <2>2 DEF Lines
  <2>3. ASSUME NEW r \in Requests, NEW k \in Nat, RestOf(r, k),
               k = 0 /\ Waiting /\ m_check_state # "CONTENT" => \E n \in Nat : InHeader(r, n)
        PROVE  Lines'
    <3>1. RestOf(r, k)'
      BY <2>1, <2>3 DEF RestOf
    <3>2. ASSUME k = 0, m_check_state' # "CONTENT" PROVE \E n \in Nat : InHeader(r, n)'
      <4>1. PICK n \in Nat : InHeader(r, n)
        BY <2>1, <2>3, <3>2 DEF Waiting
      <4>2. /\ Len(m_read_buf) < n
            /\ ParseLine.checked <= n - 1
            /\ \A i \in (m_start_line + 1)..ParseLine.checked : r[i] \notin {CR, LF}
        BY <2>1, <4>1, LineFound
      <4>3. InHeader(r, n)'
        BY <2>1, <4>1, <4>2 DEF InHeader
      <4> QED
        BY <4>3
    <3> QED
      BY <3>1, <3>2 DEF Lines
  <2> QED
    BY <2>2, <2>3 DEF Lines
<1>17. ASSUME WriteNothing PROVE Lines'
  BY <1>7, <1>17 DEF WriteNothing, clientVars
<1>18. ASSUME Writev PROVE Lines'
  <2>1. /\ incoming' = incoming /\ state = "writing"
        /\ \/ \E temp : Finish(temp)
           \/ UNCHANGED <<state, armed, parseVars>>
    BY <1>18 DEF Writev, clientVars
  <2>2. \/ InitParse
        \/ UNCHANGED parseVars /\ ~ Waiting'
    BY <2>1 DEF Finish, Waiting
  <2> QED
    BY <1>5, <1>7, <2>1, <2>2 DEF parseVars
<1>19. ASSUME \/ HangUp \/ Drain \/ TimerCloses \/ ReadFails
              \/ StartWrite \/ WriteAgain \/ WriteFails \/ UNCHANGED vars
       PROVE  Lines'
  <2>1. UNCHANGED <<incoming, m_read_buf, m_checked_idx, m_start_line, m_check_state>>
    BY <1>19 DEF HangUp, Drain, TimerCloses, ReadFails, StartWrite, WriteAgain, WriteFails,
                 vars, clientVars, parseVars
  <2>2. UNCHANGED <<state, armed>> \/ (state' = state /\ armed' = "gone") \/ ~ Waiting'
    BY <1>19 DEF HangUp, Drain, TimerCloses, ReadFails, StartWrite, WriteAgain, WriteFails,
                 vars, Waiting
  <2> QED
    BY <1>5, <2>1, <2>2 DEF Waiting
<1> QED
  BY <1>10, <1>11, <1>12, <1>13, <1>14, <1>15, <1>16, <1>17, <1>18, <1>19
     DEF Next, Process, Write

\* However the network cuts a request, its lines are found: the server waits
\* for more of a request that it has completely only inside a body.
THEOREM LinesFound ==
  ASSUME ProperRequests
  PROVE  Spec => []LinesNeverStall
<1>1. Init => Inv /\ Lines
  BY InvInit, LinesInit
<1>2. Inv /\ Lines /\ [Next]_vars => Inv' /\ Lines'
  BY InvNext, LinesNext
<1>3. Inv /\ Lines => LinesNeverStall
  <2> SUFFICES ASSUME Inv, Lines, Stalled, m_check_state # "CONTENT" PROVE FALSE
    BY DEF LinesNeverStall
  <2>1. /\ state = "polled" /\ armed = "in" /\ incoming = <<>> /\ m_read_buf # <<>>
        /\ \E q \in Requests : m_read_buf[1] = q[1]
    BY DEF Stalled
  <2>2. PICK r \in Requests, k \in Nat :
          /\ RestOf(r, k)
          /\ k = 0 /\ Waiting /\ m_check_state # "CONTENT" => \E n \in Nat : InHeader(r, n)
    BY <2>1 DEF Lines
  <2>3. Len(m_read_buf) \in Nat /\ Len(m_read_buf) > 0
    BY <2>1, EmptySeq DEF Inv, Typed
  <2>4. k + Len(m_read_buf) = Len(r)
    BY <2>1, <2>2, <2>3, EmptySeq DEF RestOf
  <2>5. CASE k = 0
    <3>1. PICK n \in Nat : InHeader(r, n)
      BY <2>1, <2>2, <2>5 DEF Waiting
    <3> QED
      BY <2>1, <2>3, <2>4, <2>5, <3>1 DEF InHeader
  <2>6. CASE k # 0
    <3>1. m_read_buf[1] = r[k + 1] \/ m_read_buf[1] = NUL
      BY <2>2, <2>3 DEF RestOf
    <3>2. k + 1 \in 2..Len(r)
      BY <2>3, <2>4, <2>6
    <3> QED
      BY <2>1, <3>1, <3>2 DEF ProperRequests
  <2> QED
    BY <2>5, <2>6
<1> QED
  BY <1>1, <1>2, <1>3, PTL DEF Spec
=============================================================================
