----------------------------- MODULE HttpProofs -----------------------------
(***************************************************************************)
(* Proofs about one HttpConn object, first part: the inductive invariant,  *)
(* and that process() keeps it.                                            *)
(*                                                                         *)
(* For every size of the read buffer from 4 on, every size of the write    *)
(* buffer, whatever the clients send and however the socket cuts it.       *)
(***************************************************************************)
EXTENDS HttpConn, WellFoundedInduction, TLAPS

-----------------------------------------------------------------------------
(* Least elements *)

\* Every set of natural numbers that is not empty has a least element.
LEMMA LeastNat ==
    ASSUME NEW S \in SUBSET Nat, S # {}
    PROVE  \E m \in S : \A n \in S : m <= n
<1> DEFINE R == OpToRel(<, Nat)
<1>1. IsWellFoundedOn(R, Nat) BY NatLessThanWellFounded
<1> HIDE DEF R
<1>2. PICK m \in S : \A n \in S : ~(<<n, m>> \in R) BY <1>1, WFMin
<1>3. \A n \in S : n < m => <<n, m>> \in R BY DEF R, OpToRel
<1>4. \A n \in S : m <= n
  <2> SUFFICES ASSUME NEW n \in S PROVE m <= n OBVIOUS
  <2>1. ~(n < m) BY <1>2, <1>3
  <2>2. m \in Nat /\ n \in Nat OBVIOUS
  <2> QED BY <2>1, <2>2
<1> QED BY <1>4

\* Min() is that element.
LEMMA MinNat ==
    ASSUME NEW S \in SUBSET Nat, S # {}
    PROVE  Min(S) \in S /\ \A n \in S : Min(S) <= n
<1>1. \E m \in S : \A n \in S : m <= n BY LeastNat
<1> QED BY <1>1 DEF Min

\* The lesser and the greater of two numbers.
LEMMA OfTwo ==
    ASSUME NEW a \in Int, NEW b \in Int
    PROVE  /\ Min({a, b}) = IF a <= b THEN a ELSE b
           /\ Max({a, b}) = IF a <= b THEN b ELSE a
<1>1. \E m \in {a, b} : \A n \in {a, b} : m <= n OBVIOUS
<1>2. \E m \in {a, b} : \A n \in {a, b} : m >= n OBVIOUS
<1>3. Min({a, b}) \in {a, b} /\ \A n \in {a, b} : Min({a, b}) <= n BY <1>1 DEF Min
<1>4. Max({a, b}) \in {a, b} /\ \A n \in {a, b} : Max({a, b}) >= n BY <1>2 DEF Max
<1>5. Min({a, b}) = IF a <= b THEN a ELSE b BY <1>3
<1>6. Max({a, b}) = IF a <= b THEN b ELSE a BY <1>4
<1> QED BY <1>5, <1>6

-----------------------------------------------------------------------------
(* The inductive invariant *)

\* The strings: that a literal is one is not known to the provers.
Words == STRING \cup Targets \cup {NUL, "l", "body", "none", "bad"}

Members ==
    [read_idx : Int, checked_idx : Int, start_line : Int,
     check_state : {"REQUESTLINE", "HEADER", "CONTENT"}, content_length : Nat, linger : BOOLEAN,
     cgi : {0, 1}, url : Targets \cup {NUL}, write_idx : Nat, to_send : Int, have_send : Int,
     string : Words, iov : [0 .. 1 -> Int \X Int], iov_count : Nat, address : Int, st_size : Nat]

Histories ==
    [conn : Nat, first : Int, shorts : Nat, answer : Words, mapper : Nat, wrong : BOOLEAN]

HttpTypes ==
    /\ how \in [build : {"-g", "-O2"}, trig : {0, 1}, actor : {0, 1}]
    /\ net \in [stream : Seq(STRING), arrived : Nat, taken : Nat,
                peer : {"gone", "open", "shut", "reset"}]
    /\ net.taken <= net.arrived /\ net.arrived <= Len(net.stream)
    /\ hc \in Members
    /\ buf \in [0 .. READ_BUFFER_SIZE -> Words] /\ buf[READ_BUFFER_SIZE] = NUL
    /\ armed \in {"no", "IN", "OUT"}
    /\ pc \in {"closed", "wait", "read", "parse", "write", "write2", "dropped", "crashed"}
    /\ line_status \in {"OK", "OPEN", "BAD"}
    /\ got \in Seq(Int)
    /\ past \in Histories

\* The connection is served; and it waits for a request or parses one.
Alive == pc \in {"wait", "read", "parse", "write", "write2"}
Idle == pc \in {"read", "parse"} \/ (pc = "wait" /\ armed = "IN")

\* Nothing is left to send when a request is read, and there is something to read; the
\* request line is parsed before there is a target.
HttpTurns ==
    /\ Idle => hc.to_send = 0 /\ hc.have_send = 0
    /\ pc = "read" => net.taken < net.arrived
    /\ Idle /\ hc.check_state # "REQUESTLINE" => hc.url \in Targets
    /\ pc = "parse" /\ hc.check_state = "REQUESTLINE" => line_status = "OK"

\* The first piece starts where the sending has come to.  The one piece of an error's
\* response has all that is left, until there was a second short write.
HttpSending ==
    /\ hc.iov_count <= 1
    /\ Alive =>
        /\ hc.to_send >= 0
        /\ hc.to_send > 0 => /\ hc.have_send = Len(got) /\ hc.iov[0][2] <= hc.to_send
                             /\ hc.iov[0][2] > 0 => hc.iov[0][1] = hc.have_send
        /\ hc.to_send > 0 /\ past.answer \notin {"file", "big"} =>
             /\ hc.iov_count = 1
             /\ past.shorts <= 1 => hc.iov[0][2] = hc.to_send
             /\ past.shorts = 0 => hc.have_send = 0

\* A mapping of this connection has the size that stat() gave, and is there only while
\* its response is sent.
HttpMapped ==
    /\ past.mapper <= past.conn
    /\ Alive /\ past.mapper = past.conn /\ hc.address # 0 =>
        hc.address = hc.st_size + 1 /\ hc.to_send > 0

\* The first request is read but not parsed: the buffer holds what was sent.
Fresh ==
    /\ pc = "parse" /\ hc.checked_idx = 0 /\ line_status = "OK"
    /\ net.taken = hc.read_idx /\ hc.read_idx > 0
    /\ past.first = IF hc.read_idx < 4 THEN hc.read_idx ELSE 4
    /\ \A i \in 0 .. READ_BUFFER_SIZE :
         buf[i] = IF i < hc.read_idx THEN net.stream[i + 1] ELSE NUL

\* The first line of the buffer b ends at e, within what was checked.
EndsAt(b, e) == b[e] = NUL /\ \A i \in 0 .. e - 1 : b[i] # NUL /\ b[i] = net.stream[i + 1]
Good == past.first > 1 /\ GoodLine(net.stream, past.first)
Cut(b, checked) ==
    /\ checked >= 2 /\ b[checked - 1] = NUL
    /\ \E e \in 0 .. checked - 1 :
         /\ EndsAt(b, e)
         /\ Good <=> e = 2 /\ parse_request_line(<<net.stream[1], net.stream[2]>>) = "NO_REQUEST"

\* How far the first request of a connection is.
HttpParsing ==
    /\ Idle /\ hc.check_state = "REQUESTLINE" => hc.start_line = 0 /\ hc.cgi = 0
    /\ Idle /\ past.first >= 0 => past.answer = "none"
    /\ Idle /\ past.first = 0 =>
         /\ hc.read_idx = 0 /\ hc.checked_idx = 0 /\ net.taken = 0 /\ buf = Empty
         /\ hc.check_state = "REQUESTLINE" /\ pc # "parse"
    /\ Idle /\ past.first > 0 =>
         IF hc.check_state = "REQUESTLINE"
         THEN Fresh \/ Cut(buf, hc.checked_idx)
         ELSE Good /\ hc.url = net.stream[2] /\ hc.cgi = IF net.stream[1] = "POSE" THEN 1 ELSE 0

HttpInv ==
    /\ HttpTypes /\ HttpIndexesOrdered /\ HttpTurns /\ HttpSending /\ HttpSentInOrder
    /\ HttpMapped /\ HttpUnmapsWhatItMapped /\ HttpParsing /\ HttpAnswersRequest

-----------------------------------------------------------------------------
(* The parser *)

Buffers == [0 .. READ_BUFFER_SIZE -> Words]
Stop(b, i) == b[i] \in {"CR", "LF"}

\* parse_line() ends a line at CR LF, and only there; the CR may have been the last
\* word of what was checked before.
LEMMA ParseLine ==
    ASSUME NEW b \in Buffers, NEW checked \in Nat, NEW read \in Nat,
           checked <= read, read <= READ_BUFFER_SIZE
    PROVE  LET p == parse_line(b, checked, read)
           IN  /\ p.status \in {"OK", "OPEN", "BAD"} /\ p.checked \in checked .. read
               /\ p.status # "OK" => p.buf = b
               /\ p.status = "OK" => \E i \in Nat :
                    /\ checked <= i + 1 /\ i + 1 < read /\ p.checked = i + 2
                    /\ b[i] = "CR" /\ b[i + 1] = "LF"
                    /\ \A j \in checked .. i - 1 : ~Stop(b, j)
                    /\ p.buf = [b EXCEPT ![i] = NUL, ![i + 1] = NUL]
               /\ \A i \in checked .. read - 2 :
                    b[i] = "CR" /\ b[i + 1] = "LF" /\ (\A j \in checked .. i - 1 : ~Stop(b, j)) =>
                        p.status = "OK"
<1> DEFINE stops == {i \in checked .. read - 1 : b[i] \in {"CR", "LF"}}
           p == parse_line(b, checked, read)
           Goal == /\ p.status \in {"OK", "OPEN", "BAD"} /\ p.checked \in checked .. read
                   /\ p.status # "OK" => p.buf = b
                   /\ p.status = "OK" => \E i \in Nat :
                        /\ checked <= i + 1 /\ i + 1 < read /\ p.checked = i + 2
                        /\ b[i] = "CR" /\ b[i + 1] = "LF"
                        /\ \A j \in checked .. i - 1 : ~Stop(b, j)
                        /\ p.buf = [b EXCEPT ![i] = NUL, ![i + 1] = NUL]
                   /\ \A i \in checked .. read - 2 :
                        b[i] = "CR" /\ b[i + 1] = "LF" /\ (\A j \in checked .. i - 1 : ~Stop(b, j)) =>
                            p.status = "OK"
<1>1. \A s, c, d : Line(s, c, d).status = s /\ Line(s, c, d).checked = c /\ Line(s, c, d).buf = d
  BY DEF Line
<1> SUFFICES Goal OBVIOUS
<1>2. CASE stops = {}
  <2>1. p = Line("OPEN", Max({checked, read}), b) BY <1>2 DEF parse_line
  <2>2. Max({checked, read}) = read BY OfTwo
  <2>3. p.status = "OPEN" /\ p.checked = read /\ p.buf = b BY <1>1, <2>1, <2>2
  <2>4. \A i \in checked .. read - 2 : b[i] # "CR"
    <3> SUFFICES ASSUME NEW i \in checked .. read - 2, b[i] = "CR" PROVE FALSE OBVIOUS
    <3>1. i \in checked .. read - 1 OBVIOUS
    <3> QED BY <1>2, <3>1
  <2> HIDE DEF p
  <2> QED BY <2>3, <2>4
<1>3. CASE stops # {}
  <2>1. stops \in SUBSET Nat OBVIOUS
  <2>2. PICK m \in stops : m = Min(stops) /\ \A n \in stops : m <= n
    <3> HIDE DEF stops
    <3> QED BY <1>3, <2>1, MinNat
  <2>3. m \in Nat /\ checked <= m /\ m < read /\ b[m] \in {"CR", "LF"} BY <2>2
  <2>4. \A j \in checked .. m - 1 : ~Stop(b, j)
    <3> SUFFICES ASSUME NEW j \in checked .. m - 1, Stop(b, j) PROVE FALSE OBVIOUS
    <3>1. j \in stops BY <2>3 DEF Stop
    <3>2. m <= j BY <2>2, <3>1
    <3> QED BY <2>3, <3>2
  \* Where a line ends is the first stop.
  <2>5. ASSUME NEW i \in checked .. read - 2, b[i] = "CR", \A j \in checked .. i - 1 : ~Stop(b, j)
        PROVE  i = m
    <3>1. i \in stops BY <2>5
    <3>2. m <= i BY <2>2, <3>1
    <3>3. m \notin checked .. i - 1 BY <2>3, <2>5 DEF Stop
    <3> QED BY <2>3, <3>2, <3>3
  <2>6. CASE b[m] = "CR" /\ m + 1 = read
    <3>1. p = Line("OPEN", m, b) BY <1>3, <2>2, <2>6 DEF parse_line
    <3>2. p.status = "OPEN" /\ p.checked = m /\ p.buf = b BY <1>1, <3>1
    <3>3. \A i \in checked .. read - 2 : i # m BY <2>3, <2>6
    <3> HIDE DEF p, stops
    <3> QED BY <2>3, <2>5, <3>2, <3>3
  <2>7. CASE b[m] = "CR" /\ m + 1 # read /\ b[m + 1] = "LF"
    <3>1. p = Line("OK", m + 2, [b EXCEPT ![m] = NUL, ![m + 1] = NUL])
      BY <1>3, <2>2, <2>7 DEF parse_line
    <3>2. p.status = "OK" /\ p.checked = m + 2 /\ p.buf = [b EXCEPT ![m] = NUL, ![m + 1] = NUL]
      BY <1>1, <3>1
    <3> HIDE DEF p, stops
    <3> QED BY <2>3, <2>4, <2>7, <3>2
  <2>8. CASE b[m] = "LF" /\ m > 1 /\ b[m - 1] = "CR"
    <3>1. p = Line("OK", m + 1, [b EXCEPT ![m - 1] = NUL, ![m] = NUL])
      BY <1>3, <2>2, <2>8 DEF parse_line
    <3>2. p.status = "OK" /\ p.checked = m + 1 /\ p.buf = [b EXCEPT ![m - 1] = NUL, ![m] = NUL]
      BY <1>1, <3>1
    <3>3. m - 1 \notin checked .. m - 1 BY <2>4, <2>8 DEF Stop
    <3>4. checked = m /\ m - 1 \in Nat /\ (m - 1) + 1 = m /\ (m - 1) + 2 = m + 1 BY <2>3, <2>8, <3>3
    <3>5. checked .. (m - 1) - 1 = {} BY <3>4
    <3>6. p.checked \in checked .. read BY <2>3, <3>2, <3>4
    <3>7. \E i \in Nat :
             /\ checked <= i + 1 /\ i + 1 < read /\ p.checked = i + 2
             /\ b[i] = "CR" /\ b[i + 1] = "LF"
             /\ \A j \in checked .. i - 1 : ~Stop(b, j)
             /\ p.buf = [b EXCEPT ![i] = NUL, ![i + 1] = NUL]
      <4> HIDE DEF p, stops
      <4> QED BY <2>3, <2>8, <3>2, <3>4, <3>5
    <3> HIDE DEF p, stops
    <3> QED BY <3>2, <3>6, <3>7
  <2>9. CASE /\ ~(b[m] = "CR" /\ m + 1 = read)
             /\ ~(b[m] = "CR" /\ m + 1 # read /\ b[m + 1] = "LF")
             /\ ~(b[m] = "LF" /\ m > 1 /\ b[m - 1] = "CR")
    <3>1. p = Line("BAD", m, b) BY <1>3, <2>2, <2>9 DEF parse_line
    <3>2. p.status = "BAD" /\ p.checked = m /\ p.buf = b BY <1>1, <3>1
    <3>3. \A i \in checked .. read - 2 : i + 1 # read OBVIOUS
    <3>4. ASSUME NEW i \in checked .. read - 2, b[i] = "CR", b[i + 1] = "LF",
                 \A j \in checked .. i - 1 : ~Stop(b, j)
          PROVE  FALSE
      BY <2>5, <2>9, <3>3, <3>4
    <3> HIDE DEF p, stops
    <3> QED BY <2>3, <3>2, <3>4
  <2> QED BY <2>6, <2>7, <2>8, <2>9
<1> QED BY <1>2, <1>3

\* parse_line() cuts a line that ends at i.
CutsAt(b, checked, read, i) ==
    /\ checked <= i + 1 /\ i + 1 < read /\ parse_line(b, checked, read).checked = i + 2
    /\ b[i] = "CR" /\ b[i + 1] = "LF"
    /\ \A j \in checked .. i - 1 : ~Stop(b, j)
    /\ parse_line(b, checked, read).buf = [b EXCEPT ![i] = NUL, ![i + 1] = NUL]

\* What parse_line() does with a line end, and that it finds the first one.
LEMMA LineCut ==
    ASSUME NEW b \in Buffers, NEW checked \in Nat, NEW read \in Nat,
           checked <= read, read <= READ_BUFFER_SIZE, parse_line(b, checked, read).status = "OK"
    PROVE  \E i \in Nat : CutsAt(b, checked, read, i)
BY ParseLine DEF CutsAt

\* CR LF behind no other line end makes the line whole.
LEMMA LineFound ==
    ASSUME NEW b \in Buffers, NEW checked \in Nat, NEW read \in Nat,
           checked <= read, read <= READ_BUFFER_SIZE, NEW i \in checked .. read - 2,
           b[i] = "CR", b[i + 1] = "LF", \A j \in checked .. i - 1 : ~Stop(b, j)
    PROVE  parse_line(b, checked, read).status = "OK"
BY ParseLine

\* parse_line() checks more, never less, and only a whole line changes the buffer.
LEMMA LineKept ==
    ASSUME NEW b \in Buffers, NEW checked \in Nat, NEW read \in Nat,
           checked <= read, read <= READ_BUFFER_SIZE
    PROVE  /\ parse_line(b, checked, read).status \in {"OK", "OPEN", "BAD"}
           /\ parse_line(b, checked, read).checked \in checked .. read
           /\ parse_line(b, checked, read).status # "OK" => parse_line(b, checked, read).buf = b
BY ParseLine

\* The string from i on ends at the first NUL.
LEMMA TextIs ==
    ASSUME NEW b \in Buffers, NEW i \in Nat, NEW e \in i .. READ_BUFFER_SIZE,
           b[e] = NUL, \A j \in i .. e - 1 : b[j] # NUL
    PROVE  Text(b, i) = [k \in 1 .. e - i |-> b[i + k - 1]]
<1> DEFINE S == {j \in i .. READ_BUFFER_SIZE : b[j] = NUL}
<1>1. S \in SUBSET Nat /\ e \in S BY HttpAssumption
<1>2. Min(S) \in S /\ Min(S) <= e
  <2> HIDE DEF S
  <2> QED BY <1>1, MinNat
<1>3. Min(S) \notin i .. e - 1 BY <1>2
<1>4. Min(S) = e BY <1>2, <1>3, HttpAssumption
<1> QED BY <1>4 DEF Text

\* The first line is accepted if it has two words, and the right ones.
LEMMA LineText ==
    ASSUME NEW b \in Buffers, NEW e \in 0 .. READ_BUFFER_SIZE, EndsAt(b, e)
    PROVE  /\ parse_request_line(Text(b, 0)) = "NO_REQUEST"
                <=> e = 2 /\ parse_request_line(<<net.stream[1], net.stream[2]>>) = "NO_REQUEST"
           /\ e = 2 => Text(b, 0)[1] = net.stream[1] /\ Text(b, 0)[2] = net.stream[2]
<1>1. e \in Nat BY HttpAssumption
<1>2. Text(b, 0) = [k \in 1 .. e - 0 |-> b[0 + k - 1]]
  <2>1. 0 \in Nat /\ e \in 0 .. READ_BUFFER_SIZE /\ b[e] = NUL /\ \A j \in 0 .. e - 1 : b[j] # NUL
    BY DEF EndsAt
  <2> QED BY <2>1, TextIs
<1>3. Text(b, 0) = [k \in 1 .. e |-> b[k - 1]]
  <2>1. e - 0 = e /\ \A k \in 1 .. e : 0 + k - 1 = k - 1 BY <1>1
  <2> QED BY <1>2, <2>1
<1>4. Len(Text(b, 0)) = e BY <1>1, <1>3
<1>5. ASSUME e = 2 PROVE Text(b, 0)[1] = net.stream[1] /\ Text(b, 0)[2] = net.stream[2]
  <2>1. Text(b, 0)[1] = b[0] /\ Text(b, 0)[2] = b[1] BY <1>3, <1>5
  <2>2. b[0] = net.stream[0 + 1] /\ b[1] = net.stream[1 + 1] BY <1>5 DEF EndsAt
  <2> QED BY <2>1, <2>2
<1> DEFINE s == <<net.stream[1], net.stream[2]>>
<1>6. Len(s) = 2 /\ s[1] = net.stream[1] /\ s[2] = net.stream[2] OBVIOUS
<1> HIDE DEF s
<1>7. parse_request_line(Text(b, 0)) = "NO_REQUEST" <=> e = 2 /\ parse_request_line(s) = "NO_REQUEST"
  BY <1>4, <1>5, <1>6 DEF parse_request_line
<1> QED BY <1>5, <1>7 DEF s

\* The words of a good line are no line ends.
LEMMA GoodWords ==
    ASSUME parse_request_line(<<net.stream[1], net.stream[2]>>) = "NO_REQUEST"
    PROVE  /\ net.stream[1] \in {"GET", "POSE"} /\ net.stream[2] \in Targets
           /\ \A i \in 1 .. 2 : net.stream[i] \notin {"CR", "LF", NUL}
<1>1. net.stream[1] \in {"GET", "POSE"} /\ net.stream[2] \in Targets BY DEF parse_request_line
<1>2. net.stream[1] \notin {"CR", "LF", NUL} /\ net.stream[2] \notin {"CR", "LF", NUL}
  BY <1>1 DEF Targets, NUL
<1>3. \A i \in 1 .. 2 : i = 1 \/ i = 2 OBVIOUS
<1> QED BY <1>1, <1>2, <1>3

\* The buffer before the first call of process_read(), with k words.
Sent(b, k) == \A i \in 0 .. READ_BUFFER_SIZE : b[i] = IF i < k THEN net.stream[i + 1] ELSE NUL

\* A buffer that holds what was sent has a first NUL.
LEMMA FirstNul ==
    ASSUME NEW b \in Buffers, NEW n \in 0 .. READ_BUFFER_SIZE, b[n] = NUL
    PROVE  \E e \in 0 .. n : b[e] = NUL /\ \A i \in 0 .. e - 1 : b[i] # NUL
<1> DEFINE S == {i \in 0 .. n : b[i] = NUL}
<1>1. S \in SUBSET Nat /\ n \in S BY HttpAssumption
<1>2. PICK e \in S : \A i \in S : e <= i
  <2> HIDE DEF S
  <2> QED BY <1>1, LeastNat
<1>3. ASSUME NEW i \in 0 .. e - 1 PROVE b[i] # NUL
  <2>1. i \in 0 .. n /\ ~(e <= i) BY <1>2, HttpAssumption
  <2> QED BY <1>2, <2>1
<1> QED BY <1>2, <1>3

\* The first call finds no line end: the text is accepted exactly if the line is good.
LEMMA FreshText ==
    ASSUME HttpTypes, NEW n \in 1 .. READ_BUFFER_SIZE, Sent(buf, n), n <= READ_BUFFER_SIZE,
           past.first = IF n < 4 THEN n ELSE 4, parse_line(buf, 0, n).status # "OK"
    PROVE  \E e \in 0 .. READ_BUFFER_SIZE :
              /\ EndsAt(buf, e)
              /\ Good <=> e = 2 /\ parse_request_line(<<net.stream[1], net.stream[2]>>) = "NO_REQUEST"
<1> USE HttpAssumption
<1>1. buf \in Buffers /\ buf[READ_BUFFER_SIZE] = NUL BY DEF HttpTypes, Buffers
<1>2. n \in Nat /\ n \in 0 .. READ_BUFFER_SIZE /\ buf[n] = NUL
  BY <1>1 DEF Sent
<1>3. PICK e \in 0 .. n : buf[e] = NUL /\ \A i \in 0 .. e - 1 : buf[i] # NUL BY <1>1, <1>2, FirstNul
<1>4. e \in Nat /\ e <= n /\ e \in 0 .. READ_BUFFER_SIZE BY <1>2
<1>5. \A i \in 0 .. n - 1 : buf[i] = net.stream[i + 1] BY <1>2 DEF Sent
<1>6. EndsAt(buf, e) BY <1>3, <1>4, <1>5, <1>2 DEF EndsAt
<1> DEFINE Parses == parse_request_line(<<net.stream[1], net.stream[2]>>) = "NO_REQUEST"
<1>7. ASSUME e = 2, Parses PROVE Good
  <2>1. CASE n = 2 BY <1>7, <2>1 DEF Good, GoodLine
  <2>2. CASE n # 2
    <3>1. n > 2 BY <1>4, <1>7, <2>2
    <3>2. net.stream[3] = NUL BY <1>3, <1>5, <1>7, <3>1
    <3>3. past.first > 2 BY <3>1
    <3> QED BY <1>7, <3>2, <3>3 DEF Good, GoodLine
  <2> QED BY <2>1, <2>2
<1>8. ASSUME Good PROVE e = 2 /\ Parses
  <2>1. Parses BY <1>8 DEF Good, GoodLine
  <2>2. n >= 2 BY <1>2, <1>8 DEF Good
  <2>3. \A i \in 1 .. 2 : net.stream[i] \notin {"CR", "LF", NUL} BY <2>1, GoodWords
  <2>4. buf[0] = net.stream[1] /\ buf[1] = net.stream[2] BY <1>5, <2>2
  <2>5. buf[0] \notin {"CR", "LF", NUL} /\ buf[1] \notin {"CR", "LF", NUL} BY <2>3, <2>4
  <2>6. e # 0 /\ e # 1 BY <1>3, <2>5
  <2>7. CASE past.first = 2 BY <1>2, <1>4, <2>1, <2>6, <2>7
  <2>8. CASE past.first > 2 /\ net.stream[3] = NUL
    <3>1. n > 2 BY <1>2, <2>8
    <3>2. buf[2] = NUL BY <1>5, <2>8, <3>1
    <3>3. ~(e > 2) BY <1>3, <1>4, <3>2
    <3> QED BY <1>4, <2>1, <2>6, <3>3
  <2>9. CASE past.first > 3 /\ net.stream[3] = "CR" /\ net.stream[4] = "LF"
    <3>1. n >= 4 BY <1>2, <2>9
    <3>2. buf[2] = "CR" /\ buf[2 + 1] = "LF" BY <1>5, <2>9, <3>1
    <3>3. \A j \in 0 .. 2 - 1 : ~Stop(buf, j)
      <4>1. \A j \in 0 .. 2 - 1 : j = 0 \/ j = 1 OBVIOUS
      <4> QED BY <2>5, <4>1 DEF Stop
    <3>4. 2 \in 0 .. n - 2 /\ 0 \in Nat /\ 0 <= n BY <1>2, <3>1
    <3>5. parse_line(buf, 0, n).status = "OK" BY <1>1, <1>2, <3>2, <3>3, <3>4, LineFound
    <3> QED BY <3>5
  <2> QED BY <1>8, <2>1, <2>7, <2>8, <2>9 DEF Good, GoodLine
<1> QED BY <1>4, <1>6, <1>7, <1>8

\* The first call finds a line end: the line is cut there, or at a NUL before.
LEMMA FreshCut ==
    ASSUME HttpTypes, NEW n \in 1 .. READ_BUFFER_SIZE, Sent(buf, n),
           past.first = IF n < 4 THEN n ELSE 4, parse_line(buf, 0, n).status = "OK"
    PROVE  Cut(parse_line(buf, 0, n).buf, parse_line(buf, 0, n).checked)
<1> USE HttpAssumption
<1>1. buf \in Buffers /\ buf[READ_BUFFER_SIZE] = NUL BY DEF HttpTypes, Buffers
<1>2. n \in Nat /\ n \in 0 .. READ_BUFFER_SIZE /\ 0 \in Nat /\ 0 <= n OBVIOUS
<1> DEFINE b == parse_line(buf, 0, n).buf  c == parse_line(buf, 0, n).checked
<1>3. PICK i \in Nat : /\ i + 1 < n /\ c = i + 2 /\ buf[i] = "CR" /\ buf[i + 1] = "LF"
                       /\ \A j \in 0 .. i - 1 : ~Stop(buf, j)
                       /\ b = [buf EXCEPT ![i] = NUL, ![i + 1] = NUL]
  <2>1. n <= READ_BUFFER_SIZE /\ parse_line(buf, 0, n).status = "OK" BY <1>2
  <2>2. PICK i \in Nat : CutsAt(buf, 0, n, i) BY <1>1, <1>2, <2>1, LineCut
  <2> QED BY <2>2 DEF CutsAt
<1> HIDE DEF b, c
<1>4. /\ b \in Buffers /\ b[i] = NUL /\ b[i + 1] = NUL
      /\ \A j \in 0 .. i - 1 : b[j] = buf[j]
  BY <1>1, <1>2, <1>3 DEF Buffers, NUL
<1>5. \A j \in 0 .. n - 1 : buf[j] = net.stream[j + 1] BY <1>2 DEF Sent
<1>6. i \in 0 .. READ_BUFFER_SIZE BY <1>2, <1>3
<1>7. PICK e \in 0 .. i : b[e] = NUL /\ \A j \in 0 .. e - 1 : b[j] # NUL BY <1>4, <1>6, FirstNul
<1>8. e \in Nat /\ e <= i /\ e \in 0 .. c - 1 /\ c >= 2 /\ c - 1 = i + 1 BY <1>3
<1>9. EndsAt(b, e)
  <2> SUFFICES ASSUME NEW j \in 0 .. e - 1 PROVE b[j] # NUL /\ b[j] = net.stream[j + 1]
    BY <1>7 DEF EndsAt
  <2>1. j \in 0 .. i - 1 /\ j \in 0 .. n - 1 BY <1>2, <1>3, <1>8
  <2> QED BY <1>4, <1>5, <1>7, <2>1
<1> DEFINE Parses == parse_request_line(<<net.stream[1], net.stream[2]>>) = "NO_REQUEST"
<1>10. ASSUME e = 2, Parses PROVE Good
  <2>1. n >= 4 /\ past.first = 4 BY <1>2, <1>3, <1>8, <1>10
  <2>2. CASE i = 2
    <3>1. net.stream[3] = "CR" /\ net.stream[4] = "LF"
      <4>1. 2 \in 0 .. n - 1 /\ 3 \in 0 .. n - 1 BY <2>1, <1>2
      <4>2. buf[2] = net.stream[2 + 1] /\ buf[3] = net.stream[3 + 1] BY <1>5, <4>1
      <4> QED BY <1>3, <2>2, <4>2
    <3> QED BY <1>10, <2>1, <3>1 DEF Good, GoodLine
  <2>3. CASE i # 2
    <3>1. 2 \in 0 .. i - 1 /\ 2 \in 0 .. n - 1 BY <1>2, <1>3, <1>8, <1>10, <2>3
    <3>2. buf[2] = NUL /\ buf[2] = net.stream[2 + 1] BY <1>4, <1>5, <1>7, <1>10, <3>1
    <3>3. net.stream[3] = NUL BY <3>2
    <3> QED BY <1>10, <2>1, <3>3 DEF Good, GoodLine
  <2> QED BY <2>2, <2>3
<1>11. ASSUME Good PROVE e = 2 /\ Parses
  <2>1. Parses BY <1>11 DEF Good, GoodLine
  <2>2. n >= 2 BY <1>2, <1>11 DEF Good
  <2>3. \A j \in 1 .. 2 : net.stream[j] \notin {"CR", "LF", NUL} BY <2>1, GoodWords
  <2>4. buf[0] = net.stream[1] /\ buf[1] = net.stream[2] BY <1>5, <2>2
  <2>5. buf[0] \notin {"CR", "LF", NUL} /\ buf[1] \notin {"CR", "LF", NUL} BY <2>3, <2>4
  <2>6. i >= 2 BY <1>3, <2>5
  <2>7. b[0] = buf[0] /\ b[1] = buf[1] BY <1>4, <2>6
  <2>8. e >= 2 BY <1>7, <1>8, <2>5, <2>7
  <2>9. past.first # 2 BY <1>2, <1>3, <2>6
  <2>10. b[2] = NUL
    <3>1. n > 3 /\ buf[2] = net.stream[3] /\ buf[3] = net.stream[4]
      <4>1. n > 3 BY <1>2, <1>3, <2>6
      <4>2. 2 \in 0 .. n - 1 /\ 3 \in 0 .. n - 1 BY <4>1, <1>2
      <4>3. buf[2] = net.stream[2 + 1] /\ buf[3] = net.stream[3 + 1] BY <1>5, <4>2
      <4> QED BY <4>1, <4>3
    <3>2. CASE net.stream[3] = NUL
      <4>1. i # 2 BY <1>3, <3>1, <3>2 DEF NUL
      <4>2. 2 \in 0 .. i - 1 BY <2>6, <4>1
      <4> QED BY <1>4, <3>1, <3>2, <4>2
    <3>3. CASE net.stream[3] = "CR" /\ net.stream[4] = "LF"
      <4>1. 2 \notin 0 .. i - 1 BY <1>3, <3>1, <3>3 DEF Stop
      <4>2. i = 2 BY <2>6, <4>1
      <4> QED BY <1>4, <4>2
    <3> QED BY <1>11, <2>9, <3>2, <3>3 DEF Good, GoodLine
  <2>11. ~(e > 2) BY <1>7, <1>8, <2>10
  <2> QED BY <1>8, <2>1, <2>8, <2>11
<1>12. Cut(b, c) BY <1>4, <1>8, <1>9, <1>10, <1>11 DEF Cut
<1> QED BY <1>12 DEF b, c

\* Later calls leave the line as it is.
LEMMA CutAgain ==
    ASSUME HttpTypes, NEW checked \in Nat, NEW read \in Nat, checked <= read,
           read <= READ_BUFFER_SIZE, Cut(buf, checked), parse_line(buf, checked, read).status = "OK"
    PROVE  Cut(parse_line(buf, checked, read).buf, parse_line(buf, checked, read).checked)
<1> USE HttpAssumption
<1>1. buf \in Buffers BY DEF HttpTypes, Buffers
<1> DEFINE b == parse_line(buf, checked, read).buf  c == parse_line(buf, checked, read).checked
<1>2. PICK e \in 0 .. checked - 1 :
         /\ EndsAt(buf, e)
         /\ Good <=> e = 2 /\ parse_request_line(<<net.stream[1], net.stream[2]>>) = "NO_REQUEST"
  BY DEF Cut
<1>3. checked >= 2 /\ buf[checked - 1] = NUL BY DEF Cut
<1>4. PICK i \in Nat : /\ checked <= i + 1 /\ i + 1 < read /\ c = i + 2
                       /\ buf[i] = "CR" /\ b = [buf EXCEPT ![i] = NUL, ![i + 1] = NUL]
  <2>1. PICK i \in Nat : CutsAt(buf, checked, read, i) BY <1>1, LineCut
  <2> QED BY <2>1 DEF CutsAt
<1> HIDE DEF b, c
<1>5. i # checked - 1 BY <1>3, <1>4 DEF NUL
<1>6. i >= checked BY <1>4, <1>5
<1>7. b[i + 1] = NUL /\ \A j \in 0 .. checked - 1 : b[j] = buf[j] BY <1>1, <1>4, <1>6 DEF Buffers
<1>8. EndsAt(b, e)
  <2>1. \A j \in 0 .. e - 1 : j \in 0 .. checked - 1 OBVIOUS
  <2>2. b[e] = NUL BY <1>2, <1>7 DEF EndsAt
  <2>3. \A j \in 0 .. e - 1 : b[j] # NUL /\ b[j] = net.stream[j + 1] BY <1>2, <1>7, <2>1 DEF EndsAt
  <2> QED BY <2>2, <2>3 DEF EndsAt
<1>9. c - 1 = i + 1 /\ c >= 2 /\ e \in 0 .. c - 1 BY <1>4, <1>6
<1>10. Cut(b, c) BY <1>2, <1>7, <1>8, <1>9 DEF Cut
<1> QED BY <1>10 DEF b, c

-----------------------------------------------------------------------------
(* The rest of process() *)

\* The members that only the parser changes.
Parser(h) == <<h.read_idx, h.checked_idx, h.start_line, h.check_state, h.content_length, h.linger,
               h.cgi, h.url>>

\* The members when the parser is done: nothing is being sent.
Ready(h) ==
    /\ h \in Members /\ h.to_send = 0 /\ h.have_send = 0 /\ h.iov_count <= 1
    /\ 0 <= h.start_line /\ h.start_line <= h.checked_idx
    /\ h.checked_idx <= h.read_idx /\ h.read_idx <= READ_BUFFER_SIZE

\* A response that carries a file is not empty.
LEMMA AtLeastOne == ASSUME NEW a \in Int, NEW b \in Nat, b # 0, a >= b PROVE a > 0
OBVIOUS

\* A response has a header, of some length.
LEMMA HeaderLength ==
    ASSUME NEW w \in Nat
    PROVE  add_headers(add_response(w)) \in Nat /\ add_response(add_headers(add_response(w))) \in Nat
<1>1. \A v \in Nat : add_response(v) \in Nat BY HttpAssumption DEF add_response
<1> HIDE DEF add_response
<1> QED BY <1>1 DEF add_headers

\* The response of an error.
LEMMA ErrorIs ==
    ASSUME NEW h \in Members
    PROVE  LET g == ErrorResponse(h)
           IN  /\ g \in Members /\ Parser(g) = Parser(h)
               /\ g.iov_count = 1 /\ g.have_send = h.have_send /\ g.to_send >= 0
               /\ g.iov[0][1] = 0 /\ g.iov[0][2] = g.to_send
               /\ g.address = h.address /\ g.st_size = h.st_size
<1>1. h.write_idx \in Nat /\ h.iov[1] \in Int \X Int BY DEF Members
<1>2. PICK w \in Nat : w = add_response(add_headers(add_response(h.write_idx))) BY <1>1, HeaderLength
<1>3. PICK v : v = Iov(<<0, w>>, h.iov[1]) OBVIOUS
<1>4. v \in [0 .. 1 -> Int \X Int] /\ v[0] = <<0, w>> BY <1>1, <1>3 DEF Iov
<1>5. ErrorResponse(h) = [h EXCEPT !.write_idx = w, !.iov = v, !.iov_count = 1, !.to_send = w]
  BY <1>2, <1>3 DEF ErrorResponse
<1>6. w \in Int /\ 1 \in Nat OBVIOUS
<1>7. [h EXCEPT !.write_idx = w, !.iov = v, !.iov_count = 1, !.to_send = w] \in Members
  BY <1>4, <1>6 DEF Members
<1> QED BY <1>4, <1>5, <1>7 DEF Members, Parser

\* The response of a file.
LEMMA FileIs ==
    ASSUME NEW h \in Members
    PROVE  LET g == FileResponse(h)
           IN  /\ g \in Members /\ Parser(g) = Parser(h)
               /\ g.iov_count = h.iov_count /\ g.have_send = h.have_send /\ g.to_send >= h.st_size
               /\ g.iov[0][1] = 0 /\ g.iov[0][2] <= g.to_send
               /\ g.address = h.address /\ g.st_size = h.st_size
<1>1. h.write_idx \in Nat /\ h.st_size \in Nat BY DEF Members
<1>2. PICK w \in Nat : w = add_headers(add_response(h.write_idx)) BY <1>1, HeaderLength
<1>3. PICK v : v = Iov(<<0, w>>, <<w, h.st_size>>) OBVIOUS
<1>4. v \in [0 .. 1 -> Int \X Int] /\ v[0] = <<0, w>> BY <1>1, <1>3 DEF Iov
<1>5. FileResponse(h) = [h EXCEPT !.write_idx = w, !.to_send = w + h.st_size, !.iov = v]
  BY <1>2, <1>3 DEF FileResponse
<1>6. w + h.st_size \in Int BY <1>1
<1>7. [h EXCEPT !.write_idx = w, !.to_send = w + h.st_size, !.iov = v] \in Members
  BY <1>4, <1>6 DEF Members
<1> QED BY <1>1, <1>4, <1>5, <1>7 DEF Members, Parser

\* process() waits, answers or closes; what it answers with is sent from its first byte.
LEMMA AnswerStep ==
    ASSUME HttpInv, pc = "parse", NEW h, Ready(h), NEW code, Answer(code, h),
           got' = <<>>, how' = how, net' = net, line_status' \in {"OK", "OPEN", "BAD"},
           buf' \in Buffers, buf'[READ_BUFFER_SIZE] = NUL,
           past' \in Histories, past'.wrong = past.wrong, past'.mapper <= past'.conn,
           code = "FILE_REQUEST" /\ h.st_size # 0 => past'.answer \in {"file", "big"},
           past'.mapper = past'.conn /\ h.address # 0 =>
               h.address = h.st_size + 1 /\ code = "FILE_REQUEST",
           code = "NO_REQUEST" => (h.check_state # "REQUESTLINE" => h.url \in Targets),
           code = "NO_REQUEST" /\ hc' = h /\ pc' = "wait" => HttpParsing', HttpAnswersRequest'
    PROVE  HttpInv'
<1> USE HttpAssumption
<1> DEFINE errors == {"INTERNAL_ERROR", "BAD_REQUEST", "FORBIDDEN_REQUEST"}
<1>1. HttpTypes BY DEF HttpInv
<1>2. h \in Members /\ h.st_size \in Nat /\ h.to_send = 0 /\ h.have_send = 0 /\ h.iov_count <= 1
  BY DEF Ready, Members
<1>3. got' \in Seq(Int) /\ Len(got') = 0 /\ HttpSentInOrder'
  <2>1. got' \in Seq(Int) OBVIOUS
  <2>2. Len(got') = 0 OBVIOUS
  <2>3. HttpSentInOrder' BY DEF HttpSentInOrder
  <2> QED BY <2>1, <2>2, <2>3
<1>4. HttpUnmapsWhatItMapped' BY DEF HttpInv, HttpUnmapsWhatItMapped
\* What all the ways out have in common.
<1>5. ASSUME hc' \in Members, Parser(hc') = Parser(h), armed' \in {"no", "IN", "OUT"},
             pc' \in {"wait", "closed"}
      PROVE  HttpTypes' /\ HttpIndexesOrdered'
  <2>1. HttpTypes' BY <1>1, <1>3, <1>5 DEF HttpTypes, Buffers
  <2>2. /\ hc'.start_line = h.start_line /\ hc'.checked_idx = h.checked_idx
        /\ hc'.read_idx = h.read_idx
    BY <1>5 DEF Parser
  <2> QED BY <2>1, <2>2 DEF Ready, HttpIndexesOrdered
<1>6. CASE code = "NO_REQUEST"
  <2>1. armed' = "IN" /\ pc' = "wait" /\ hc' = h BY <1>6 DEF Answer
  <2>2. HttpTypes' /\ HttpIndexesOrdered' BY <1>2, <1>5, <2>1
  <2>3. HttpTurns' BY <1>2, <1>6, <2>1 DEF HttpTurns
  <2>4. HttpSending' BY <1>2, <2>1 DEF HttpSending
  <2>5. HttpMapped' BY <1>6, <2>1 DEF HttpMapped
  <2> QED BY <1>3, <1>4, <1>6, <2>1, <2>2, <2>3, <2>4, <2>5 DEF HttpInv
<1>7. CASE code \in errors
  <2>1. armed' = "OUT" /\ pc' = "wait" /\ hc' = ErrorResponse(h) BY <1>7 DEF Answer
  <2>2. /\ hc' \in Members /\ Parser(hc') = Parser(h)
        /\ hc'.iov_count = 1 /\ hc'.have_send = 0 /\ hc'.to_send >= 0
        /\ hc'.iov[0][1] = 0 /\ hc'.iov[0][2] = hc'.to_send
        /\ hc'.address = h.address /\ hc'.st_size = h.st_size
    BY <1>2, <2>1, ErrorIs
  <2>3. HttpTypes' /\ HttpIndexesOrdered' BY <1>5, <2>1, <2>2
  <2>4. ~Idle' BY <2>1 DEF Idle
  <2>5. HttpTurns' BY <2>1, <2>4 DEF HttpTurns
  <2>6. HttpSending'
    <3>1. hc'.to_send \in Int BY <2>2 DEF Members
    <3> QED BY <1>3, <2>2, <3>1 DEF HttpSending
  <2>7. HttpMapped' BY <1>7, <2>2 DEF HttpMapped
  <2>8. HttpParsing' BY <2>4 DEF HttpParsing
  <2> QED BY <1>3, <1>4, <2>3, <2>5, <2>6, <2>7, <2>8 DEF HttpInv
<1>8. CASE code = "FILE_REQUEST" /\ h.st_size # 0
  <2>1. armed' = "OUT" /\ pc' = "wait" /\ hc' = FileResponse(h) BY <1>8 DEF Answer
  <2>2. /\ hc' \in Members /\ Parser(hc') = Parser(h)
        /\ hc'.iov_count <= 1 /\ hc'.have_send = 0 /\ hc'.to_send >= h.st_size
        /\ hc'.iov[0][1] = 0 /\ hc'.iov[0][2] <= hc'.to_send
        /\ hc'.address = h.address /\ hc'.st_size = h.st_size
    BY <1>2, <2>1, FileIs
  <2>3. HttpTypes' /\ HttpIndexesOrdered' BY <1>5, <2>1, <2>2
  <2>4. ~Idle' BY <2>1 DEF Idle
  <2>5. HttpTurns' BY <2>1, <2>4 DEF HttpTurns
  <2>6. hc'.to_send \in Int /\ hc'.to_send > 0
    <3>1. hc'.to_send \in Int BY <2>2 DEF Members
    <3>2. h.st_size \in Nat /\ h.st_size # 0 /\ hc'.to_send >= h.st_size BY <1>2, <1>8, <2>2
    <3> QED BY <3>1, <3>2, AtLeastOne
  <2>7. HttpSending'
    <3>1. past'.answer \in {"file", "big"} BY <1>8
    <3>2. hc'.have_send = Len(got') /\ hc'.iov[0][1] = hc'.have_send BY <1>3, <2>2
    <3> QED BY <2>2, <2>6, <3>1, <3>2 DEF HttpSending
  <2>8. HttpMapped' BY <2>2, <2>6 DEF HttpMapped
  <2>9. HttpParsing' BY <2>4 DEF HttpParsing
  <2> QED BY <1>3, <1>4, <2>3, <2>5, <2>7, <2>8, <2>9 DEF HttpInv
<1>9. CASE ~(code = "NO_REQUEST") /\ ~(code \in errors) /\ ~(code = "FILE_REQUEST" /\ h.st_size # 0)
  <2>1. armed' = "no" /\ pc' = "closed" /\ hc' = h BY <1>9 DEF Answer
  <2>2. HttpTypes' /\ HttpIndexesOrdered' BY <1>2, <1>5, <2>1
  <2>3. ~Idle' /\ ~Alive' BY <2>1 DEF Idle, Alive
  <2>4. HttpTurns' /\ HttpParsing' BY <2>1, <2>3 DEF HttpTurns, HttpParsing
  <2>5. HttpSending' BY <1>2, <2>1, <2>3 DEF HttpSending
  <2>6. HttpMapped' BY <2>3 DEF HttpMapped
  <2> QED BY <1>3, <1>4, <2>2, <2>4, <2>5, <2>6 DEF HttpInv
<1> QED BY <1>6, <1>7, <1>8, <1>9

\* The loop of process_read() goes on.
LEMMA LoopStep ==
    ASSUME HttpInv, pc = "parse", Ready(hc'), hc'.address = hc.address, hc'.st_size = hc.st_size,
           got' = <<>>, how' = how, net' = net, armed' = armed, pc' = pc, past' = past,
           line_status' \in {"OK", "OPEN", "BAD"}, buf' \in Buffers, buf'[READ_BUFFER_SIZE] = NUL,
           hc'.check_state # "REQUESTLINE", hc'.url \in Targets, HttpParsing'
    PROVE  HttpInv'
<1>1. HttpTypes BY DEF HttpInv
<1>2. got' \in Seq(Int) OBVIOUS
<1>3. HttpTypes' BY <1>1, <1>2 DEF HttpTypes, Buffers, Ready
<1>4. HttpIndexesOrdered' BY DEF HttpIndexesOrdered, Ready
<1>5. HttpTurns' BY DEF HttpTurns, Ready
<1>6. HttpSending' BY DEF HttpSending, Ready
<1>7. HttpSentInOrder' BY DEF HttpSentInOrder
<1>8. HttpMapped'
  <2>1. Alive /\ hc.to_send = 0 BY DEF Alive, HttpInv, HttpTurns, Idle
  <2> QED BY <2>1 DEF HttpInv, HttpMapped
<1>9. HttpUnmapsWhatItMapped' /\ HttpAnswersRequest'
  BY DEF HttpInv, HttpUnmapsWhatItMapped, HttpAnswersRequest, GoodLine
<1> QED BY <1>3, <1>4, <1>5, <1>6, <1>7, <1>8, <1>9 DEF HttpInv
-----------------------------------------------------------------------------
(* do_request() and process_read() *)

\* A target names one of six pages, and only two of them are sent.
LEMMA PageIs ==
    ASSUME NEW h, h.url \in Targets
    PROVE  /\ PageOf(h) \in {"file", "big", "gone", "secret", "dir", "empty"}
           /\ CodeOf(PageOf(h)) \in {"NO_RESOURCE", "FORBIDDEN_REQUEST", "BAD_REQUEST", "FILE_REQUEST"}
           /\ CodeOf(PageOf(h)) = "FILE_REQUEST" => PageOf(h) \in {"file", "big", "empty"}
<1>1. PageOf(h) \in {"file", "big", "gone", "secret", "dir", "empty"} BY DEF PageOf, Targets
<1> QED BY <1>1 DEF CodeOf

\* stat() and mmap() go together.
LEMMA DoRequest ==
    ASSUME NEW h \in Members, h.url \in Targets
    PROVE  LET g == do_request(h)
           IN  /\ g \in Members /\ Parser(g) = Parser(h)
               /\ g.to_send = h.to_send /\ g.have_send = h.have_send /\ g.iov_count = h.iov_count
               /\ CodeOf(PageOf(h)) = "FILE_REQUEST" => g.address = g.st_size + 1
               /\ CodeOf(PageOf(h)) = "FILE_REQUEST" /\ g.st_size # 0 => PageOf(h) \in {"file", "big"}
               /\ CodeOf(PageOf(h)) # "FILE_REQUEST" => g.address = h.address
<1>1. PICK page : page = PageOf(h) OBVIOUS
<1>2. page \in {"file", "big", "gone", "secret", "dir", "empty"} BY <1>1, PageIs
<1>3. h.st_size \in Nat /\ h.address \in Int BY DEF Members
<1>4. PICK s : s = IF page = "gone" THEN h.st_size ELSE SizeOf[page] OBVIOUS
<1>5. s \in Nat /\ (page = "empty" => s = 0)
  <2>1. /\ SizeOf["file"] = 2 /\ SizeOf["big"] = 6 /\ SizeOf["secret"] = 3 /\ SizeOf["dir"] = 1
        /\ SizeOf["empty"] = 0
    BY DEF SizeOf
  <2> QED BY <1>2, <1>3, <1>4, <2>1
<1>6. PICK a : a = IF CodeOf(page) = "FILE_REQUEST" THEN s + 1 ELSE h.address OBVIOUS
<1>7. a \in Int BY <1>3, <1>5, <1>6
<1>8. do_request(h) = [h EXCEPT !.st_size = s, !.address = a] BY <1>1, <1>4, <1>6 DEF do_request
<1>9. [h EXCEPT !.st_size = s, !.address = a] \in Members BY <1>5, <1>7 DEF Members
<1>10. do_request(h).st_size = s /\ do_request(h).address = a BY <1>8 DEF Members
<1>11. CodeOf(page) = "FILE_REQUEST" => page \in {"file", "big", "empty"} BY <1>1, PageIs
<1>12. /\ Parser(do_request(h)) = Parser(h) /\ do_request(h).to_send = h.to_send
       /\ do_request(h).have_send = h.have_send /\ do_request(h).iov_count = h.iov_count
  BY <1>8 DEF Members, Parser
<1> QED BY <1>1, <1>5, <1>6, <1>8, <1>9, <1>10, <1>11, <1>12

\* The request is answered by what it names.
LEMMA ServeStep ==
    ASSUME HttpInv, pc = "parse", hc.check_state # "REQUESTLINE", NEW h, Ready(h), Serve(h),
           h.url = hc.url, h.cgi = hc.cgi, h.address = hc.address, h.st_size = hc.st_size,
           got' = <<>>, how' = how, net' = net, line_status' \in {"OK", "OPEN", "BAD"},
           buf' \in Buffers, buf'[READ_BUFFER_SIZE] = NUL
    PROVE  HttpInv'
<1>1. HttpTypes /\ past \in Histories BY DEF HttpInv, HttpTypes
<1>2. Idle /\ Alive BY DEF Idle, Alive
<1>3. h.url \in Targets /\ h \in Members BY <1>2 DEF HttpInv, HttpTurns, Ready
<1>4. ~(past.mapper = past.conn /\ hc.address # 0) BY <1>2 DEF HttpInv, HttpMapped, HttpTurns
<1>5. past.mapper <= past.conn /\ past.mapper \in Nat /\ past.conn \in Nat
  BY <1>1 DEF HttpInv, HttpMapped, Histories
<1>6. CASE ReadsNull(h)
  <2>1. pc' = "crashed" /\ hc' = h /\ armed' = armed /\ past' = past BY <1>6 DEF Serve
  <2>2. HttpTypes'
    <3>1. got' \in Seq(Int) OBVIOUS
    <3> QED BY <1>1, <1>3, <2>1, <3>1 DEF HttpTypes, Buffers
  <2>3. HttpIndexesOrdered' BY <2>1 DEF HttpIndexesOrdered
  <2>4. ~Idle' /\ ~Alive' BY <2>1 DEF Idle, Alive
  <2>5. HttpTurns' /\ HttpParsing' BY <2>1, <2>4 DEF HttpTurns, HttpParsing
  <2>6. HttpSending' BY <2>1, <2>4 DEF HttpSending, Ready
  <2>7. HttpSentInOrder' BY DEF HttpSentInOrder
  <2>8. HttpMapped' BY <2>1, <2>4 DEF HttpInv, HttpMapped
  <2>9. HttpUnmapsWhatItMapped' /\ HttpAnswersRequest'
    BY <2>1 DEF HttpInv, HttpUnmapsWhatItMapped, HttpAnswersRequest, GoodLine
  <2> QED BY <2>2, <2>3, <2>5, <2>6, <2>7, <2>8, <2>9 DEF HttpInv
<1>7. CASE ~ReadsNull(h)
  <2>1. PICK page, code, g : page = PageOf(h) /\ code = CodeOf(page) /\ g = do_request(h) OBVIOUS
  <2>2. /\ Answer(code, g)
        /\ past' = [past EXCEPT !.answer = page,
                                !.mapper = IF code = "FILE_REQUEST" THEN past.conn ELSE past.mapper]
    BY <1>7, <2>1 DEF Serve
  <2>3. /\ page \in {"file", "big", "gone", "secret", "dir", "empty"}
        /\ code \in {"NO_RESOURCE", "FORBIDDEN_REQUEST", "BAD_REQUEST", "FILE_REQUEST"}
    BY <1>3, <2>1, PageIs
  <2>4. /\ g \in Members /\ Parser(g) = Parser(h)
        /\ g.to_send = h.to_send /\ g.have_send = h.have_send /\ g.iov_count = h.iov_count
        /\ code = "FILE_REQUEST" => g.address = g.st_size + 1
        /\ code = "FILE_REQUEST" /\ g.st_size # 0 => page \in {"file", "big"}
        /\ code # "FILE_REQUEST" => g.address = h.address
    BY <1>3, <2>1, DoRequest
  <2>5. Ready(g)
    <3>1. g.start_line = h.start_line /\ g.checked_idx = h.checked_idx /\ g.read_idx = h.read_idx
      BY <2>4 DEF Parser
    <3> QED BY <2>4, <3>1 DEF Ready
  <2>6. PICK m : m = IF code = "FILE_REQUEST" THEN past.conn ELSE past.mapper OBVIOUS
  <2>7. past' = [conn |-> past.conn, first |-> past.first, shorts |-> past.shorts, answer |-> page,
                 mapper |-> m, wrong |-> past.wrong]
    BY <1>1, <2>2, <2>6 DEF Histories
  <2>8. past' \in Histories
    <3>1. page \in Words /\ m \in Nat
      <4>1. page \in Words
        <5>1. page \in Targets BY <2>3 DEF Targets
        <5> QED BY <5>1 DEF Words
      <4> QED BY <1>5, <2>6, <4>1
    <3>2. past.conn \in Nat /\ past.first \in Int /\ past.shorts \in Nat /\ past.wrong \in BOOLEAN
      BY <1>1 DEF Histories
    <3> QED BY <2>7, <3>1, <3>2 DEF Histories
  <2>9. /\ past'.conn = past.conn /\ past'.first = past.first /\ past'.answer = page /\ past'.mapper = m
        /\ past'.wrong = past.wrong
    BY <2>7
  <2>10. past'.mapper <= past'.conn BY <1>5, <2>6, <2>9
  <2>11. past'.mapper = past'.conn /\ g.address # 0 => g.address = g.st_size + 1 /\ code = "FILE_REQUEST"
    BY <1>4, <2>4, <2>6, <2>9
  <2>12. HttpAnswersRequest'
    <3> SUFFICES ASSUME past'.first > 0
                 PROVE  /\ past'.first > 1 /\ GoodLine(net'.stream, past'.first)
                        /\ past'.answer = PageOf([url |-> net'.stream[2],
                                                  cgi |-> IF net'.stream[1] = "POSE" THEN 1 ELSE 0])
      BY DEF HttpAnswersRequest
    <3>1. /\ Good /\ hc.url = net.stream[2] /\ hc.cgi = IF net.stream[1] = "POSE" THEN 1 ELSE 0
      BY <1>2, <2>9 DEF HttpInv, HttpParsing
    <3>2. PICK q : q = [url |-> net.stream[2], cgi |-> IF net.stream[1] = "POSE" THEN 1 ELSE 0] OBVIOUS
    <3>3. q.url = h.url /\ q.cgi = h.cgi BY <3>1, <3>2
    <3>4. PageOf(q) = page BY <2>1, <3>3 DEF PageOf
    <3> QED BY <2>9, <3>1, <3>2, <3>4 DEF Good
  <2>13. code # "NO_REQUEST" BY <2>3
  <2>14. code = "FILE_REQUEST" /\ g.st_size # 0 => past'.answer \in {"file", "big"} BY <2>4, <2>9
  <2> QED BY <2>2, <2>5, <2>8, <2>9, <2>10, <2>11, <2>12, <2>13, <2>14, AnswerStep
<1> QED BY <1>6, <1>7
\* The members of the object in a round of the loop.
LEMMA RoundReady ==
    ASSUME HttpInv, pc = "parse", NEW checked \in Int, hc.checked_idx <= checked, checked <= hc.read_idx
    PROVE  LET h == [hc EXCEPT !.checked_idx = checked, !.start_line = checked]
           IN  /\ Ready(h) /\ h.check_state = hc.check_state /\ h.content_length = hc.content_length
               /\ h.cgi = hc.cgi /\ h.url = hc.url /\ h.address = hc.address /\ h.st_size = hc.st_size
               /\ h.checked_idx = checked /\ h.start_line = checked /\ h.read_idx = hc.read_idx
<1>1. hc \in Members BY DEF HttpInv, HttpTypes
<1>2. PICK h : h = [hc EXCEPT !.checked_idx = checked, !.start_line = checked] OBVIOUS
<1>3. [hc EXCEPT !.checked_idx = checked, !.start_line = checked] \in Members BY <1>1 DEF Members
<1>4. /\ h.check_state = hc.check_state /\ h.content_length = hc.content_length
      /\ h.cgi = hc.cgi /\ h.url = hc.url /\ h.address = hc.address /\ h.st_size = hc.st_size
      /\ h.checked_idx = checked /\ h.start_line = checked /\ h.read_idx = hc.read_idx
      /\ h.to_send = hc.to_send /\ h.have_send = hc.have_send /\ h.iov_count = hc.iov_count
  BY <1>1, <1>2 DEF Members
<1>5. hc.to_send = 0 /\ hc.have_send = 0 /\ hc.iov_count <= 1
  BY DEF HttpInv, HttpTurns, HttpSending, Idle
<1>6. /\ 0 <= hc.start_line /\ hc.start_line <= hc.checked_idx /\ hc.read_idx <= READ_BUFFER_SIZE
      /\ hc.start_line \in Int /\ hc.checked_idx \in Int /\ hc.read_idx \in Int
  BY <1>1 DEF HttpInv, HttpIndexesOrdered, Members
<1>7. 0 <= checked BY <1>6
<1>8. Ready(h) BY <1>2, <1>3, <1>4, <1>5, <1>6, <1>7 DEF Ready
<1> QED BY <1>2, <1>4, <1>8

\* The first line of the buffer is good if what the client sent begins with a good line.
LineIs(b) ==
    past.first > 0 => \E e \in 0 .. READ_BUFFER_SIZE :
        /\ EndsAt(b, e)
        /\ Good <=> e = 2 /\ parse_request_line(<<net.stream[1], net.stream[2]>>) = "NO_REQUEST"

\* The round that parses the request line.
LEMMA RequestLineStep ==
    ASSUME HttpInv, pc = "parse", hc.check_state = "REQUESTLINE",
           NEW b \in Buffers, b[READ_BUFFER_SIZE] = NUL, NEW checked \in Int,
           hc.checked_idx <= checked, checked <= hc.read_idx, Body(b, checked), LineIs(b),
           got' = <<>>, how' = how, net' = net
    PROVE  HttpInv'
<1> USE HttpAssumption
<1>1. Idle BY DEF Idle
<1>2. hc.start_line = 0 /\ hc.cgi = 0 BY <1>1 DEF HttpInv, HttpParsing
<1>3. PICK text : text = Text(b, 0) OBVIOUS
<1>4. PICK h : h = [hc EXCEPT !.checked_idx = checked, !.start_line = checked] OBVIOUS
<1>5. /\ Ready(h) /\ h.cgi = 0 /\ h.address = hc.address /\ h.st_size = hc.st_size
  BY <1>2, <1>4, RoundReady
<1>6. line_status' = line_status /\ line_status \in {"OK", "OPEN", "BAD"} /\ past \in Histories
  BY DEF Body, HttpInv, HttpTypes
<1>7. past.first > 0 =>
        /\ parse_request_line(text) = "NO_REQUEST" <=> Good
        /\ Good => text[1] = net.stream[1] /\ text[2] = net.stream[2]
  BY <1>3, LineText DEF LineIs
<1>8. parse_request_line(text) \in {"NO_REQUEST", "BAD_REQUEST"} BY DEF parse_request_line
<1>9. past.mapper <= past.conn /\ ~(past.mapper = past.conn /\ hc.address # 0)
  BY <1>1 DEF HttpInv, HttpMapped, HttpTurns, Alive
<1>10. CASE parse_request_line(text) = "BAD_REQUEST"
  <2>1. buf' = b /\ Answer("BAD_REQUEST", h) /\ past' = [past EXCEPT !.answer = "bad"]
    BY <1>2, <1>3, <1>4, <1>10 DEF Body
  <2>2. past' = [conn |-> past.conn, first |-> past.first, shorts |-> past.shorts, answer |-> "bad",
                 mapper |-> past.mapper, wrong |-> past.wrong]
    BY <1>6, <2>1 DEF Histories
  <2>3. past' \in Histories
    <3>1. "bad" \in Words BY DEF Words
    <3>2. /\ past.conn \in Nat /\ past.first \in Int /\ past.shorts \in Nat /\ past.mapper \in Nat
          /\ past.wrong \in BOOLEAN
      BY <1>6 DEF Histories
    <3> QED BY <2>2, <3>1, <3>2 DEF Histories
  <2>4. /\ past'.conn = past.conn /\ past'.first = past.first /\ past'.answer = "bad"
        /\ past'.mapper = past.mapper /\ past'.wrong = past.wrong
    BY <2>2
  <2>5. HttpAnswersRequest'
    <3>1. past.first > 0 => ~Good BY <1>7, <1>10
    <3>2. past'.first > 0 => ~(past'.first > 1 /\ GoodLine(net'.stream, past'.first))
      BY <2>4, <3>1 DEF Good
    <3> QED BY <2>4, <3>2 DEF HttpAnswersRequest
  <2>6. PICK code : code = "BAD_REQUEST" OBVIOUS
  <2>7. Answer(code, h) /\ code # "NO_REQUEST" /\ code # "FILE_REQUEST" BY <2>1, <2>6
  <2>8. past'.mapper <= past'.conn BY <1>9, <2>4
  <2>9. ~(past'.mapper = past'.conn /\ h.address # 0) BY <1>5, <1>9, <2>4
  <2> QED BY <1>5, <1>6, <2>1, <2>3, <2>4, <2>5, <2>7, <2>8, <2>9, AnswerStep
<1>11. CASE parse_request_line(text) = "NO_REQUEST"
  <2>1. Len(text) = 2 /\ text[1] \in {"GET", "POSE"} /\ text[2] \in Targets
    BY <1>11 DEF parse_request_line
  <2>2. /\ buf' = JudgePage(b, 0) /\ armed' = armed /\ pc' = pc /\ past' = past
        /\ hc' = [h EXCEPT !.check_state = "HEADER", !.url = text[2],
                           !.cgi = IF text[1] = "POSE" THEN 1 ELSE h.cgi]
    BY <1>2, <1>3, <1>4, <1>11 DEF Body
  <2>3. PICK c \in {0, 1} : c = IF text[1] = "POSE" THEN 1 ELSE h.cgi BY <1>5
  <2>4. PICK u \in Targets : u = text[2] BY <2>1
  <2>5. hc' = [h EXCEPT !.check_state = "HEADER", !.url = u, !.cgi = c] BY <2>2, <2>3, <2>4
  <2>6. Ready(hc') /\ hc'.check_state = "HEADER" /\ hc'.url = u /\ hc'.cgi = c
        /\ hc'.address = h.address /\ hc'.st_size = h.st_size
    <3>1. h \in Members BY <1>5 DEF Ready
    <3>2. [h EXCEPT !.check_state = "HEADER", !.url = u, !.cgi = c] \in Members BY <3>1 DEF Members
    <3>3. /\ hc'.check_state = "HEADER" /\ hc'.url = u /\ hc'.cgi = c
          /\ hc'.address = h.address /\ hc'.st_size = h.st_size
          /\ hc'.to_send = h.to_send /\ hc'.have_send = h.have_send /\ hc'.iov_count = h.iov_count
          /\ hc'.start_line = h.start_line /\ hc'.checked_idx = h.checked_idx /\ hc'.read_idx = h.read_idx
      BY <2>5, <3>1 DEF Members
    <3> QED BY <1>5, <2>5, <3>2, <3>3 DEF Ready
  <2>7. buf' \in Buffers /\ buf'[READ_BUFFER_SIZE] = NUL
    <3>1. "l" \in Words /\ NUL \in Words BY DEF Words
    <3>2. buf' = b \/ buf' = [b EXCEPT ![2] = "l", ![3] = NUL] BY <2>2 DEF JudgePage
    <3>3. PICK w \in Words : w = "l" BY <3>1
    <3>4. PICK d : d = [b EXCEPT ![2] = w, ![3] = NUL] OBVIOUS
    <3>5. d \in Buffers BY <3>1, <3>4 DEF Buffers
    <3>6. READ_BUFFER_SIZE \in 0 .. READ_BUFFER_SIZE /\ READ_BUFFER_SIZE # 2 /\ READ_BUFFER_SIZE # 3
      OBVIOUS
    <3>7. d[READ_BUFFER_SIZE] = NUL BY <3>4, <3>6 DEF Buffers
    <3> QED BY <3>2, <3>3, <3>4, <3>5, <3>7
  <2>8. HttpParsing'
    <3>1. past.first >= 0 => past.answer = "none" BY <1>1 DEF HttpInv, HttpParsing
    <3>2. past.first # 0 BY <1>1 DEF HttpInv, HttpParsing
    <3>3. past.first > 0 =>
            Good /\ hc'.url = net.stream[2] /\ hc'.cgi = IF net.stream[1] = "POSE" THEN 1 ELSE 0
      BY <1>5, <1>7, <1>11, <2>3, <2>4, <2>6
    <3>4. Good' <=> Good BY <2>2 DEF Good, GoodLine
    <3> QED BY <2>2, <2>6, <3>1, <3>2, <3>3, <3>4 DEF HttpParsing
  <2>9. hc'.check_state # "REQUESTLINE" /\ hc'.url \in Targets BY <2>4, <2>6
  <2> QED BY <1>5, <1>6, <2>2, <2>6, <2>7, <2>8, <2>9, LoopStep
<1> QED BY <1>8, <1>10, <1>11

\* What the header of a request changes.
LEMMA HeaderIs ==
    ASSUME NEW b, NEW i, NEW h, Ready(h), h.check_state = "HEADER"
    PROVE  LET g == AfterHeader(b, i, h)
           IN  /\ Ready(g) /\ g.check_state \in {"HEADER", "CONTENT"}
               /\ g.url = h.url /\ g.cgi = h.cgi /\ g.address = h.address /\ g.st_size = h.st_size
<1>1. h \in Members BY DEF Ready
<1>2. h.content_length \in Nat /\ h.linger \in BOOLEAN BY <1>1 DEF Members
<1>3. PICK s \in {"HEADER", "CONTENT"} :
        s = IF Text(b, i) = <<>> /\ h.content_length # 0 THEN "CONTENT" ELSE h.check_state
  OBVIOUS
<1>4. PICK l \in BOOLEAN :
        l = (h.linger \/ (Text(b, i) = <<"Connection">> /\ Text(b, i + 2) = <<"keep-alive">>))
  BY <1>2
<1>5. PICK n \in Nat :
        n = IF Text(b, i) # <<>> /\ Head(Text(b, i)) = "Content-length: 2" THEN 2 ELSE h.content_length
  BY <1>2
<1>6. AfterHeader(b, i, h) = [h EXCEPT !.check_state = s, !.linger = l, !.content_length = n]
  BY <1>3, <1>4, <1>5 DEF AfterHeader
<1>7. [h EXCEPT !.check_state = s, !.linger = l, !.content_length = n] \in Members BY <1>1 DEF Members
<1>8. PICK g : g = AfterHeader(b, i, h) OBVIOUS
<1>9. /\ g.check_state = s
      /\ g.url = h.url /\ g.cgi = h.cgi /\ g.address = h.address /\ g.st_size = h.st_size
      /\ g.to_send = h.to_send /\ g.have_send = h.have_send /\ g.iov_count = h.iov_count
      /\ g.start_line = h.start_line /\ g.checked_idx = h.checked_idx /\ g.read_idx = h.read_idx
  BY <1>1, <1>6, <1>8 DEF Members
<1>10. Ready(g) BY <1>6, <1>7, <1>8, <1>9 DEF Ready
<1> QED BY <1>3, <1>8, <1>9, <1>10

\* The loop goes on after the request line.
LEMMA GoesOn ==
    ASSUME HttpInv, pc = "parse", hc.check_state # "REQUESTLINE", Ready(hc'),
           hc'.check_state # "REQUESTLINE", hc'.url = hc.url, hc'.cgi = hc.cgi,
           hc'.address = hc.address, hc'.st_size = hc.st_size,
           got' = <<>>, how' = how, net' = net, armed' = armed, pc' = pc, past' = past,
           line_status' \in {"OK", "OPEN", "BAD"}, buf' \in Buffers, buf'[READ_BUFFER_SIZE] = NUL
    PROVE  HttpInv'
<1>1. Idle BY DEF Idle
<1>2. hc.url \in Targets BY <1>1 DEF HttpInv, HttpTurns
<1>3. Good' <=> Good BY DEF Good, GoodLine
<1>4. HttpParsing' BY <1>1, <1>3 DEF HttpInv, HttpParsing
<1> QED BY <1>2, <1>4, LoopStep

\* The round that parses a header.
LEMMA HeaderStep ==
    ASSUME HttpInv, pc = "parse", hc.check_state = "HEADER",
           NEW b \in Buffers, b[READ_BUFFER_SIZE] = NUL, NEW checked \in Int,
           hc.checked_idx <= checked, checked <= hc.read_idx, Body(b, checked),
           got' = <<>>, how' = how, net' = net
    PROVE  HttpInv'
<1>1. PICK h : h = [hc EXCEPT !.checked_idx = checked, !.start_line = checked] OBVIOUS
<1>2. /\ Ready(h) /\ h.check_state = "HEADER" /\ h.cgi = hc.cgi /\ h.url = hc.url
      /\ h.address = hc.address /\ h.st_size = hc.st_size
  BY <1>1, RoundReady
<1>3. line_status' = line_status /\ line_status \in {"OK", "OPEN", "BAD"} /\ buf' = b
  BY DEF Body, HttpInv, HttpTypes
<1>4. \/ Serve(h)
      \/ /\ hc' = AfterHeader(b, hc.start_line, h)
         /\ armed' = armed /\ pc' = pc /\ past' = past
  BY <1>1 DEF Body
<1>5. CASE Serve(h) BY <1>2, <1>3, <1>5, ServeStep
<1>6. CASE /\ hc' = AfterHeader(b, hc.start_line, h)
           /\ armed' = armed /\ pc' = pc /\ past' = past
  <2>1. PICK g : g = AfterHeader(b, hc.start_line, h) OBVIOUS
  <2>2. /\ Ready(g) /\ g.check_state \in {"HEADER", "CONTENT"}
        /\ g.url = h.url /\ g.cgi = h.cgi /\ g.address = h.address /\ g.st_size = h.st_size
    BY <1>2, <2>1, HeaderIs
  <2>3. hc' = g BY <1>6, <2>1
  <2>4. /\ Ready(hc') /\ hc'.check_state \in {"HEADER", "CONTENT"} /\ hc'.url = hc.url /\ hc'.cgi = hc.cgi
        /\ hc'.address = hc.address /\ hc'.st_size = hc.st_size
    BY <1>2, <2>2, <2>3
  <2> QED BY <1>3, <1>6, <2>4, GoesOn
<1> QED BY <1>4, <1>5, <1>6

\* The round that looks for the body of the request.
LEMMA ContentStep ==
    ASSUME HttpInv, pc = "parse", hc.check_state = "CONTENT",
           NEW b \in Buffers, b[READ_BUFFER_SIZE] = NUL, NEW checked \in Int,
           hc.checked_idx <= checked, checked <= hc.read_idx, Body(b, checked),
           got' = <<>>, how' = how, net' = net
    PROVE  HttpInv'
<1>1. PICK h : h = [hc EXCEPT !.checked_idx = checked, !.start_line = checked] OBVIOUS
<1>2. /\ Ready(h) /\ h.check_state = "CONTENT" /\ h.cgi = hc.cgi /\ h.url = hc.url
      /\ h.address = hc.address /\ h.st_size = hc.st_size
  BY <1>1, RoundReady
<1>3. line_status \in {"OK", "OPEN", "BAD"} BY DEF HttpInv, HttpTypes
<1>4. CASE parse_content(h) = "NO_REQUEST"
  <2>1. /\ buf' = b /\ line_status' = "OPEN" /\ hc' = h /\ armed' = armed /\ pc' = pc /\ past' = past
    BY <1>1, <1>4 DEF Body
  <2> QED BY <1>2, <2>1, GoesOn
<1>5. CASE parse_content(h) # "NO_REQUEST"
  <2>1. PICK g : g = [h EXCEPT !.string = "body"] OBVIOUS
  <2>2. /\ buf' = [b EXCEPT ![hc.start_line + h.content_length] = NUL] /\ line_status' = line_status
        /\ Serve(g)
    BY <1>1, <1>5, <2>1 DEF Body
  <2>3. /\ Ready(g) /\ g.cgi = hc.cgi /\ g.url = hc.url /\ g.address = hc.address /\ g.st_size = hc.st_size
    <3>1. h \in Members BY <1>2 DEF Ready
    <3>2. PICK w \in Words : w = "body" BY DEF Words
    <3>3. g = [h EXCEPT !.string = w] BY <2>1, <3>2
    <3>4. [h EXCEPT !.string = w] \in Members BY <3>1 DEF Members
    <3>5. /\ g.url = h.url /\ g.cgi = h.cgi /\ g.address = h.address /\ g.st_size = h.st_size
          /\ g.to_send = h.to_send /\ g.have_send = h.have_send /\ g.iov_count = h.iov_count
          /\ g.start_line = h.start_line /\ g.checked_idx = h.checked_idx /\ g.read_idx = h.read_idx
      BY <3>1, <3>3 DEF Members
    <3> QED BY <1>2, <3>3, <3>4, <3>5 DEF Ready
  <2>4. buf' \in Buffers /\ buf'[READ_BUFFER_SIZE] = NUL
    <3>1. NUL \in Words BY DEF Words
    <3>2. READ_BUFFER_SIZE \in 0 .. READ_BUFFER_SIZE BY HttpAssumption
    <3>3. PICK i : i = hc.start_line + h.content_length OBVIOUS
    <3>4. buf' = [b EXCEPT ![i] = NUL] BY <2>2, <3>3
    <3> QED BY <3>1, <3>2, <3>4 DEF Buffers
  <2> QED BY <1>3, <2>2, <2>3, <2>4, ServeStep
<1> QED BY <1>4, <1>5
\* The buffer stays one that ends in NUL.
LEMMA ParsedBuffer ==
    ASSUME NEW b \in Buffers, b[READ_BUFFER_SIZE] = NUL, NEW checked \in Nat, NEW read \in Nat,
           checked <= read, read <= READ_BUFFER_SIZE
    PROVE  /\ parse_line(b, checked, read).buf \in Buffers
           /\ parse_line(b, checked, read).buf[READ_BUFFER_SIZE] = NUL
<1>1. CASE parse_line(b, checked, read).status = "OK"
  <2>1. PICK i \in Nat : CutsAt(b, checked, read, i) BY <1>1, LineCut
  <2>2. parse_line(b, checked, read).buf = [b EXCEPT ![i] = NUL, ![i + 1] = NUL] BY <2>1 DEF CutsAt
  <2>3. NUL \in Words /\ READ_BUFFER_SIZE \in 0 .. READ_BUFFER_SIZE BY HttpAssumption DEF Words
  <2>4. PICK d : d = [b EXCEPT ![i] = NUL, ![i + 1] = NUL] OBVIOUS
  <2>5. d \in Buffers /\ d[READ_BUFFER_SIZE] = NUL BY <2>3, <2>4 DEF Buffers
  <2> QED BY <2>2, <2>4, <2>5
<1>2. CASE parse_line(b, checked, read).status # "OK" BY <1>2, LineKept
<1> QED BY <1>1, <1>2

\* What parse_line() leaves of the request line.
LEMMA RequestLineIs ==
    ASSUME HttpInv, pc = "parse", hc.check_state = "REQUESTLINE"
    PROVE  LET p == parse_line(buf, hc.checked_idx, hc.read_idx)
           IN  /\ LineIs(p.buf)
               /\ past.first > 0 /\ p.status = "OK" => Cut(p.buf, p.checked)
<1> USE HttpAssumption
<1>1. HttpTypes /\ buf \in Buffers BY DEF HttpInv, HttpTypes, Buffers
<1>2. PICK c \in Nat, n \in Nat : c = hc.checked_idx /\ n = hc.read_idx /\ c <= n /\ n <= READ_BUFFER_SIZE
  <2>1. hc.checked_idx \in Int /\ hc.read_idx \in Int /\ hc.start_line \in Int
    BY <1>1 DEF HttpTypes, Members
  <2> QED BY <2>1 DEF HttpInv, HttpIndexesOrdered
<1>3. PICK status, d, k : /\ status = parse_line(buf, c, n).status /\ d = parse_line(buf, c, n).buf
                          /\ k = parse_line(buf, c, n).checked
  OBVIOUS
<1>4. k \in c .. n /\ (status # "OK" => d = buf) BY <1>1, <1>2, <1>3, LineKept
<1>5. ASSUME NEW b, NEW m \in Nat, m <= READ_BUFFER_SIZE, Cut(b, m) PROVE LineIs(b)
  <2>1. \A e \in 0 .. m - 1 : e \in 0 .. READ_BUFFER_SIZE BY <1>5
  <2> QED BY <1>5, <2>1 DEF Cut, LineIs
<1> SUFFICES ASSUME past.first > 0 PROVE LineIs(d) /\ (status = "OK" => Cut(d, k))
  BY <1>2, <1>3 DEF LineIs
<1>6. Fresh \/ Cut(buf, c) BY <1>2 DEF HttpInv, HttpParsing, Idle
<1>7. CASE Fresh
  <2>1. /\ c = 0 /\ n \in 1 .. READ_BUFFER_SIZE /\ Sent(buf, n)
        /\ past.first = IF n < 4 THEN n ELSE 4
    BY <1>2, <1>7 DEF Fresh, Sent
  <2>2. CASE status = "OK"
    <3>1. Cut(d, k) BY <1>1, <1>3, <2>1, <2>2, FreshCut
    <3> QED BY <1>2, <1>4, <1>5, <3>1
  <2>3. CASE status # "OK"
    <3>1. LineIs(buf) BY <1>1, <1>3, <2>1, <2>3, FreshText DEF LineIs
    <3> QED BY <1>4, <2>3, <3>1
  <2> QED BY <2>2, <2>3
<1>8. CASE Cut(buf, c)
  <2>1. CASE status = "OK"
    <3>1. Cut(d, k) BY <1>1, <1>2, <1>3, <1>8, <2>1, CutAgain
    <3> QED BY <1>2, <1>4, <1>5, <3>1
  <2>2. CASE status # "OK" BY <1>2, <1>4, <1>5, <1>8, <2>2
  <2> QED BY <2>1, <2>2
<1> QED BY <1>6, <1>7, <1>8

\* process_read(), and the rest of process(), keep the invariant.
LEMMA ProcessStep ==
    ASSUME HttpInv, process_read
    PROVE  HttpInv'
<1> USE HttpAssumption
<1>1. pc = "parse" /\ got' = <<>> /\ how' = how /\ net' = net BY DEF process_read
<1>2. HttpTypes /\ buf \in Buffers /\ buf[READ_BUFFER_SIZE] = NUL /\ past \in Histories
  BY DEF HttpInv, HttpTypes, Buffers
<1>3. hc.checked_idx \in Nat /\ hc.read_idx \in Nat /\ hc.checked_idx <= hc.read_idx
      /\ hc.read_idx <= READ_BUFFER_SIZE
  <2>1. hc.checked_idx \in Int /\ hc.read_idx \in Int /\ hc.start_line \in Int
    BY <1>2 DEF HttpTypes, Members
  <2> QED BY <1>1, <2>1 DEF HttpInv, HttpIndexesOrdered
<1>4. PICK p : p = parse_line(buf, hc.checked_idx, hc.read_idx) OBVIOUS
<1>5. p.buf \in Buffers /\ p.buf[READ_BUFFER_SIZE] = NUL BY <1>2, <1>3, <1>4, ParsedBuffer
<1>6. p.checked \in hc.checked_idx .. hc.read_idx BY <1>2, <1>3, <1>4, LineKept
<1>7. p.checked \in Int /\ hc.checked_idx <= p.checked /\ p.checked <= hc.read_idx BY <1>3, <1>6
<1>8. hc.check_state \in {"REQUESTLINE", "HEADER", "CONTENT"} BY <1>2 DEF HttpTypes, Members
<1>9. hc.check_state = "REQUESTLINE" =>
        LineIs(p.buf) /\ (past.first > 0 /\ p.status = "OK" => Cut(p.buf, p.checked))
  BY <1>1, <1>4, RequestLineIs
<1>10. CASE hc.check_state = "CONTENT" /\ Body(buf, hc.checked_idx)
  BY <1>1, <1>2, <1>3, <1>10, ContentStep
<1>11. CASE Body(p.buf, p.checked)
  <2>1. PICK b \in Buffers, c \in Int : b = p.buf /\ c = p.checked BY <1>5, <1>7
  <2>2. Body(b, c) /\ b[READ_BUFFER_SIZE] = NUL /\ hc.checked_idx <= c /\ c <= hc.read_idx
    BY <1>5, <1>7, <1>11, <2>1
  <2>3. CASE hc.check_state = "REQUESTLINE"
    <3>1. LineIs(b) BY <1>9, <2>1, <2>3
    <3> QED BY <1>1, <2>2, <2>3, <3>1, RequestLineStep
  <2>4. CASE hc.check_state = "HEADER" BY <1>1, <2>2, <2>4, HeaderStep
  <2>5. CASE hc.check_state = "CONTENT" BY <1>1, <2>2, <2>5, ContentStep
  <2> QED BY <1>8, <2>3, <2>4, <2>5
<1>12. CASE /\ p.status = line_status /\ buf' = p.buf /\ line_status' = line_status /\ past' = past
            /\ Answer("NO_REQUEST", [hc EXCEPT !.checked_idx = p.checked])
  <2>1. PICK c \in Int : c = p.checked BY <1>7
  <2>2. PICK h : h = [hc EXCEPT !.checked_idx = c] OBVIOUS
  <2>3. hc \in Members BY <1>2 DEF HttpTypes
  <2>4. [hc EXCEPT !.checked_idx = c] \in Members BY <2>3 DEF Members
  <2>5. /\ h.check_state = hc.check_state /\ h.cgi = hc.cgi /\ h.url = hc.url
        /\ h.address = hc.address /\ h.st_size = hc.st_size
        /\ h.checked_idx = c /\ h.start_line = hc.start_line /\ h.read_idx = hc.read_idx
        /\ h.to_send = hc.to_send /\ h.have_send = hc.have_send /\ h.iov_count = hc.iov_count
    BY <2>2, <2>3 DEF Members
  <2>6. Idle /\ Alive BY <1>1 DEF Idle, Alive
  <2>7. hc.to_send = 0 /\ hc.have_send = 0 /\ hc.iov_count <= 1
    BY <2>6 DEF HttpInv, HttpTurns, HttpSending
  <2>8. Ready(h)
    <3>1. 0 <= hc.start_line /\ hc.start_line <= hc.checked_idx /\ hc.start_line \in Int
      BY <1>1, <2>3 DEF HttpInv, HttpIndexesOrdered, Members
    <3>2. hc.start_line <= c /\ c <= hc.read_idx BY <1>3, <1>7, <2>1, <3>1
    <3> QED BY <1>3, <2>2, <2>4, <2>5, <2>7, <3>1, <3>2 DEF Ready
  <2>9. past.mapper <= past.conn /\ ~(past.mapper = past.conn /\ h.address # 0)
    BY <2>5, <2>6, <2>7 DEF HttpInv, HttpMapped
  <2>10. h.check_state # "REQUESTLINE" => h.url \in Targets BY <2>5, <2>6 DEF HttpInv, HttpTurns
  <2>11. HttpAnswersRequest' BY <1>1, <1>12 DEF HttpInv, HttpAnswersRequest, GoodLine
  <2>12. ASSUME hc' = h, pc' = "wait" PROVE HttpParsing'
    <3>1. Good' <=> Good BY <1>1, <1>12 DEF Good, GoodLine
    <3>2. past.first # 0 BY <1>1, <2>6 DEF HttpInv, HttpParsing
    <3>3. past.first >= 0 => past.answer = "none" BY <2>6 DEF HttpInv, HttpParsing
    <3>4. CASE hc.check_state = "REQUESTLINE"
      <4>1. p.status = "OK" BY <1>1, <1>12, <3>4 DEF HttpInv, HttpTurns
      <4>2. past.first > 0 => Cut(p.buf, p.checked) BY <1>9, <3>4, <4>1
      <4>3. past.first > 0 => Cut(buf, hc.checked_idx)'
        <5> SUFFICES ASSUME past.first > 0 PROVE Cut(buf, hc.checked_idx)' OBVIOUS
        <5>1. PICK b : b = p.buf OBVIOUS
        <5>2. PICK e \in 0 .. c - 1 :
                /\ EndsAt(b, e)
                /\ Good <=> e = 2 /\ parse_request_line(<<net.stream[1], net.stream[2]>>) = "NO_REQUEST"
          BY <2>1, <4>2, <5>1 DEF Cut
        <5>3. c >= 2 /\ b[c - 1] = NUL BY <2>1, <4>2, <5>1 DEF Cut
        <5>4. buf' = b /\ hc'.checked_idx = c /\ net' = net BY <1>1, <1>12, <2>5, <2>12, <5>1
        <5> QED BY <3>1, <5>2, <5>3, <5>4 DEF Cut, EndsAt
      <4>4. hc.start_line = 0 /\ hc.cgi = 0 BY <2>6, <3>4 DEF HttpInv, HttpParsing
      <4> QED BY <1>12, <2>5, <2>12, <3>2, <3>3, <3>4, <4>3, <4>4 DEF HttpParsing
    <3>5. CASE hc.check_state # "REQUESTLINE"
      <4>1. past.first > 0 =>
              Good /\ hc.url = net.stream[2] /\ hc.cgi = IF net.stream[1] = "POSE" THEN 1 ELSE 0
        BY <2>6, <3>5 DEF HttpInv, HttpParsing
      <4> QED BY <1>1, <1>12, <2>5, <2>12, <3>1, <3>2, <3>3, <3>5, <4>1 DEF HttpParsing
    <3> QED BY <3>4, <3>5
  <2>13. PICK code : code = "NO_REQUEST" OBVIOUS
  <2>14. Answer(code, h) BY <1>12, <2>1, <2>2, <2>13
  <2>15. buf' \in Buffers /\ buf'[READ_BUFFER_SIZE] = NUL /\ line_status' \in {"OK", "OPEN", "BAD"}
    BY <1>2, <1>5, <1>12 DEF HttpTypes
  <2> QED BY <1>1, <1>2, <1>12, <2>8, <2>9, <2>10, <2>11, <2>12, <2>13, <2>14, <2>15, AnswerStep
<1> QED BY <1>4, <1>10, <1>11, <1>12 DEF process_read

=============================================================================
