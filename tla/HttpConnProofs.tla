--------------------------- MODULE HttpConnProofs ---------------------------
(***************************************************************************)
(* Proofs about one HttpConn object, second part: that the steps of the    *)
(* client, of the event loop, of read_once() and of write() keep the       *)
(* inductive invariant, and what follows from it.                          *)
(***************************************************************************)
EXTENDS HttpProofs, TLAPS

-----------------------------------------------------------------------------
(* The members *)

\* init() resets what a request and its response use, and keeps the rest.
LEMMA Initial ==
    ASSUME NEW h, h.string \in Words, h.iov \in [0 .. 1 -> Int \X Int], h.iov_count \in Nat,
           h.address \in Int, h.st_size \in Nat
    PROVE  LET g == HttpInitial(h)
           IN  /\ g \in Members
               /\ g.read_idx = 0 /\ g.checked_idx = 0 /\ g.start_line = 0 /\ g.check_state = "REQUESTLINE"
               /\ g.cgi = 0 /\ g.to_send = 0 /\ g.have_send = 0 /\ g.iov_count = h.iov_count
               /\ g.address = h.address /\ g.st_size = h.st_size
BY DEF HttpInitial, Members

\* unmap() resets the address only.
LEMMA Unmaps ==
    ASSUME NEW h \in Members
    PROVE  /\ unmap(h) \in Members /\ Parser(unmap(h)) = Parser(h) /\ unmap(h).address = 0
           /\ unmap(h).to_send = h.to_send /\ unmap(h).have_send = h.have_send
           /\ unmap(h).iov = h.iov /\ unmap(h).iov_count = h.iov_count
BY DEF unmap, Members, Parser

\* What writev() is offered: the first piece, if there is one.
Length(h) == IF h.iov_count = 1 /\ h.iov[0][2] > 0 THEN h.iov[0][2] ELSE 0

LEMMA OfferedIs ==
    ASSUME NEW h \in Members, h.iov_count <= 1
    PROVE  /\ Length(h) \in Nat
           /\ Offered(h) \in Seq(Int) /\ Len(Offered(h)) = Length(h)
           /\ \A k \in 1 .. Length(h) : Offered(h)[k] = h.iov[0][1] + k - 1
           /\ Offered(h) = <<>> <=> Length(h) = 0
           /\ Invalid(h) <=> h.iov_count = 1 /\ h.iov[0][2] < 0
<1>1. h.iov \in [0 .. 1 -> Int \X Int] /\ h.iov_count \in {0, 1} BY DEF Members
<1>2. h.iov[0] \in Int \X Int /\ h.iov[1] \in Int \X Int BY <1>1
<1>3. PICK x \in Int, y \in Int : h.iov[0] = <<x, y>> BY <1>2
<1>4. h.iov[0][1] = x /\ h.iov[0][2] = y BY <1>3
<1>5. Pieces(h)[1] = <<0, 0>> /\ Pieces(h)[0] = IF h.iov_count = 1 THEN <<x, y>> ELSE <<0, 0>>
  BY <1>1, <1>3 DEF Pieces
<1>6. Span(<<0, 0>>) = <<>>
  <2>1. 1 .. <<0, 0>>[2] = {} OBVIOUS
  <2> QED BY <2>1 DEF Span
<1>7. \A u, v \in Int : /\ Span(<<u, v>>) \in Seq(Int)
                        /\ Len(Span(<<u, v>>)) = IF v > 0 THEN v ELSE 0
                        /\ \A k \in 1 .. v : Span(<<u, v>>)[k] = u + k - 1
  <2> SUFFICES ASSUME NEW u \in Int, NEW v \in Int
               PROVE  /\ Span(<<u, v>>) \in Seq(Int)
                      /\ Len(Span(<<u, v>>)) = IF v > 0 THEN v ELSE 0
                      /\ \A k \in 1 .. v : Span(<<u, v>>)[k] = u + k - 1
    OBVIOUS
  <2>1. Span(<<u, v>>) = [k \in 1 .. v |-> u + k - 1] BY DEF Span
  <2>2. CASE v > 0
    <3>1. v \in Nat BY <2>2
    <3> QED BY <2>1, <2>2, <3>1
  <2>3. CASE ~(v > 0)
    <3>1. 1 .. v = {} BY <2>3
    <3>2. Span(<<u, v>>) = <<>> BY <2>1, <3>1
    <3> QED BY <2>3, <3>1, <3>2
  <2> QED BY <2>2, <2>3
<1>8. Offered(h) = Span(Pieces(h)[0]) /\ Span(Pieces(h)[0]) \in Seq(Int)
  <2>1. Span(Pieces(h)[0]) \in Seq(Int) BY <1>5, <1>7
  <2>2. Span(Pieces(h)[0]) \o <<>> = Span(Pieces(h)[0]) BY <2>1
  <2> QED BY <1>5, <1>6, <2>1, <2>2 DEF Offered
<1>9. Length(h) \in Nat BY <1>4 DEF Length
<1>10. Len(Offered(h)) = Length(h) /\ \A k \in 1 .. Length(h) : Offered(h)[k] = x + k - 1
  <2>1. CASE h.iov_count = 1
    <3>1. Offered(h) = Span(<<x, y>>) BY <1>5, <1>8, <2>1
    <3>2. Length(h) = IF y > 0 THEN y ELSE 0 BY <1>4, <2>1 DEF Length
    <3>3. \A k \in 1 .. Length(h) : k \in 1 .. y BY <3>2
    <3> QED BY <1>7, <3>1, <3>2, <3>3
  <2>2. CASE h.iov_count # 1
    <3>1. Offered(h) = <<>> BY <1>5, <1>6, <1>8, <2>2
    <3> QED BY <2>2, <3>1 DEF Length
  <2> QED BY <2>1, <2>2
<1>11. Offered(h) = <<>> <=> Length(h) = 0 BY <1>8, <1>9, <1>10
<1>12. Invalid(h) <=> h.iov_count = 1 /\ y < 0
  <2>1. \A i \in 0 .. 1 : i = 0 \/ i = 1 OBVIOUS
  <2>2. Pieces(h)[1][2] = 0 /\ Pieces(h)[0][2] = IF h.iov_count = 1 THEN y ELSE 0 BY <1>5
  <2> QED BY <2>1, <2>2 DEF Invalid
<1> QED BY <1>4, <1>8, <1>9, <1>10, <1>11, <1>12

\* The members after t bytes were sent.
LEMMA Sends ==
    ASSUME NEW h \in Members, NEW t \in Int
    PROVE  LET g == AfterWritev(h, t)
           IN  /\ g \in Members /\ Parser(g) = Parser(h)
               /\ g.iov_count = h.iov_count /\ g.address = h.address /\ g.st_size = h.st_size
               /\ g.have_send = h.have_send + t /\ g.to_send = h.to_send - t
               /\ g.iov[0][1] = IF h.to_send - t >= h.iov[0][2] THEN h.iov[0][1] ELSE h.have_send + t
               /\ g.iov[0][2] = IF h.to_send - t >= h.iov[0][2] THEN 0
                                ELSE h.iov[0][2] - (h.have_send + t)
<1> DEFINE have == h.have_send + t  to == h.to_send - t
           v == IF to >= h.iov[0][2] THEN Iov(<<h.iov[0][1], 0>>, <<have, have>>)
                ELSE Iov(<<have, h.iov[0][2] - have>>, h.iov[1])
           g == AfterWritev(h, t)
<1>1. h.iov \in [0 .. 1 -> Int \X Int] /\ have \in Int /\ to \in Int BY DEF Members
<1>2. h.iov[0][1] \in Int /\ h.iov[0][2] \in Int /\ h.iov[1] \in Int \X Int BY <1>1
<1>3. \A a, b \in Int \X Int : /\ Iov(a, b) \in [0 .. 1 -> Int \X Int]
                               /\ Iov(a, b)[0] = a /\ Iov(a, b)[1] = b
  BY DEF Iov
<1>4. /\ v \in [0 .. 1 -> Int \X Int]
      /\ v[0][1] = IF to >= h.iov[0][2] THEN h.iov[0][1] ELSE have
      /\ v[0][2] = IF to >= h.iov[0][2] THEN 0 ELSE h.iov[0][2] - have
  <2>1. CASE to >= h.iov[0][2]
    <3>1. v = Iov(<<h.iov[0][1], 0>>, <<have, have>>) BY <2>1
    <3>2. v \in [0 .. 1 -> Int \X Int] /\ v[0] = <<h.iov[0][1], 0>> BY <1>1, <1>2, <1>3, <3>1
    <3> QED BY <2>1, <3>2
  <2>2. CASE ~(to >= h.iov[0][2])
    <3>1. v = Iov(<<have, h.iov[0][2] - have>>, h.iov[1]) BY <2>2
    <3>2. v \in [0 .. 1 -> Int \X Int] /\ v[0] = <<have, h.iov[0][2] - have>> BY <1>1, <1>2, <1>3, <3>1
    <3> QED BY <2>2, <3>2
  <2> QED BY <2>1, <2>2
<1>5. g = [h EXCEPT !.have_send = have, !.to_send = to, !.iov = v] BY DEF AfterWritev
<1> HIDE DEF have, to, v, g
<1>6. /\ g \in Members /\ Parser(g) = Parser(h)
      /\ g.iov_count = h.iov_count /\ g.address = h.address /\ g.st_size = h.st_size
      /\ g.have_send = have /\ g.to_send = to /\ g.iov = v
  BY <1>1, <1>4, <1>5 DEF Members, Parser
<1> QED BY <1>4, <1>6 DEF g, have, to

-----------------------------------------------------------------------------
(* The client, the kernel and the event loop *)

\* The initial states satisfy the invariant.
LEMMA HttpInitially == HttpInit => HttpInv
<1> SUFFICES ASSUME HttpInit PROVE HttpInv OBVIOUS
<1> USE HttpAssumption
<1>0. NUL \in Words /\ "none" \in Words BY DEF Words
<1>1. /\ NewObject.string \in Words /\ NewObject.iov \in [0 .. 1 -> Int \X Int]
      /\ NewObject.iov_count = 0 /\ NewObject.address \in Int /\ NewObject.st_size \in Nat
  <2>1. [i \in 0 .. 1 |-> <<0, 0>>] \in [0 .. 1 -> Int \X Int] OBVIOUS
  <2> QED BY <1>0, <2>1 DEF NewObject
<1>2. hc \in Members /\ hc.iov_count = 0 /\ hc.read_idx = 0 /\ hc.checked_idx = 0 /\ hc.start_line = 0
  BY <1>1, Initial DEF HttpInit
<1>3. pc = "closed" /\ got = <<>> /\ past.answer = "none" /\ past.wrong = FALSE /\ past.mapper = 0
      /\ past.conn = 0
  BY DEF HttpInit
<1>4. HttpTypes
  <2>1. net = [stream |-> <<>>, arrived |-> 0, taken |-> 0, peer |-> "gone"] BY DEF HttpInit, NoClient
  <2>2. <<>> \in Seq(STRING) /\ Len(<<>>) = 0 /\ got \in Seq(Int) BY <1>3
  <2>3. /\ net \in [stream : Seq(STRING), arrived : Nat, taken : Nat,
                    peer : {"gone", "open", "shut", "reset"}]
        /\ net.taken <= net.arrived /\ net.arrived <= Len(net.stream)
    BY <2>1, <2>2
  <2>4. buf \in [0 .. READ_BUFFER_SIZE -> Words] /\ buf[READ_BUFFER_SIZE] = NUL
    BY <1>0 DEF HttpInit, Empty
  <2>5. past \in Histories
    BY <1>0 DEF HttpInit, Histories
  <2>6. /\ how \in [build : {"-g", "-O2"}, trig : {0, 1}, actor : {0, 1}]
        /\ armed = "no" /\ line_status = "OK"
    BY DEF HttpInit
  <2> QED BY <1>2, <1>3, <2>2, <2>3, <2>4, <2>5, <2>6 DEF HttpTypes
<1>5. HttpIndexesOrdered BY <1>2 DEF HttpIndexesOrdered
<1>6. ~Alive /\ ~Idle BY <1>3 DEF Alive, Idle
<1>7. HttpTurns /\ HttpSending /\ HttpMapped /\ HttpParsing
  BY <1>2, <1>3, <1>6 DEF HttpTurns, HttpSending, HttpMapped, HttpParsing
<1>8. HttpSentInOrder BY <1>3 DEF HttpSentInOrder
<1>9. HttpUnmapsWhatItMapped /\ HttpAnswersRequest BY <1>3 DEF HttpUnmapsWhatItMapped, HttpAnswersRequest
<1> QED BY <1>4, <1>5, <1>7, <1>8, <1>9 DEF HttpInv

\* What arrives, and that the client leaves, is seen by the next call only.
LEMMA NetStep ==
    ASSUME HttpInv, Client_Arrive \/ Client_Leave
    PROVE  HttpInv'
<1>1. /\ how' = how /\ hc' = hc /\ buf' = buf /\ armed' = armed /\ pc' = pc
      /\ line_status' = line_status /\ got' = got /\ past' = past
  BY DEF Client_Arrive, Client_Leave
<1>2. HttpTypes BY DEF HttpInv
<1>3. /\ net' \in [stream : Seq(STRING), arrived : Nat, taken : Nat,
                   peer : {"gone", "open", "shut", "reset"}]
      /\ net'.stream = net.stream /\ net'.taken = net.taken
      /\ net'.arrived >= net.arrived /\ net'.arrived <= Len(net.stream)
  <2>1. /\ net \in [stream : Seq(STRING), arrived : Nat, taken : Nat,
                    peer : {"gone", "open", "shut", "reset"}]
        /\ net.arrived <= Len(net.stream) /\ Len(net.stream) \in Nat
    BY <1>2 DEF HttpTypes
  <2>2. CASE Client_Arrive
    <3>1. net' = [net EXCEPT !.arrived = net.arrived + 1] /\ net.arrived < Len(net.stream)
      BY <2>2 DEF Client_Arrive
    <3> QED BY <2>1, <3>1
  <2>3. CASE Client_Leave BY <2>1, <2>3 DEF Client_Leave
  <2> QED BY <2>2, <2>3
<1>4. net.taken \in Nat /\ net.arrived \in Nat /\ net'.arrived \in Nat BY <1>2, <1>3 DEF HttpTypes
<1>5. HttpTypes' BY <1>1, <1>2, <1>3, <1>4 DEF HttpTypes
<1>6. HttpIndexesOrdered' BY <1>1 DEF HttpInv, HttpIndexesOrdered
<1>7. (Alive' <=> Alive) /\ (Idle' <=> Idle) BY <1>1 DEF Alive, Idle
<1>8. HttpTurns' BY <1>1, <1>3, <1>4, <1>7 DEF HttpInv, HttpTurns
<1>9. HttpSending' /\ HttpSentInOrder' BY <1>1, <1>7 DEF HttpInv, HttpSending, HttpSentInOrder
<1>10. HttpMapped' /\ HttpUnmapsWhatItMapped' BY <1>1, <1>7 DEF HttpInv, HttpMapped, HttpUnmapsWhatItMapped
<1>11. HttpParsing'
  <2>1. Good' <=> Good BY <1>1, <1>3 DEF Good, GoodLine
  <2>2. Fresh' <=> Fresh BY <1>1, <1>3 DEF Fresh
  <2>3. Cut(buf, hc.checked_idx)' <=> Cut(buf, hc.checked_idx) BY <1>1, <1>3, <2>1 DEF Cut, EndsAt
  <2> QED BY <1>1, <1>3, <1>7, <2>1, <2>2, <2>3 DEF HttpInv, HttpParsing
<1>12. HttpAnswersRequest' BY <1>1, <1>3 DEF HttpInv, HttpAnswersRequest, GoodLine
<1> QED BY <1>5, <1>6, <1>8, <1>9, <1>10, <1>11, <1>12 DEF HttpInv

\* A connection is accepted: the object starts afresh, but for what init() keeps.
LEMMA AcceptStep ==
    ASSUME HttpInv, Http_Accept
    PROVE  HttpInv'
<1> USE HttpAssumption
<1>1. HttpTypes BY DEF HttpInv
<1>0. NUL \in Words /\ "none" \in Words BY DEF Words
<1>2. PICK s \in Streams : net' = [stream |-> s, arrived |-> 0, taken |-> 0, peer |-> "open"]
  BY DEF Http_Accept
<1>3. /\ hc' = HttpInitial(hc) /\ buf' = Empty /\ armed' = "IN" /\ pc' = "wait" /\ got' = <<>>
      /\ past' = [past EXCEPT !.conn = @ + 1, !.first = 0, !.shorts = 0, !.answer = "none"]
      /\ how' = how /\ line_status' = line_status
  BY DEF Http_Accept
<1>4. hc \in Members /\ hc.iov_count <= 1 BY <1>1 DEF HttpTypes, HttpInv, HttpSending
<1>5. /\ hc.string \in Words /\ hc.iov \in [0 .. 1 -> Int \X Int] /\ hc.iov_count \in Nat
      /\ hc.address \in Int /\ hc.st_size \in Nat
  BY <1>4 DEF Members
<1>6. /\ hc' \in Members /\ hc'.read_idx = 0 /\ hc'.checked_idx = 0 /\ hc'.start_line = 0
      /\ hc'.check_state = "REQUESTLINE" /\ hc'.cgi = 0 /\ hc'.to_send = 0 /\ hc'.have_send = 0
      /\ hc'.iov_count = hc.iov_count /\ hc'.address = hc.address /\ hc'.st_size = hc.st_size
  BY <1>3, <1>5, Initial
<1>7. /\ net' \in [stream : Seq(STRING), arrived : Nat, taken : Nat,
                   peer : {"gone", "open", "shut", "reset"}]
      /\ net'.taken = 0 /\ net'.arrived = 0 /\ Len(net'.stream) \in Nat
  <2>1. s \in Seq(STRING) /\ Len(s) \in Nat OBVIOUS
  <2> QED BY <1>2, <2>1
<1>8. /\ past' \in Histories
      /\ past'.conn = past.conn + 1 /\ past'.first = 0 /\ past'.answer = "none"
      /\ past'.mapper = past.mapper /\ past'.wrong = past.wrong
      /\ past.mapper \in Nat /\ past.conn \in Nat
  <2>1. past \in Histories BY <1>1 DEF HttpTypes
  <2>2. past' = [conn |-> past.conn + 1, first |-> 0, shorts |-> 0, answer |-> "none",
                 mapper |-> past.mapper, wrong |-> past.wrong]
    BY <1>3, <2>1 DEF Histories
  <2>3. past.conn \in Nat /\ past.mapper \in Nat /\ past.wrong \in BOOLEAN BY <2>1 DEF Histories
  <2>4. past' \in Histories
    <3>1. 0 \in Nat /\ 0 \in Int /\ past.conn + 1 \in Nat BY <2>3
    <3> QED BY <1>0, <2>2, <2>3, <3>1 DEF Histories
  <2> QED BY <2>2, <2>3, <2>4
<1>9. /\ buf' \in [0 .. READ_BUFFER_SIZE -> Words] /\ buf'[READ_BUFFER_SIZE] = NUL BY <1>0, <1>3 DEF Empty
<1>10. HttpTypes'
  <2>1. got' \in Seq(Int) BY <1>3
  <2> QED BY <1>1, <1>3, <1>6, <1>7, <1>8, <1>9, <2>1 DEF HttpTypes
<1>11. HttpIndexesOrdered' BY <1>6 DEF HttpIndexesOrdered
<1>12. HttpTurns' BY <1>3, <1>6 DEF HttpTurns
<1>13. HttpSending' BY <1>4, <1>6 DEF HttpSending
<1>14. HttpSentInOrder' BY <1>3 DEF HttpSentInOrder
<1>15. past.mapper <= past.conn BY DEF HttpInv, HttpMapped
<1>16. HttpMapped' BY <1>8, <1>15 DEF HttpMapped
<1>17. HttpUnmapsWhatItMapped' BY <1>8 DEF HttpInv, HttpUnmapsWhatItMapped
<1>18. HttpParsing'
  <2>1. Empty' = Empty BY DEF Empty
  <2> QED BY <1>3, <1>6, <1>7, <1>8, <2>1 DEF HttpParsing
<1>19. HttpAnswersRequest' BY <1>8 DEF HttpAnswersRequest
<1> QED BY <1>10, <1>11, <1>12, <1>13, <1>14, <1>16, <1>17, <1>18, <1>19 DEF HttpInv

\* The event loop drops, closes or calls the connection.
LEMMA EventStep ==
    ASSUME HttpInv, Http_Hangup \/ Http_Expire \/ Http_Readable \/ Http_Writable
    PROVE  HttpInv'
<1> USE HttpAssumption
<1>1. /\ how' = how /\ hc' = hc /\ buf' = buf /\ line_status' = line_status
      /\ pc = "wait" /\ armed' = "no"
  BY DEF Http_Hangup, Http_Expire, Http_Readable, Http_Writable
<1>2. HttpTypes BY DEF HttpInv
<1>3. CASE Http_Expire
  <2>1. /\ pc' = "closed" /\ net' = NoClient /\ got' = <<>>
        /\ past' = [past EXCEPT !.first = 0, !.shorts = 0, !.answer = "none"]
    BY <1>3 DEF Http_Expire
  <2>2. /\ past' \in Histories
        /\ past'.answer = "none" /\ past'.mapper = past.mapper /\ past'.conn = past.conn
        /\ past'.wrong = past.wrong
    <3>1. "none" \in Words BY DEF Words
    <3>2. past \in Histories BY <1>2 DEF HttpTypes
    <3>3. past' = [conn |-> past.conn, first |-> 0, shorts |-> 0, answer |-> "none",
                   mapper |-> past.mapper, wrong |-> past.wrong]
      BY <2>1, <3>2 DEF Histories
    <3>4. past.conn \in Nat /\ past.mapper \in Nat /\ past.wrong \in BOOLEAN BY <3>2 DEF Histories
    <3>5. 0 \in Nat /\ 0 \in Int OBVIOUS
    <3>6. past' \in Histories BY <3>1, <3>3, <3>4, <3>5 DEF Histories
    <3> QED BY <3>3, <3>6
  <2>3. /\ net' \in [stream : Seq(STRING), arrived : Nat, taken : Nat,
                     peer : {"gone", "open", "shut", "reset"}]
        /\ net'.taken <= net'.arrived /\ net'.arrived <= Len(net'.stream)
    <3>1. <<>> \in Seq(STRING) /\ Len(<<>>) = 0 OBVIOUS
    <3>2. net' = [stream |-> <<>>, arrived |-> 0, taken |-> 0, peer |-> "gone"] BY <2>1 DEF NoClient
    <3> QED BY <3>1, <3>2
  <2>4. HttpTypes'
    <3>1. got' \in Seq(Int) BY <2>1
    <3> QED BY <1>1, <1>2, <2>1, <2>2, <2>3, <3>1 DEF HttpTypes
  <2>5. HttpIndexesOrdered' BY <1>1 DEF HttpInv, HttpIndexesOrdered
  <2>6. ~Alive' /\ ~Idle' BY <2>1 DEF Alive, Idle
  <2>7. HttpTurns' BY <2>1, <2>6 DEF HttpTurns
  <2>8. HttpSending' BY <1>1, <2>6 DEF HttpInv, HttpSending
  <2>9. HttpSentInOrder' BY <2>1 DEF HttpSentInOrder
  <2>10. HttpMapped' BY <2>2, <2>6 DEF HttpInv, HttpMapped
  <2>11. HttpUnmapsWhatItMapped' BY <2>2 DEF HttpInv, HttpUnmapsWhatItMapped
  <2>12. HttpParsing' BY <2>6 DEF HttpParsing
  <2>13. HttpAnswersRequest' BY <2>2 DEF HttpAnswersRequest
  <2> QED BY <2>4, <2>5, <2>7, <2>8, <2>9, <2>10, <2>11, <2>12, <2>13 DEF HttpInv
<1>4. CASE Http_Hangup \/ Http_Readable \/ Http_Writable
  <2>1. net' = net /\ got' = got /\ past' = past /\ pc' \in {"dropped", "read", "write"}
    BY <1>4 DEF Http_Hangup, Http_Readable, Http_Writable
  <2>2. pc' = "read" => armed = "IN" /\ net.taken < net.arrived
    BY <1>4 DEF Http_Hangup, Http_Readable, Http_Writable
  <2>3. Alive /\ (Idle' => Idle) BY <1>1, <2>1, <2>2 DEF Alive, Idle
  <2>4. HttpTypes' BY <1>1, <1>2, <2>1 DEF HttpTypes
  <2>5. HttpIndexesOrdered' BY <1>1 DEF HttpInv, HttpIndexesOrdered
  <2>6. HttpTurns' BY <1>1, <2>1, <2>2, <2>3 DEF HttpInv, HttpTurns
  <2>7. HttpSending' /\ HttpSentInOrder' BY <1>1, <2>1, <2>3 DEF HttpInv, HttpSending, HttpSentInOrder
  <2>8. HttpMapped' /\ HttpUnmapsWhatItMapped'
    BY <1>1, <2>1, <2>3 DEF HttpInv, HttpMapped, HttpUnmapsWhatItMapped
  <2>9. HttpParsing'
    <3>1. ~Fresh BY <1>1 DEF Fresh
    <3>2. Good' <=> Good BY <2>1 DEF Good, GoodLine
    <3>3. Cut(buf, hc.checked_idx)' <=> Cut(buf, hc.checked_idx) BY <1>1, <2>1, <3>2 DEF Cut, EndsAt
    <3>4. Empty' = Empty /\ pc' # "parse" BY <2>1 DEF Empty
    <3> QED BY <1>1, <2>1, <2>3, <3>1, <3>2, <3>3, <3>4 DEF HttpInv, HttpParsing
  <2>10. HttpAnswersRequest' BY <2>1 DEF HttpInv, HttpAnswersRequest, GoodLine
  <2> QED BY <2>4, <2>5, <2>6, <2>7, <2>8, <2>9, <2>10 DEF HttpInv
<1> QED BY <1>3, <1>4
-----------------------------------------------------------------------------
(* read_once() *)

\* A connection that is dropped while it was idle keeps the invariant.
LEMMA DropsIdle ==
    ASSUME HttpInv, Idle, pc' = "dropped", HttpTypes', hc'.iov_count = hc.iov_count, got' = got,
           past'.answer = past.answer, past'.mapper = past.mapper, past'.conn = past.conn,
           past'.wrong = past.wrong, past'.first > 0 => past.first >= 0
    PROVE  HttpInv'
<1>1. HttpIndexesOrdered' BY DEF HttpIndexesOrdered
<1>2. ~Alive' /\ ~Idle' BY DEF Alive, Idle
<1>3. HttpTurns' BY <1>2 DEF HttpTurns
<1>4. HttpSending' BY <1>2 DEF HttpInv, HttpSending
<1>5. HttpSentInOrder' BY DEF HttpInv, HttpSentInOrder
<1>6. HttpMapped' BY <1>2 DEF HttpInv, HttpMapped
<1>7. HttpUnmapsWhatItMapped' BY DEF HttpInv, HttpUnmapsWhatItMapped
<1>8. HttpParsing' BY <1>2 DEF HttpParsing
<1>9. HttpAnswersRequest' BY DEF HttpInv, HttpAnswersRequest, HttpParsing
<1> QED BY <1>1, <1>3, <1>4, <1>5, <1>6, <1>7, <1>8, <1>9 DEF HttpInv

\* What recv() changes.
Arrived(n) ==
    /\ HttpTypes'
    /\ net'.stream = net.stream /\ net'.taken = net.taken + n
    /\ hc'.read_idx = hc.read_idx + n
    /\ <<hc'.checked_idx, hc'.start_line, hc'.check_state, hc'.cgi, hc'.url, hc'.to_send, hc'.have_send,
         hc'.iov, hc'.iov_count, hc'.address, hc'.st_size>>
       = <<hc.checked_idx, hc.start_line, hc.check_state, hc.cgi, hc.url, hc.to_send, hc.have_send,
           hc.iov, hc.iov_count, hc.address, hc.st_size>>
    /\ past'.first = IF past.first # 0 THEN past.first ELSE IF n < 4 THEN n ELSE 4
    /\ <<past'.conn, past'.shorts, past'.answer, past'.mapper, past'.wrong>>
       = <<past.conn, past.shorts, past.answer, past.mapper, past.wrong>>
    /\ \A i \in 0 .. READ_BUFFER_SIZE :
         buf'[i] = IF i \in hc.read_idx .. hc.read_idx + n - 1
                   THEN net.stream[net.taken + (i - hc.read_idx) + 1] ELSE buf[i]

\* n places from t on lie within l, and so does each of them.
LEMMA Within ==
    ASSUME NEW t \in Nat, NEW d \in Nat, NEW n \in Nat, NEW l \in Nat, d <= n - 1, t + n <= l
    PROVE  t + d + 1 \in 1 .. l
OBVIOUS

\* recv() appends n words to the buffer and changes nothing else.
LEMMA ReceivedIs ==
    ASSUME HttpInv, NEW n \in Nat, n > 0, n <= net.arrived - net.taken,
           n <= READ_BUFFER_SIZE - hc.read_idx, pc = "read", Received(n),
           how' = how, armed' = armed, got' = got, line_status' = "OK", pc' \in {"parse", "dropped"}
    PROVE  Arrived(n)
<1> USE HttpAssumption
<1>1. HttpTypes BY DEF HttpInv
<1>2. /\ hc \in Members /\ past \in Histories /\ hc.read_idx \in Int /\ hc.read_idx >= 0
      /\ net.taken \in Nat /\ net.arrived \in Nat /\ net.stream \in Seq(STRING)
  <2>1. hc \in Members /\ past \in Histories BY <1>1 DEF HttpTypes
  <2>2. hc.read_idx \in Int /\ hc.checked_idx \in Int /\ hc.start_line \in Int BY <2>1 DEF Members
  <2>3. hc.read_idx >= 0 BY <2>2 DEF HttpInv, HttpIndexesOrdered
  <2>4. net.taken \in Nat /\ net.arrived \in Nat /\ net.stream \in Seq(STRING) BY <1>1 DEF HttpTypes
  <2> QED BY <2>1, <2>2, <2>3, <2>4
<1>3. /\ hc' \in Members /\ hc'.read_idx = hc.read_idx + n
      /\ hc'.checked_idx = hc.checked_idx /\ hc'.start_line = hc.start_line
      /\ hc'.check_state = hc.check_state /\ hc'.cgi = hc.cgi /\ hc'.url = hc.url
      /\ hc'.to_send = hc.to_send /\ hc'.have_send = hc.have_send /\ hc'.iov = hc.iov
      /\ hc'.iov_count = hc.iov_count /\ hc'.address = hc.address /\ hc'.st_size = hc.st_size
  <2>1. hc' = [hc EXCEPT !.read_idx = hc.read_idx + n] BY DEF Received
  <2>2. hc.read_idx + n \in Int BY <1>2
  <2>3. [hc EXCEPT !.read_idx = hc.read_idx + n] \in Members BY <1>2, <2>2 DEF Members
  <2> QED BY <1>2, <2>1, <2>3 DEF Members
<1>4. /\ net' \in [stream : Seq(STRING), arrived : Nat, taken : Nat,
                   peer : {"gone", "open", "shut", "reset"}]
      /\ net'.stream = net.stream /\ net'.taken = net.taken + n /\ net'.arrived = net.arrived
      /\ net'.taken <= net'.arrived /\ net'.arrived <= Len(net'.stream)
  <2>1. net' = [net EXCEPT !.taken = net.taken + n] BY DEF Received
  <2>2. net.taken + n \in Nat /\ net.taken + n <= net.arrived BY <1>2
  <2> QED BY <1>1, <2>1, <2>2 DEF HttpTypes
<1>5. /\ past' \in Histories
      /\ past'.first = IF past.first # 0 THEN past.first ELSE IF n < 4 THEN n ELSE 4
      /\ past'.conn = past.conn /\ past'.shorts = past.shorts /\ past'.answer = past.answer
      /\ past'.mapper = past.mapper /\ past'.wrong = past.wrong
  <2> DEFINE f == IF past.first = 0 THEN Min({n, 4}) ELSE past.first
  <2>1. past' = [past EXCEPT !.first = f] BY DEF Received
  <2>2. Min({n, 4}) = IF n <= 4 THEN n ELSE 4 BY OfTwo
  <2>3. f = IF past.first # 0 THEN past.first ELSE IF n < 4 THEN n ELSE 4 BY <2>2
  <2>4. past.first \in Int BY <1>2 DEF Histories
  <2>5. f \in Int BY <2>3, <2>4
  <2> HIDE DEF f
  <2>6. past' = [conn |-> past.conn, first |-> f, shorts |-> past.shorts, answer |-> past.answer,
                 mapper |-> past.mapper, wrong |-> past.wrong]
    BY <1>2, <2>1 DEF Histories
  <2>7. /\ past.conn \in Nat /\ past.shorts \in Nat /\ past.answer \in Words /\ past.mapper \in Nat
        /\ past.wrong \in BOOLEAN
    BY <1>2 DEF Histories
  <2>8. past' \in Histories BY <2>5, <2>6, <2>7 DEF Histories
  <2> QED BY <2>3, <2>6, <2>8
<1>6. /\ buf' \in [0 .. READ_BUFFER_SIZE -> Words] /\ buf'[READ_BUFFER_SIZE] = NUL
      /\ \A i \in 0 .. READ_BUFFER_SIZE :
           buf'[i] = IF i \in hc.read_idx .. hc.read_idx + n - 1
                     THEN net.stream[net.taken + (i - hc.read_idx) + 1] ELSE buf[i]
  <2>1. buf \in [0 .. READ_BUFFER_SIZE -> Words] /\ buf[READ_BUFFER_SIZE] = NUL BY <1>1 DEF HttpTypes
  <2>2. DOMAIN buf = 0 .. READ_BUFFER_SIZE BY <2>1
  <2>3. buf' = [i \in 0 .. READ_BUFFER_SIZE |->
                  IF i \in hc.read_idx .. hc.read_idx + n - 1
                  THEN net.stream[net.taken + (i - hc.read_idx) + 1] ELSE buf[i]]
    BY <2>2 DEF Received
  <2>4. \A i \in hc.read_idx .. hc.read_idx + n - 1 :
          net.stream[net.taken + (i - hc.read_idx) + 1] \in Words
    <3> SUFFICES ASSUME NEW i \in hc.read_idx .. hc.read_idx + n - 1
                 PROVE  net.stream[net.taken + (i - hc.read_idx) + 1] \in Words
      OBVIOUS
    <3>1. net.arrived <= Len(net.stream) /\ Len(net.stream) \in Nat BY <1>1, <1>2 DEF HttpTypes
    <3>2. net.taken + (i - hc.read_idx) + 1 \in 1 .. Len(net.stream)
      <4>1. PICK l \in Nat : l = Len(net.stream) BY <3>1
      <4>2. net.taken + n <= l
        <5>1. net.taken + n <= net.arrived BY <1>2
        <5>2. net.arrived <= l BY <3>1, <4>1
        <5> QED BY <1>2, <5>1, <5>2
      <4>3. i \in Int /\ hc.read_idx <= i /\ i <= hc.read_idx + n - 1 BY <1>2
      <4>4. PICK d \in Nat : d = i - hc.read_idx /\ d <= n - 1 BY <1>2, <4>3
      <4>5. net.taken + d + 1 \in 1 .. l BY <1>2, <4>2, <4>4, Within
      <4> QED BY <4>1, <4>4, <4>5
    <3>3. net.stream[net.taken + (i - hc.read_idx) + 1] \in STRING BY <1>2, <3>2
    <3> QED BY <3>3 DEF Words
  <2>5. READ_BUFFER_SIZE \in 0 .. READ_BUFFER_SIZE /\ READ_BUFFER_SIZE \notin hc.read_idx .. hc.read_idx + n - 1
    BY <1>2
  <2> QED BY <2>1, <2>3, <2>4, <2>5
<1>7. HttpTypes' BY <1>1, <1>3, <1>4, <1>5, <1>6 DEF HttpTypes
<1> QED BY <1>3, <1>4, <1>5, <1>6, <1>7 DEF Arrived

\* What was read is appended behind what was parsed.
LEMMA ArrivedKeeps ==
    ASSUME HttpInv, NEW n \in Nat, n > 0, n <= READ_BUFFER_SIZE - hc.read_idx, pc = "read", Arrived(n),
           got' = got, armed' = armed, line_status' = "OK", pc' \in {"parse", "dropped"}
    PROVE  HttpInv'
<1> USE HttpAssumption
<1>1. HttpTypes /\ HttpTypes' BY DEF HttpInv, Arrived
<1>2. /\ past.first \in Int /\ hc.read_idx \in Int /\ hc.checked_idx \in Int /\ hc.start_line \in Int
      /\ net.taken \in Nat
  BY <1>1 DEF HttpTypes, Members, Histories
<1>3. /\ 0 <= hc.start_line /\ hc.start_line <= hc.checked_idx
      /\ hc.checked_idx <= hc.read_idx /\ hc.read_idx <= READ_BUFFER_SIZE
  BY DEF HttpInv, HttpIndexesOrdered
<1>4. Idle /\ Alive BY DEF Idle, Alive
<1>5. CASE pc' = "dropped"
  <2>1. /\ hc'.iov_count = hc.iov_count /\ past'.answer = past.answer /\ past'.mapper = past.mapper
        /\ past'.conn = past.conn /\ past'.wrong = past.wrong
    BY DEF Arrived
  <2>2. past'.first > 0 => past.first >= 0 BY <1>2 DEF Arrived
  <2> QED BY <1>1, <1>4, <1>5, <2>1, <2>2, DropsIdle
<1>6. CASE pc' = "parse"
  <2>1. HttpIndexesOrdered' BY <1>2, <1>3 DEF Arrived, HttpIndexesOrdered
  <2>2. HttpTurns' BY <1>4, <1>6 DEF HttpInv, HttpTurns, Arrived
  <2>3. HttpSending' BY <1>4 DEF HttpInv, HttpSending, Arrived
  <2>4. HttpSentInOrder' BY DEF HttpInv, HttpSentInOrder
  <2>5. HttpMapped' /\ HttpUnmapsWhatItMapped'
    BY <1>4 DEF HttpInv, HttpMapped, HttpUnmapsWhatItMapped, Arrived
  <2>6. past.first >= 0 => past'.answer = "none" BY <1>4 DEF HttpInv, HttpParsing, Arrived
  <2>7. HttpAnswersRequest' BY <1>2, <2>6 DEF HttpAnswersRequest, Arrived
  <2>8. HttpParsing'
    <3>1. hc'.check_state = "REQUESTLINE" => hc'.start_line = 0 /\ hc'.cgi = 0
      BY <1>4 DEF HttpInv, HttpParsing, Arrived
    <3>2. past'.first >= 0 => past'.answer = "none" BY <1>2, <2>6 DEF Arrived
    <3>3. past'.first # 0 BY <1>2 DEF Arrived
    <3>4. CASE past.first = 0
      <4>1. /\ hc.read_idx = 0 /\ hc.checked_idx = 0 /\ net.taken = 0 /\ buf = Empty
            /\ hc.check_state = "REQUESTLINE"
        BY <1>4, <3>4 DEF HttpInv, HttpParsing
      <4>2. \A i \in 0 .. READ_BUFFER_SIZE : buf[i] = NUL BY <4>1 DEF Empty
      <4>3. \A i \in 0 .. READ_BUFFER_SIZE : buf'[i] = IF i < n THEN net.stream[i + 1] ELSE NUL
        BY <4>1, <4>2 DEF Arrived
      <4>4. /\ hc'.read_idx = n /\ hc'.checked_idx = 0 /\ net'.taken = n /\ net'.stream = net.stream
            /\ past'.first = IF n < 4 THEN n ELSE 4
        BY <3>4, <4>1 DEF Arrived
      <4>5. Fresh' BY <1>6, <4>3, <4>4 DEF Fresh
      <4>6. hc'.check_state = "REQUESTLINE" BY <4>1 DEF Arrived
      <4> QED BY <3>1, <3>2, <3>3, <4>5, <4>6 DEF HttpParsing
    <3>5. CASE past.first > 0
      <4>1. past'.first = past.first /\ net'.stream = net.stream /\ hc'.checked_idx = hc.checked_idx
            /\ hc'.check_state = hc.check_state /\ hc'.url = hc.url /\ hc'.cgi = hc.cgi
        BY <1>2, <3>5 DEF Arrived
      <4>2. Good' <=> Good BY <4>1 DEF Good, GoodLine
      <4>3. CASE hc.check_state = "REQUESTLINE"
        <5>1. ~Fresh BY DEF Fresh
        <5>2. Cut(buf, hc.checked_idx) BY <1>4, <3>5, <4>3, <5>1 DEF HttpInv, HttpParsing
        <5>3. \A i \in 0 .. hc.checked_idx - 1 : buf'[i] = buf[i]
          <6> SUFFICES ASSUME NEW i \in 0 .. hc.checked_idx - 1 PROVE buf'[i] = buf[i] OBVIOUS
          <6>1. i \in 0 .. READ_BUFFER_SIZE /\ i \notin hc.read_idx .. hc.read_idx + n - 1
            BY <1>2, <1>3
          <6> QED BY <6>1 DEF Arrived
        <5>4. PICK e \in 0 .. hc.checked_idx - 1 :
                /\ EndsAt(buf, e)
                /\ Good <=> e = 2 /\ parse_request_line(<<net.stream[1], net.stream[2]>>) = "NO_REQUEST"
          BY <5>2 DEF Cut
        <5>5. hc.checked_idx >= 2 /\ buf[hc.checked_idx - 1] = NUL BY <5>2 DEF Cut
        <5>6. buf'[hc.checked_idx - 1] = NUL
          <6>1. hc.checked_idx - 1 \in 0 .. hc.checked_idx - 1 BY <1>2, <5>5
          <6> QED BY <5>3, <5>5, <6>1
        <5>7. buf'[e] = NUL /\ \A i \in 0 .. e - 1 : buf'[i] # NUL /\ buf'[i] = net.stream[i + 1]
          <6>1. \A i \in 0 .. e - 1 : i \in 0 .. hc.checked_idx - 1 BY <1>2
          <6> QED BY <5>3, <5>4, <6>1 DEF EndsAt
        <5>8. Cut(buf, hc.checked_idx)' BY <4>1, <4>2, <5>4, <5>5, <5>6, <5>7 DEF Cut, EndsAt
        <5> QED BY <3>1, <3>2, <3>3, <4>1, <4>3, <5>8 DEF HttpParsing
      <4>4. CASE hc.check_state # "REQUESTLINE"
        <5>1. Good /\ hc.url = net.stream[2] /\ hc.cgi = IF net.stream[1] = "POSE" THEN 1 ELSE 0
          BY <1>4, <3>5, <4>4 DEF HttpInv, HttpParsing
        <5> QED BY <3>1, <3>2, <3>3, <4>1, <4>2, <4>4, <5>1 DEF HttpParsing
      <4> QED BY <4>3, <4>4
    <3>6. CASE past.first < 0
      <4>1. past'.first < 0 BY <1>2, <3>6 DEF Arrived
      <4>2. past'.first \in Int BY <1>1 DEF HttpTypes, Histories
      <4> QED BY <3>1, <3>2, <3>3, <4>1, <4>2 DEF HttpParsing
    <3> QED BY <1>2, <3>4, <3>5, <3>6
  <2> QED BY <1>1, <2>1, <2>2, <2>3, <2>4, <2>5, <2>7, <2>8 DEF HttpInv
<1> QED BY <1>5, <1>6

\* read_once() keeps the invariant.
LEMMA ReadStep ==
    ASSUME HttpInv, read_once
    PROVE  HttpInv'
<1> USE HttpAssumption
<1>1. HttpTypes BY DEF HttpInv
<1>2. /\ hc.read_idx \in Int /\ net.taken \in Nat /\ net.arrived \in Nat /\ hc \in Members
  BY <1>1 DEF HttpTypes, Members
<1>3. pc = "read" /\ line_status' = "OK" /\ how' = how /\ armed' = armed /\ got' = got BY DEF read_once
<1>4. Idle BY <1>3 DEF Idle
<1>5. CASE pc' = "dropped" /\ UNCHANGED <<buf, net, past>>
           /\ (hc' = hc \/ hc' = [hc EXCEPT !.read_idx = hc.read_idx - 1])
  <2>1. hc' \in Members /\ hc'.iov_count = hc.iov_count
    <3>1. hc.read_idx - 1 \in Int BY <1>2
    <3>2. [hc EXCEPT !.read_idx = hc.read_idx - 1] \in Members BY <1>2, <3>1 DEF Members
    <3>3. [hc EXCEPT !.read_idx = hc.read_idx - 1].iov_count = hc.iov_count BY <1>2 DEF Members
    <3> QED BY <1>2, <1>5, <3>2, <3>3
  <2>2. HttpTypes' BY <1>1, <1>3, <1>5, <2>1 DEF HttpTypes
  <2>3. past.first \in Int BY <1>1 DEF HttpTypes, Histories
  <2>4. past' = past BY <1>5
  <2> QED BY <1>3, <1>4, <1>5, <2>1, <2>2, <2>3, <2>4, DropsIdle
<1>6. CASE hc.read_idx >= READ_BUFFER_SIZE BY <1>5, <1>6 DEF read_once
<1>7. CASE hc.read_idx < READ_BUFFER_SIZE
  <2>1. net.taken < net.arrived BY <1>3 DEF HttpInv, HttpTurns
  <2>2. Room \in Nat /\ Room > 0 /\ Room <= net.arrived - net.taken /\ Room <= READ_BUFFER_SIZE - hc.read_idx
    <3>1. net.arrived - net.taken \in Int /\ READ_BUFFER_SIZE - hc.read_idx \in Int BY <1>2
    <3>2. Room = IF net.arrived - net.taken <= READ_BUFFER_SIZE - hc.read_idx
                 THEN net.arrived - net.taken ELSE READ_BUFFER_SIZE - hc.read_idx
      BY <3>1, OfTwo DEF Room
    <3> QED BY <1>2, <1>7, <2>1, <3>2
  <2>3. read_once_LT \/ read_once_ET \/ read_once_ETReset BY <1>2, <1>7 DEF read_once
  <2>4. CASE Received(Room) /\ pc' \in {"parse", "dropped"}
    <3>1. PICK n \in Nat : n = Room BY <2>2
    <3>2. Received(n) BY <2>4, <3>1
    <3>3. Arrived(n) BY <1>3, <2>2, <2>4, <3>1, <3>2, ReceivedIs
    <3> QED BY <1>3, <2>2, <2>4, <3>1, <3>3, ArrivedKeeps
  <2>5. CASE ~Received(Room)
    <3>1. \/ read_once_ETReset
          \/ hc' = [hc EXCEPT !.read_idx = IF ConnReset THEN hc.read_idx - 1 ELSE hc.read_idx]
             /\ pc' = "dropped" /\ UNCHANGED <<buf, net, past>>
      BY <2>3, <2>5 DEF read_once_LT, read_once_ET
    <3>2. [hc EXCEPT !.read_idx = hc.read_idx] = hc BY <1>2 DEF Members
    <3> QED BY <1>5, <3>1, <3>2 DEF read_once_ETReset
  <2>6. CASE pc' \notin {"parse", "dropped"} BY <2>3, <2>6 DEF read_once_LT, read_once_ET, read_once_ETReset
  <2> QED BY <2>4, <2>5, <2>6
<1> QED BY <1>2, <1>6, <1>7

-----------------------------------------------------------------------------
(* write() *)

\* munmap() is called with the right size, so that the history stays as it is.
LEMMA UnmappedIs ==
    ASSUME HttpInv, pc \in {"write", "write2"}
    PROVE  Unmapped = past
<1>1. past \in Histories /\ ~past.wrong BY DEF HttpInv, HttpTypes, HttpUnmapsWhatItMapped
<1>2. ~(past.mapper = past.conn /\ hc.address # 0 /\ hc.address # hc.st_size + 1)
  BY DEF HttpInv, HttpMapped, Alive
<1>3. past.wrong = FALSE BY <1>1 DEF Histories
<1>4. (past.wrong \/ (past.mapper = past.conn /\ hc.address # 0 /\ hc.address # hc.st_size + 1)) = FALSE
  BY <1>2, <1>3
<1>5. Unmapped = [past EXCEPT !.wrong = FALSE] BY <1>4 DEF Unmapped
<1>6. [past EXCEPT !.wrong = past.wrong] = past BY <1>1 DEF Histories
<1> QED BY <1>3, <1>5, <1>6

\* write() leaves the parser alone: the connection goes on sending, or ends.
LEMMA WriteKeeps ==
    ASSUME HttpInv, pc \in {"write", "write2"}, hc' \in Members, Parser(hc') = Parser(hc),
           buf' = buf, how' = how, net' = net, line_status' = line_status,
           armed' \in {"no", "IN", "OUT"}, pc' \in {"write", "write2", "wait", "dropped"},
           pc' = "wait" => armed' = "OUT",
           past' \in Histories, past'.conn = past.conn, past'.first = past.first,
           past'.answer = past.answer, past'.mapper = past.mapper, past'.wrong = past.wrong,
           got' \in Seq(Int), HttpSending', HttpSentInOrder',
           hc'.address = 0 \/ (hc'.address = hc.address /\ hc'.st_size = hc.st_size /\ hc'.to_send > 0)
    PROVE  HttpInv'
<1>1. HttpTypes BY DEF HttpInv
<1>2. HttpTypes' BY <1>1 DEF HttpTypes
<1>3. hc'.start_line = hc.start_line /\ hc'.checked_idx = hc.checked_idx /\ hc'.read_idx = hc.read_idx
  BY DEF Parser
<1>4. HttpIndexesOrdered' BY <1>3 DEF HttpInv, HttpIndexesOrdered
<1>5. ~Idle' /\ Alive BY DEF Idle, Alive
<1>6. HttpTurns' /\ HttpParsing' BY <1>5 DEF HttpTurns, HttpParsing
<1>7. HttpMapped' BY <1>5 DEF HttpInv, HttpMapped
<1>8. HttpUnmapsWhatItMapped' /\ HttpAnswersRequest'
  BY DEF HttpInv, HttpUnmapsWhatItMapped, HttpAnswersRequest, GoodLine
<1> QED BY <1>2, <1>4, <1>6, <1>7, <1>8 DEF HttpInv

\* write() is done and the connection waits for its next request.
LEMMA NextRequest ==
    ASSUME HttpInv, pc \in {"write", "write2"}, NEW h \in Members, h.iov_count <= 1, hc' = HttpInitial(h),
           ~(past.mapper = past.conn /\ h.address # 0),
           past' = [past EXCEPT !.first = -1, !.answer = "none"],
           buf' = Empty, how' = how, net' = net, line_status' = line_status,
           armed' = "IN", pc' \in {"write2", "wait"}, got' \in Seq(Int), HttpSentInOrder'
    PROVE  HttpInv'
<1> USE HttpAssumption
<1>1. HttpTypes /\ past \in Histories BY DEF HttpInv, HttpTypes
<1>2. /\ h.string \in Words /\ h.iov \in [0 .. 1 -> Int \X Int] /\ h.iov_count \in Nat
      /\ h.address \in Int /\ h.st_size \in Nat
  BY DEF Members
<1>3. /\ hc' \in Members /\ hc'.read_idx = 0 /\ hc'.checked_idx = 0 /\ hc'.start_line = 0
      /\ hc'.check_state = "REQUESTLINE" /\ hc'.cgi = 0 /\ hc'.to_send = 0 /\ hc'.have_send = 0
      /\ hc'.iov_count = h.iov_count /\ hc'.address = h.address /\ hc'.st_size = h.st_size
  BY <1>2, Initial
<1>4. past' = [conn |-> past.conn, first |-> -1, shorts |-> past.shorts, answer |-> "none",
               mapper |-> past.mapper, wrong |-> past.wrong]
  BY <1>1 DEF Histories
<1>5. past' \in Histories
  <2>1. "none" \in Words /\ -1 \in Int BY DEF Words
  <2>2. /\ past.conn \in Nat /\ past.shorts \in Nat /\ past.mapper \in Nat /\ past.wrong \in BOOLEAN
    BY <1>1 DEF Histories
  <2> QED BY <1>4, <2>1, <2>2 DEF Histories
<1>6. /\ past'.conn = past.conn /\ past'.first = -1 /\ past'.answer = "none"
      /\ past'.mapper = past.mapper /\ past'.wrong = past.wrong
  BY <1>4
<1>7. buf' \in [0 .. READ_BUFFER_SIZE -> Words] /\ buf'[READ_BUFFER_SIZE] = NUL
  <2>1. NUL \in Words BY DEF Words
  <2> QED BY <2>1 DEF Empty
<1>8. HttpTypes' BY <1>1, <1>3, <1>5, <1>7 DEF HttpTypes
<1>9. HttpIndexesOrdered' BY <1>3 DEF HttpIndexesOrdered
<1>10. HttpTurns' BY <1>3 DEF HttpTurns
<1>11. HttpSending' BY <1>3 DEF HttpSending
<1>12. HttpMapped' BY <1>3, <1>6 DEF HttpInv, HttpMapped
<1>13. HttpUnmapsWhatItMapped' BY <1>6 DEF HttpInv, HttpUnmapsWhatItMapped
<1>14. HttpParsing' BY <1>3, <1>6 DEF HttpParsing
<1>15. HttpAnswersRequest' BY <1>6 DEF HttpAnswersRequest
<1> QED BY <1>8, <1>9, <1>10, <1>11, <1>12, <1>13, <1>14, <1>15 DEF HttpInv

\* The beginning of a sequence.
LEMMA Beginning ==
    ASSUME NEW s \in Seq(Int), NEW t \in Nat, t <= Len(s)
    PROVE  LET u == SubSeq(s, 1, t)
           IN  u \in Seq(Int) /\ Len(u) = t /\ \A k \in 1 .. t : u[k] = s[k]
<1>1. \A i \in 1 .. t : s[i] \in Int OBVIOUS
<1>2. PICK u : u = SubSeq(s, 1, t) OBVIOUS
<1>3. /\ u \in Seq(Int) /\ Len(u) = IF 1 <= t THEN t - 1 + 1 ELSE 0
      /\ \A i \in 1 .. t - 1 + 1 : u[i] = s[1 + i - 1]
  BY <1>1, <1>2
<1> QED BY <1>2, <1>3

\* writev() sends t bytes: they follow the ones that were sent.
LEMMA SentNext ==
    ASSUME HttpInv, pc \in {"write", "write2"}, hc.to_send # 0, NEW t \in 0 .. Len(Offered(hc)),
           got' = got \o SubSeq(Offered(hc), 1, t)
    PROVE  /\ HttpSentInOrder' /\ got' \in Seq(Int)
           /\ Len(got') = hc.have_send + t /\ hc.have_send \in Nat /\ hc.to_send \in Int
           /\ hc.to_send > 0 /\ t \in Nat /\ t <= hc.to_send
<1>1. HttpTypes /\ hc \in Members /\ got \in Seq(Int) BY DEF HttpInv, HttpTypes
<1>2. hc.iov_count <= 1 BY DEF HttpInv, HttpSending
<1>3. hc.to_send \in Int /\ hc.have_send \in Int /\ hc.iov[0][1] \in Int /\ hc.iov[0][2] \in Int
  <2>1. hc.iov \in [0 .. 1 -> Int \X Int] /\ hc.to_send \in Int /\ hc.have_send \in Int
    BY <1>1 DEF Members
  <2>2. hc.iov[0] \in Int \X Int BY <2>1
  <2> QED BY <2>1, <2>2
<1>4. /\ hc.to_send > 0 /\ hc.have_send = Len(got) /\ hc.iov[0][2] <= hc.to_send
      /\ hc.iov[0][2] > 0 => hc.iov[0][1] = hc.have_send
  BY <1>3 DEF HttpInv, HttpSending, Alive
<1>5. PICK n \in Nat, s \in Seq(Int) :
        /\ n = Length(hc) /\ s = Offered(hc) /\ Len(s) = n
        /\ \A k \in 1 .. n : s[k] = hc.iov[0][1] + k - 1
  BY <1>1, <1>2, OfferedIs
<1>6. t \in Nat /\ t <= n BY <1>5
<1>7. n > 0 => n = hc.iov[0][2] BY <1>3, <1>5 DEF Length
<1>8. t <= hc.to_send BY <1>3, <1>4, <1>6, <1>7
<1>9. PICK g \in Nat : g = Len(got) BY <1>1
<1>10. PICK u : u = SubSeq(s, 1, t) OBVIOUS
<1>11. u \in Seq(Int) /\ Len(u) = t /\ \A k \in 1 .. t : u[k] = s[k]
  BY <1>5, <1>6, <1>10, Beginning
<1>12. got' = got \o u BY <1>5, <1>10
<1>13. /\ got' \in Seq(Int) /\ Len(got') = g + t
       /\ \A i \in 1 .. g + t : got'[i] = IF i <= g THEN got[i] ELSE u[i - g]
  <2>1. PICK a \in Seq(Int), c \in Seq(Int) : a = got /\ c = u BY <1>1, <1>11
  <2>2. /\ a \o c \in Seq(Int) /\ Len(a \o c) = Len(a) + Len(c)
        /\ \A i \in 1 .. Len(a) + Len(c) : (a \o c)[i] = IF i <= Len(a) THEN a[i] ELSE c[i - Len(a)]
    OBVIOUS
  <2>3. Len(a) = g /\ Len(c) = t /\ got' = a \o c BY <1>9, <1>11, <1>12, <2>1
  <2> QED BY <2>1, <2>2, <2>3
<1>14. \A i \in 1 .. g + t : got'[i] = i - 1
  <2> SUFFICES ASSUME NEW i \in 1 .. g + t PROVE got'[i] = i - 1 OBVIOUS
  <2>1. CASE i <= g
    <3>1. DOMAIN got = 1 .. g BY <1>1, <1>9
    <3>2. i \in DOMAIN got BY <2>1, <3>1
    <3> QED BY <1>13, <2>1, <3>2 DEF HttpInv, HttpSentInOrder
  <2>2. CASE i > g
    <3>1. PICK k \in 1 .. t : k = i - g BY <2>2
    <3>2. n > 0 /\ k \in 1 .. n BY <1>6, <3>1
    <3>3. hc.iov[0][1] = g BY <1>4, <1>7, <1>9, <3>2
    <3>4. u[k] = g + k - 1 BY <1>5, <1>11, <3>1, <3>2, <3>3
    <3>5. got'[i] = u[k] BY <1>13, <2>2, <3>1
    <3>6. g + k - 1 = i - 1 BY <1>6, <3>1
    <3> QED BY <3>4, <3>5, <3>6
  <2>3. i <= g \/ i > g BY <1>6
  <2> QED BY <2>1, <2>2, <2>3
<1>15. DOMAIN got' = 1 .. g + t BY <1>13
<1>16. HttpSentInOrder' BY <1>14, <1>15 DEF HttpSentInOrder
<1> QED BY <1>3, <1>4, <1>6, <1>8, <1>9, <1>13, <1>16

\* write() with nothing to send.
LEMMA NothingStep ==
    ASSUME HttpInv, pc \in {"write", "write2"}, write_nothing,
           how' = how, net' = net, line_status' = line_status
    PROVE  HttpInv'
<1>1. /\ hc.to_send = 0 /\ buf' = Empty /\ got' = <<>> /\ hc' = HttpInitial(hc) /\ armed' = "IN"
      /\ past' = [past EXCEPT !.first = -1, !.answer = "none"] /\ pc' \in {"write2", "wait"}
  BY DEF write_nothing, Returns
<1>2. hc \in Members /\ hc.iov_count <= 1 BY DEF HttpInv, HttpTypes, HttpSending
<1>3. ~(past.mapper = past.conn /\ hc.address # 0) BY <1>1 DEF HttpInv, HttpMapped, Alive
<1>4. got' \in Seq(Int) BY <1>1
<1>5. HttpSentInOrder' BY <1>1 DEF HttpSentInOrder
<1> QED BY <1>1, <1>2, <1>3, <1>4, <1>5, NextRequest

\* writev() refuses.
LEMMA FailStep ==
    ASSUME HttpInv, pc \in {"write", "write2"}, write_fails,
           how' = how, net' = net, line_status' = line_status
    PROVE  HttpInv'
<1>1. hc \in Members /\ got \in Seq(Int) /\ past \in Histories /\ armed \in {"no", "IN", "OUT"}
  BY DEF HttpInv, HttpTypes
<1>2. got' = got /\ buf' = buf /\ hc.to_send # 0 BY DEF write_fails
<1>3. Alive /\ HttpSending /\ HttpSentInOrder BY DEF Alive, HttpInv
<1>4. HttpSentInOrder' BY <1>2, <1>3 DEF HttpSentInOrder
<1>5. hc.to_send > 0
  <2>1. hc.to_send \in Int BY <1>1 DEF Members
  <2> QED BY <1>2, <1>3, <2>1 DEF HttpSending
<1>6. CASE Returns(TRUE, hc, "OUT") /\ past' = past
  <2>1. hc' = hc /\ armed' = "OUT" /\ pc' \in {"write2", "wait"} BY <1>6 DEF Returns
  <2>2. HttpSending' BY <1>2, <1>3, <1>6, <2>1 DEF HttpSending
  <2> QED BY <1>1, <1>2, <1>4, <1>5, <1>6, <2>1, <2>2, WriteKeeps
<1>7. CASE Returns(FALSE, unmap(hc), armed) /\ past' = Unmapped
  <2>1. hc' = unmap(hc) /\ armed' = armed /\ pc' \in {"dropped", "write2"} BY <1>7 DEF Returns
  <2>2. past' = past BY <1>7, UnmappedIs
  <2>3. /\ hc' \in Members /\ Parser(hc') = Parser(hc) /\ hc'.address = 0
        /\ hc'.to_send = hc.to_send /\ hc'.have_send = hc.have_send
        /\ hc'.iov = hc.iov /\ hc'.iov_count = hc.iov_count
    BY <1>1, <2>1, Unmaps
  <2>4. HttpSending' BY <1>2, <1>3, <2>2, <2>3 DEF HttpSending
  <2> QED BY <1>1, <1>2, <1>4, <2>1, <2>2, <2>3, <2>4, WriteKeeps
<1> QED BY <1>6, <1>7 DEF write_fails
\* writev() sends.
LEMMA SendStep ==
    ASSUME HttpInv, pc \in {"write", "write2"}, write_sends,
           how' = how, net' = net, line_status' = line_status
    PROVE  HttpInv'
<1>1. /\ hc \in Members /\ past \in Histories /\ armed \in {"no", "IN", "OUT"}
      /\ hc.iov_count <= 1 /\ Alive
  BY DEF HttpInv, HttpTypes, HttpSending, Alive
<1>2. hc.to_send # 0 BY DEF write_sends
<1>3. PICK t \in 0 .. Len(Offered(hc)) :
        LET h == AfterWritev(hc, t)
            short == t < Len(Offered(hc))
        IN  /\ t > 0 \/ Offered(hc) = <<>>
            /\ got' = got \o SubSeq(Offered(hc), 1, t)
            /\ IF h.to_send > 0
               THEN /\ hc' = h
                    /\ past' = [past EXCEPT !.shorts = IF short THEN @ + 1 ELSE @]
                    /\ UNCHANGED <<armed, pc, buf>>
               ELSE /\ past' = IF h.linger THEN [Unmapped EXCEPT !.first = -1, !.answer = "none"]
                               ELSE Unmapped
                    /\ Returns(h.linger, IF h.linger THEN HttpInitial(unmap(h)) ELSE unmap(h), "IN")
                    /\ buf' = IF h.linger THEN Empty ELSE buf
  BY DEF write_sends
<1>4. /\ HttpSentInOrder' /\ got' \in Seq(Int)
      /\ Len(got') = hc.have_send + t /\ hc.have_send \in Nat /\ hc.to_send \in Int
      /\ hc.to_send > 0 /\ t \in Nat /\ t <= hc.to_send
  BY <1>2, <1>3, SentNext
<1>5. PICK h : h = AfterWritev(hc, t) OBVIOUS
<1>6. /\ h \in Members /\ Parser(h) = Parser(hc)
      /\ h.iov_count = hc.iov_count /\ h.address = hc.address /\ h.st_size = hc.st_size
      /\ h.have_send = hc.have_send + t /\ h.to_send = hc.to_send - t
      /\ h.iov[0][1] = IF hc.to_send - t >= hc.iov[0][2] THEN hc.iov[0][1] ELSE hc.have_send + t
      /\ h.iov[0][2] = IF hc.to_send - t >= hc.iov[0][2] THEN 0
                       ELSE hc.iov[0][2] - (hc.have_send + t)
  <2>1. t \in Int BY <1>4
  <2> QED BY <1>1, <1>5, <2>1, Sends
<1>7. hc.iov[0][2] \in Int
  <2>1. hc.iov \in [0 .. 1 -> Int \X Int] BY <1>1 DEF Members
  <2>2. hc.iov[0] \in Int \X Int BY <2>1
  <2> QED BY <2>2
<1>8. CASE h.to_send > 0
  <2>1. hc' = h /\ armed' = armed /\ pc' = pc /\ buf' = buf BY <1>3, <1>5, <1>8
  <2>2. PICK n : n = IF t < Len(Offered(hc)) THEN past.shorts + 1 ELSE past.shorts OBVIOUS
  <2>3. past' = [past EXCEPT !.shorts = n] BY <1>3, <1>5, <1>8, <2>2
  <2>4. past.shorts \in Nat /\ n \in Nat
    <3>1. past.shorts \in Nat BY <1>1 DEF Histories
    <3> QED BY <2>2, <3>1
  <2>5. past' = [conn |-> past.conn, first |-> past.first, shorts |-> n, answer |-> past.answer,
                 mapper |-> past.mapper, wrong |-> past.wrong]
    BY <1>1, <2>3 DEF Histories
  <2>6. past' \in Histories
    <3>1. /\ past.conn \in Nat /\ past.first \in Int /\ past.answer \in Words /\ past.mapper \in Nat
          /\ past.wrong \in BOOLEAN
      BY <1>1 DEF Histories
    <3> QED BY <2>4, <2>5, <3>1 DEF Histories
  <2>7. /\ past'.conn = past.conn /\ past'.first = past.first /\ past'.shorts = n
        /\ past'.answer = past.answer /\ past'.mapper = past.mapper /\ past'.wrong = past.wrong
    BY <2>5
  <2>8. hc.iov[0][2] <= hc.to_send BY <1>1, <1>4 DEF HttpInv, HttpSending
  <2>9. h.iov[0][2] <= h.to_send /\ (h.iov[0][2] > 0 => h.iov[0][1] = h.have_send)
    BY <1>4, <1>6, <1>7, <1>8, <2>8
  <2>10. ASSUME past.answer \notin {"file", "big"}
         PROVE  /\ h.iov_count = 1 /\ n # 0
                /\ n <= 1 => h.iov[0][2] = h.to_send
    <3>1. /\ hc.iov_count = 1
          /\ past.shorts <= 1 => hc.iov[0][2] = hc.to_send
          /\ past.shorts = 0 => hc.have_send = 0
      BY <1>1, <1>4, <2>10 DEF HttpInv, HttpSending
    <3>2. Len(Offered(hc)) = Length(hc) /\ (Offered(hc) = <<>> <=> Length(hc) = 0) BY <1>1, OfferedIs
    <3>3. past.shorts <= 1 => Length(hc) = hc.to_send BY <1>4, <3>1 DEF Length
    <3>4. past.shorts <= 1 => t > 0 /\ t < hc.to_send /\ n = past.shorts + 1
      BY <1>3, <1>4, <1>6, <1>8, <2>2, <3>2, <3>3
    <3>5. n <= 1 => past.shorts = 0 BY <2>2, <2>4, <3>4
    <3>6. n # 0 BY <2>2, <2>4, <3>4
    <3>7. n <= 1 => h.iov[0][2] = h.to_send BY <1>4, <1>6, <3>1, <3>4, <3>5
    <3> QED BY <1>6, <3>1, <3>6, <3>7
  <2>11. HttpSending'
    <3>1. h.have_send = Len(got') BY <1>4, <1>6
    <3>2. h.to_send \in Int BY <1>6 DEF Members
    <3>3. hc'.iov_count <= 1 BY <1>1, <1>6, <2>1
    <3>4. /\ hc'.to_send >= 0 /\ hc'.have_send = Len(got') /\ hc'.iov[0][2] <= hc'.to_send
          /\ hc'.iov[0][2] > 0 => hc'.iov[0][1] = hc'.have_send
      BY <1>8, <2>1, <2>9, <3>1, <3>2
    <3>5. past'.answer \notin {"file", "big"} =>
            /\ hc'.iov_count = 1 /\ past'.shorts # 0
            /\ past'.shorts <= 1 => hc'.iov[0][2] = hc'.to_send
      BY <2>1, <2>7, <2>10
    <3> QED BY <3>3, <3>4, <3>5 DEF HttpSending
  <2> QED BY <1>1, <1>4, <1>6, <1>8, <2>1, <2>6, <2>7, <2>11, WriteKeeps
<1>9. CASE ~(h.to_send > 0)
  <2>1. h.to_send = 0 BY <1>4, <1>6, <1>9
  <2>2. Unmapped = past BY UnmappedIs
  <2>3. PICK g : g = unmap(h) OBVIOUS
  <2>4. /\ g \in Members /\ Parser(g) = Parser(h) /\ g.address = 0 /\ g.to_send = 0
        /\ g.iov_count = hc.iov_count
    BY <1>6, <2>1, <2>3, Unmaps
  <2>5. CASE h.linger
    <3>1. /\ past' = [past EXCEPT !.first = -1, !.answer = "none"] /\ buf' = Empty
          /\ Returns(TRUE, HttpInitial(g), "IN")
      <4>1. h.linger = TRUE
        <5>1. h.linger \in BOOLEAN BY <1>6 DEF Members
        <5> QED BY <2>5, <5>1
      <4> QED BY <1>3, <1>5, <1>9, <2>2, <2>3, <4>1
    <3>2. hc' = HttpInitial(g) /\ armed' = "IN" /\ pc' \in {"write2", "wait"} BY <3>1 DEF Returns
    <3> QED BY <1>1, <1>4, <2>4, <3>1, <3>2, NextRequest
  <2>6. CASE ~h.linger
    <3>1. past' = past /\ buf' = buf /\ hc' = g /\ armed' = "IN" /\ pc' \in {"dropped", "write2"}
      BY <1>3, <1>5, <1>9, <2>2, <2>3, <2>6 DEF Returns
    <3>2. HttpSending' BY <1>1, <2>4, <3>1 DEF HttpSending
    <3>3. Parser(hc') = Parser(hc) BY <1>6, <2>4, <3>1
    <3> QED BY <1>1, <1>4, <2>4, <3>1, <3>2, <3>3, WriteKeeps
  <2> QED BY <2>5, <2>6
<1> QED BY <1>8, <1>9

-----------------------------------------------------------------------------
(* The theorems *)

\* Every step keeps the invariant.
LEMMA HttpInvStep ==
    ASSUME HttpInv, [HttpNext]_httpVars
    PROVE  HttpInv'
<1>1. CASE Client_Arrive \/ Client_Leave BY <1>1, NetStep
<1>2. CASE Http_Accept BY <1>2, AcceptStep
<1>3. CASE Http_Hangup \/ Http_Expire \/ Http_Readable \/ Http_Writable BY <1>3, EventStep
<1>4. CASE read_once BY <1>4, ReadStep
<1>5. CASE process_read BY <1>5, ProcessStep
<1>6. CASE write
  <2>1. pc \in {"write", "write2"} /\ how' = how /\ net' = net /\ line_status' = line_status
    BY <1>6 DEF write
  <2> QED BY <1>6, <2>1, NothingStep, FailStep, SendStep DEF write
<1>7. CASE UNCHANGED httpVars
  <2>1. /\ how' = how /\ net' = net /\ hc' = hc /\ buf' = buf /\ armed' = armed /\ pc' = pc
        /\ line_status' = line_status /\ got' = got /\ past' = past
    BY <1>7 DEF httpVars
  <2>2. HttpTypes' /\ HttpIndexesOrdered' BY <2>1 DEF HttpInv, HttpTypes, HttpIndexesOrdered
  <2>3. (Alive' <=> Alive) /\ (Idle' <=> Idle) BY <2>1 DEF Alive, Idle
  <2>4. HttpTurns' /\ HttpSending' /\ HttpSentInOrder'
    BY <2>1, <2>3 DEF HttpInv, HttpTurns, HttpSending, HttpSentInOrder
  <2>5. HttpMapped' /\ HttpUnmapsWhatItMapped'
    BY <2>1, <2>3 DEF HttpInv, HttpMapped, HttpUnmapsWhatItMapped
  <2>6. HttpParsing'
    <3>1. (Good' <=> Good) /\ (Fresh' <=> Fresh) BY <2>1 DEF Good, GoodLine, Fresh
    <3>2. Cut(buf, hc.checked_idx)' <=> Cut(buf, hc.checked_idx) BY <2>1, <3>1 DEF Cut, EndsAt
    <3>3. Empty' = Empty BY DEF Empty
    <3> QED BY <2>1, <2>3, <3>1, <3>2, <3>3 DEF HttpInv, HttpParsing
  <2>7. HttpAnswersRequest' BY <2>1 DEF HttpInv, HttpAnswersRequest, GoodLine
  <2> QED BY <2>2, <2>4, <2>5, <2>6, <2>7 DEF HttpInv
<1> QED BY <1>1, <1>2, <1>3, <1>4, <1>5, <1>6, <1>7 DEF HttpNext

\* The response of an error is sent to its end, unless there was a second short write.
LEMMA ErrorsDoNotStall == HttpInv => HttpErrorsDoNotStall
<1> SUFFICES ASSUME HttpInv, HttpStalled, past.answer \notin {"file", "big"}, ~(past.shorts > 1) PROVE FALSE
  BY DEF HttpErrorsDoNotStall
<1>1. hc \in Members /\ hc.iov_count <= 1 /\ Alive /\ hc.to_send > 0 /\ Offered(hc) = <<>>
  BY DEF HttpInv, HttpTypes, HttpSending, HttpStalled, Alive
<1>2. past.shorts <= 1
  <2>1. past.shorts \in Nat BY DEF HttpInv, HttpTypes, Histories
  <2> QED BY <2>1
<1>3. hc.iov_count = 1 /\ hc.iov[0][2] = hc.to_send BY <1>1, <1>2 DEF HttpInv, HttpSending
<1>4. Length(hc) = 0 BY <1>1, OfferedIs
<1>5. hc.to_send \in Int BY <1>1 DEF Members
<1> QED BY <1>1, <1>3, <1>4, <1>5 DEF Length

\* The invariant holds for ever.
LEMMA HttpInvariant == HttpSpec => []HttpInv
<1>1. HttpInit => HttpInv BY HttpInitially
<1>2. HttpInv /\ [HttpNext]_httpVars => HttpInv' BY HttpInvStep
<1> QED BY <1>1, <1>2, PTL DEF HttpSpec

\* Whatever the sizes of the buffers, whatever the clients send and however the socket
\* cuts it: read_once() and process_read() keep the indexes of the read buffer in order,
\* write() sends every byte of a response once and in order, and it stays in its loop for
\* ever only in the two ways that HttpErrorsDoNotStall names.
THEOREM BuffersRight == HttpSpec => []HttpBuffersRight
<1>1. HttpInv => HttpBuffersRight BY ErrorsDoNotStall DEF HttpInv, HttpBuffersRight
<1> QED BY <1>1, HttpInvariant, PTL

\* The first request of a connection is answered by what its line names if the line
\* arrived whole with the first read, and with 400 otherwise, in both builds, both trigger
\* modes and both actor modes.
THEOREM FirstRequestAnswered == HttpSpec => []HttpAnswersRequest
<1>1. HttpInv => HttpAnswersRequest BY DEF HttpInv
<1> QED BY <1>1, HttpInvariant, PTL

\* unmap() gives munmap() the size of the mapping that this connection made.
THEOREM UnmapsWhatItMapped == HttpSpec => []HttpUnmapsWhatItMapped
<1>1. HttpInv => HttpUnmapsWhatItMapped BY DEF HttpInv
<1> QED BY <1>1, HttpInvariant, PTL

=============================================================================
