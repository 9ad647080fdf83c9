------------------------------ MODULE HttpConn ------------------------------
(***************************************************************************)
(* One HttpConn object of TinyWebServer/http and the connections it serves *)
(* one after the other: the parser of the request (parse_line and the      *)
(* loop of process_read), do_request, process_write and write().           *)
(*                                                                         *)
(* The callers are the event loop and the workers (see EventLoop for their *)
(* interleavings); here they call the methods in the order EPOLLONESHOT    *)
(* allows: read_once() and process() when the socket is readable, write()  *)
(* when it is writable.  A call that returns false ends in                 *)
(* WebServer::del_timer, which aborts the process (see EventLoop).         *)
(*                                                                         *)
(* A byte of the model is a word of the request: a method, a target with   *)
(* its version, a header, a word of the body, CR, LF or NUL.  The bytes of *)
(* a response are numbered from 0, the header first, then the file.        *)
(*                                                                         *)
(* process_read() has no return after its loop.  The two builds of the     *)
(* makefile differ there: unoptimised, the value left by the loop          *)
(* condition is returned, which is NO_REQUEST; optimised, the compiler     *)
(* drops the exit and runs the body whatever parse_line() says.            *)
(***************************************************************************)
EXTENDS Integers, Sequences, FiniteSetsExt

CONSTANTS READ_BUFFER_SIZE, WRITE_BUFFER_SIZE,
          Streams,      \* what clients send
          MaxConns,     \* how many connections the object serves
          ShortWrites   \* how many short writes the network may cause

ASSUME HttpAssumption ==
    /\ READ_BUFFER_SIZE \in Nat /\ READ_BUFFER_SIZE >= 4 /\ WRITE_BUFFER_SIZE \in Nat
    /\ Streams \subseteq Seq(STRING)
    /\ MaxConns \in Nat /\ ShortWrites \in Nat

VARIABLES how,     \* the build, the trigger mode and the actor mode
          net,     \* the client: its stream, what has arrived, what is read, its end
          hc,      \* the members of the object
          buf,     \* m_read_buf; the byte behind it is the low byte of m_read_idx,
                   \* which is NUL whenever that byte is looked at
          armed,   \* the event epoll waits for
          pc,      \* the method that runs
          line_status,
          got,     \* the bytes of the response that were sent, in that order
          past     \* history: connection number, first read (4 or more: 4; -1: not the first
                   \* request), short writes, answer, connection of the mapping, wrong munmap()

httpVars == <<how, net, hc, buf, armed, pc, line_status, got, past>>

NUL == "NUL"
Empty == [i \in 0 .. READ_BUFFER_SIZE |-> NUL]

\* Fault: init() does not reset the state of the parser.
Fault_InitKeepsState(old) ==
    [read_idx |-> 0, checked_idx |-> 0, start_line |-> 0,
     check_state |-> IF "url" \in DOMAIN old THEN old.check_state ELSE "REQUESTLINE",
     content_length |-> 0, linger |-> FALSE, cgi |-> 0,
     url |-> IF "url" \in DOMAIN old THEN old.url ELSE NUL, write_idx |-> 0,
     to_send |-> 0, have_send |-> 0, string |-> old.string, iov |-> old.iov,
     iov_count |-> old.iov_count, address |-> old.address, st_size |-> old.st_size]

\* What init() does not reset is kept from the connection before.
HttpInitial(old) ==
    [read_idx |-> 0, checked_idx |-> 0, start_line |-> 0, check_state |-> "REQUESTLINE",
     content_length |-> 0, linger |-> FALSE, cgi |-> 0, url |-> NUL, write_idx |-> 0,
     to_send |-> 0, have_send |-> 0, string |-> old.string, iov |-> old.iov,
     iov_count |-> old.iov_count, address |-> old.address, st_size |-> old.st_size]

\* The array of objects is fresh memory from mmap(): members that no
\* constructor sets are zero.
NewObject == [string |-> NUL, iov |-> [i \in 0 .. 1 |-> <<0, 0>>], iov_count |-> 0,
              address |-> 0, st_size |-> 0]

NoClient == [stream |-> <<>>, arrived |-> 0, taken |-> 0, peer |-> "gone"]

HttpInit ==
    /\ how \in [build : {"-g", "-O2"}, trig : {0, 1}, actor : {0, 1}]
    /\ how.actor = 1 => how.build = "-g"   \* -O2: append() crashes, see EventLoop
    /\ net = NoClient
    /\ hc = HttpInitial(NewObject)
    /\ buf = Empty
    /\ armed = "no" /\ pc = "closed" /\ line_status = "OK" /\ got = <<>>
    /\ past = [conn |-> 0, first |-> 0, shorts |-> 0, answer |-> "none",
               mapper |-> 0, wrong |-> FALSE]

-----------------------------------------------------------------------------
(* The client and the kernel *)

\* What arrives while a method runs is seen by the next read_once().  The first word
\* wakes the server up; more may arrive before the call.
Client_Arrive ==
    /\ net.peer = "open" /\ net.arrived < Len(net.stream)
    /\ (pc = "wait" /\ armed = "IN" /\ net.taken = net.arrived) \/ pc = "read"
    /\ net' = [net EXCEPT !.arrived = @ + 1]
    /\ UNCHANGED <<how, hc, buf, armed, pc, line_status, got, past>>

\* Only epoll and recv() see that the peer shut down; for epoll a reset is no different.
Client_Leave ==
    /\ net.peer = "open"
    /\ \/ pc \in {"wait", "read"} /\ net' = [net EXCEPT !.peer = "shut"]
       \/ pc \in {"read", "write", "write2"} /\ net' = [net EXCEPT !.peer = "reset"]
    /\ UNCHANGED <<how, hc, buf, armed, pc, line_status, got, past>>

\* accept() and init(sockfd, ...)
Http_Accept ==
    /\ pc = "closed" /\ past.conn < MaxConns
    /\ \E s \in Streams :
         net' = [stream |-> s, arrived |-> 0, taken |-> 0, peer |-> "open"]
    /\ hc' = HttpInitial(hc)
    /\ buf' = Empty
    /\ armed' = "IN" /\ pc' = "wait" /\ got' = <<>>
    /\ past' = [past EXCEPT !.conn = @ + 1, !.first = 0, !.shorts = 0, !.answer = "none"]
    /\ UNCHANGED <<how, line_status>>

\* EPOLLRDHUP, EPOLLHUP or EPOLLERR: the event loop calls del_timer().
Http_Hangup ==
    /\ pc = "wait" /\ net.peer # "open" /\ armed # "no"
    /\ armed' = "no" /\ pc' = "dropped"
    /\ UNCHANGED <<how, net, hc, buf, line_status, got, past>>

\* The timer of an idle connection expires: cb_func() closes the socket.
Http_Expire ==
    /\ pc = "wait"
    /\ armed' = "no" /\ pc' = "closed"
    /\ net' = NoClient /\ got' = <<>>
    /\ past' = [past EXCEPT !.first = 0, !.shorts = 0, !.answer = "none"]
    /\ UNCHANGED <<how, hc, buf, line_status>>

Http_Readable ==
    /\ pc = "wait" /\ armed = "IN" /\ net.peer = "open" /\ net.taken < net.arrived
    /\ armed' = "no" /\ pc' = "read"
    /\ UNCHANGED <<how, net, hc, buf, line_status, got, past>>

Http_Writable ==
    /\ pc = "wait" /\ armed = "OUT" /\ net.peer = "open"
    /\ armed' = "no" /\ pc' = "write"
    /\ UNCHANGED <<how, net, hc, buf, line_status, got, past>>

-----------------------------------------------------------------------------
(* read_once() *)

\* n words go from the socket to the end of the buffer.
Received(n) ==
    /\ buf' = [i \in DOMAIN buf |-> IF i \in hc.read_idx .. hc.read_idx + n - 1
                                    THEN net.stream[net.taken + (i - hc.read_idx) + 1]
                                    ELSE buf[i]]
    /\ net' = [net EXCEPT !.taken = @ + n]
    /\ hc' = [hc EXCEPT !.read_idx = @ + n]
    /\ past' = [past EXCEPT !.first = IF @ = 0 THEN Min({n, 4}) ELSE @]

Room == Min({net.arrived - net.taken, READ_BUFFER_SIZE - hc.read_idx})

\* Whether recv() fails although nothing is wrong with the buffer.
ConnReset == net.peer = "reset"

\* LT: one recv().  Its -1 is added to m_read_idx before it is looked at.
read_once_LT ==
    /\ how.trig = 0
    /\ \/ ~ConnReset /\ Room > 0 /\ Received(Room) /\ pc' = "parse"
       \/ /\ ConnReset \/ Room = 0
          /\ hc' = [hc EXCEPT !.read_idx = IF ConnReset THEN @ - 1 ELSE @]
          /\ pc' = "dropped" /\ UNCHANGED <<buf, net, past>>

\* ET: recv() until EAGAIN.  A full buffer makes recv() return 0, like the end of
\* the stream; both make what was read useless.
read_once_ET ==
    /\ how.trig = 1
    /\ ~ConnReset /\ Received(Room)
    /\ pc' = IF net.peer = "shut" \/ hc.read_idx + Room = READ_BUFFER_SIZE
             THEN "dropped" ELSE "parse"

\* In ET mode a reset is noticed by the first recv().
read_once_ETReset ==
    /\ how.trig = 1 /\ ConnReset
    /\ pc' = "dropped" /\ UNCHANGED <<buf, net, hc, past>>

read_once ==
    /\ pc = "read"
    /\ IF hc.read_idx >= READ_BUFFER_SIZE
       THEN pc' = "dropped" /\ UNCHANGED <<buf, net, hc, past>>
       ELSE read_once_LT \/ read_once_ET \/ read_once_ETReset
    /\ line_status' = "OK"          \* process_read() starts
    /\ UNCHANGED <<how, armed, got>>

-----------------------------------------------------------------------------
(* process_read() *)

Line(status, checked, b) == [status |-> status, checked |-> checked, buf |-> b]

\* parse_line(): the status, the new m_checked_idx and the new buffer.
parse_line(b, checked, read) ==
    LET stops == {i \in checked .. read - 1 : b[i] \in {"CR", "LF"}}
        i == Min(stops)
    IN  CASE stops = {} -> Line("OPEN", Max({checked, read}), b)
          [] stops # {} /\ b[i] = "CR" /\ i + 1 = read -> Line("OPEN", i, b)
          [] stops # {} /\ b[i] = "CR" /\ i + 1 # read /\ b[i + 1] = "LF" ->
               Line("OK", i + 2, [b EXCEPT ![i] = NUL, ![i + 1] = NUL])
          [] stops # {} /\ b[i] = "LF" /\ i > 1 /\ b[i - 1] = "CR" ->
               Line("OK", i + 1, [b EXCEPT ![i - 1] = NUL, ![i] = NUL])
          [] OTHER -> Line("BAD", i, b)

\* The string that starts at i.
Text(b, i) ==
    LET end == Min({j \in i .. READ_BUFFER_SIZE : b[j] = NUL})
    IN  [k \in 1 .. end - i |-> b[i + k - 1]]

\* The targets that begin with a slash and have version 1.1.  An absolute target
\* does not: the prefixes "http:://" and "https:://" match none.
Targets == {"file", "big", "gone", "secret", "dir", "empty", "root", "cgi", "static"}

parse_request_line(text) ==
    IF Len(text) = 2 /\ text[1] \in {"GET", "POSE"} /\ text[2] \in Targets
    THEN "NO_REQUEST" ELSE "BAD_REQUEST"

\* "/" becomes "/judge.html", in the buffer: with one blank on each side of the
\* target the last letter replaces the CR of the line, or follows the data.
JudgePage(b, i) ==
    IF b[i + 1] = "root" THEN [b EXCEPT ![i + 2] = "l", ![i + 3] = NUL] ELSE b

parse_headers(text, h) ==
    IF text # <<>> \/ h.content_length # 0 THEN "NO_REQUEST" ELSE "GET_REQUEST"

\* "Connection" is compared with its NUL, so only a bare "Connection" matches,
\* and what follows the NUL is compared with "keep-alive".
AfterHeader(b, i, h) ==
    LET text == Text(b, i)
    IN  [h EXCEPT
          !.check_state = IF text = <<>> /\ h.content_length # 0 THEN "CONTENT" ELSE @,
          !.linger = @ \/ (text = <<"Connection">> /\ Text(b, i + 2) = <<"keep-alive">>),
          !.content_length = IF text # <<>> /\ Head(text) = "Content-length: 2"
                             THEN 2 ELSE @]

parse_content(h) ==
    IF h.read_idx >= h.content_length + h.checked_idx THEN "GET_REQUEST" ELSE "NO_REQUEST"

-----------------------------------------------------------------------------
(* do_request() and process_write(): the rest of process() *)

\* The file behind a target.  After a registration or a login it is the page that
\* tells the outcome (see UserTable); "0" to "7" name pages.
PageOf(h) ==
    CASE h.url \in {"root", "static"} -> "file"
      [] h.url = "cgi" -> IF h.cgi = 1 THEN "file" ELSE "gone"
      [] OTHER -> h.url

SizeOf == [file |-> 2, big |-> 6, secret |-> 3, dir |-> 1, empty |-> 0]

\* A POSE without a body reads m_string, which is NULL unless an earlier
\* connection left it pointing into the buffer.
ReadsNull(h) == h.cgi = 1 /\ h.url = "cgi" /\ h.string = NUL

CodeOf(page) ==
    CASE page = "gone"   -> "NO_RESOURCE"
      [] page = "secret" -> "FORBIDDEN_REQUEST"
      [] page = "dir"    -> "BAD_REQUEST"
      [] OTHER           -> "FILE_REQUEST"

\* Fault: mmap() before stat().
Fault_MapThenStat(h) ==
    LET page == PageOf(h)
    IN  [h EXCEPT !.st_size = IF page = "gone" THEN @ ELSE SizeOf[page],
                  !.address = IF CodeOf(page) = "FILE_REQUEST" THEN h.st_size + 1 ELSE @]

\* stat() and mmap(): m_file_address is 0, or 1 more than the size of the mapping.
\* A mapping of no bytes fails, with an address that is not 0 either.
do_request(h) ==
    LET page == PageOf(h)
        s == IF page = "gone" THEN h.st_size ELSE SizeOf[page]
    IN  [h EXCEPT !.st_size = s,
                  !.address = IF CodeOf(page) = "FILE_REQUEST" THEN s + 1 ELSE @]

\* One formatted piece of the response, if it fits.
add_response(w) == IF w + 1 < WRITE_BUFFER_SIZE THEN w + 1 ELSE w

add_headers(w) == add_response(add_response(add_response(w)))

\* m_iv: two pieces, each with its first byte and its length.
Iov(first, second) == [i \in 0 .. 1 |-> IF i = 0 THEN first ELSE second]

\* The response of an error: status line, three headers and a page.
ErrorResponse(h) ==
    LET w == add_response(add_headers(add_response(h.write_idx)))
    IN  [h EXCEPT !.write_idx = w, !.iov = Iov(<<0, w>>, h.iov[1]), !.iov_count = 1, !.to_send = w]

\* The response of a file; m_iovec_count keeps its value.
FileResponse(h) ==
    LET w == add_headers(add_response(h.write_idx))
    IN  [h EXCEPT !.write_idx = w, !.to_send = w + h.st_size,
                  !.iov = Iov(<<0, w>>, <<w, h.st_size>>)]

\* What process() does with the code: wait for more, answer, or close.  close_conn()
\* is followed by modfd() with descriptor -1.
Answer(code, h) ==
    CASE code = "NO_REQUEST" -> armed' = "IN" /\ pc' = "wait" /\ hc' = h
      [] code \in {"INTERNAL_ERROR", "BAD_REQUEST", "FORBIDDEN_REQUEST"} ->
           armed' = "OUT" /\ pc' = "wait" /\ hc' = ErrorResponse(h)
      [] code = "FILE_REQUEST" /\ h.st_size # 0 ->
           armed' = "OUT" /\ pc' = "wait" /\ hc' = FileResponse(h)
      [] OTHER -> armed' = "no" /\ pc' = "closed" /\ hc' = h

\* process_read() returns do_request().
Serve(h) ==
    LET page == PageOf(h)
    IN  IF ReadsNull(h)
        THEN pc' = "crashed" /\ hc' = h /\ UNCHANGED <<armed, past>>
        ELSE /\ Answer(CodeOf(page), do_request(h))
             /\ past' = [past EXCEPT !.answer = page,
                                     !.mapper = IF CodeOf(page) = "FILE_REQUEST" THEN past.conn ELSE @]

\* One round of the body of process_read()'s loop, after parse_line() or, in
\* CONTENT, without it.
Body(b, checked) ==
    LET text == Text(b, hc.start_line)
        h == [hc EXCEPT !.checked_idx = checked, !.start_line = checked]
        on(h2) == hc' = h2 /\ UNCHANGED <<armed, pc, past>>
    IN  CASE hc.check_state = "REQUESTLINE" ->
               /\ buf' = IF parse_request_line(text) = "BAD_REQUEST" THEN b
                         ELSE JudgePage(b, hc.start_line)
               /\ UNCHANGED line_status
               /\ IF parse_request_line(text) = "BAD_REQUEST"
                  THEN Answer("BAD_REQUEST", h) /\ past' = [past EXCEPT !.answer = "bad"]
                  ELSE on([h EXCEPT !.check_state = "HEADER", !.url = text[2],
                                    !.cgi = IF text[1] = "POSE" THEN 1 ELSE @])
          [] hc.check_state = "HEADER" ->
               /\ buf' = b /\ UNCHANGED line_status
               /\ IF parse_headers(text, h) = "GET_REQUEST"
                  THEN Serve(h) ELSE on(AfterHeader(b, hc.start_line, h))
          [] hc.check_state = "CONTENT" ->
               /\ buf' = IF parse_content(h) = "NO_REQUEST" THEN b
                         ELSE [b EXCEPT ![hc.start_line + h.content_length] = NUL]
               /\ line_status' = IF parse_content(h) = "NO_REQUEST" THEN "OPEN" ELSE line_status
               /\ IF parse_content(h) = "NO_REQUEST" THEN on(h)
                  ELSE Serve([h EXCEPT !.string = "body"])

\* The condition of the loop: "(line_status == parse_line()) == LINE_OK" holds when
\* the two differ.
process_read ==
    /\ pc = "parse"
    /\ LET p == parse_line(buf, hc.checked_idx, hc.read_idx)
       IN  IF hc.check_state = "CONTENT" /\ line_status = "OK"
           THEN Body(buf, hc.checked_idx)
           ELSE IF p.status # line_status \/ how.build = "-O2"
           THEN Body(p.buf, p.checked)
           ELSE /\ buf' = p.buf /\ UNCHANGED <<line_status, past>>
                /\ Answer("NO_REQUEST", [hc EXCEPT !.checked_idx = p.checked])
    /\ got' = <<>>                 \* the bytes sent belong to an earlier response
    /\ UNCHANGED <<how, net>>

-----------------------------------------------------------------------------
(* write() *)

\* unmap(): munmap() gets the size that m_file_stat holds now.
unmap(h) == [h EXCEPT !.address = 0]
Unmapped ==
    [past EXCEPT !.wrong = @ \/ (past.mapper = past.conn /\ hc.address # 0 /\ hc.address # hc.st_size + 1)]

\* What writev() would send: nothing, if the length of a piece is not valid.
Pieces(h) == [i \in 0 .. 1 |-> IF i < h.iov_count THEN h.iov[i] ELSE <<0, 0>>]
Invalid(h) == \E i \in 0 .. 1 : Pieces(h)[i][2] < 0
Span(piece) == [k \in 1 .. piece[2] |-> piece[1] + k - 1]
Offered(h) == Span(Pieces(h)[0]) \o Span(Pieces(h)[1])

\* Fault: the first piece starts again at the beginning of the buffer.
Fault_BaseNotMoved(h, t) ==
    LET have == h.have_send + t
    IN  [h EXCEPT !.have_send = have, !.to_send = @ - t,
                  !.iov[0] = <<0, h.iov[0][2] - have>>]

\* The members after writev() has sent t bytes.
AfterWritev(h, t) ==
    LET have == h.have_send + t
        to == h.to_send - t
    IN  [h EXCEPT
          !.have_send = have, !.to_send = to,
          !.iov = IF to >= h.iov[0][2]
                  THEN Iov(<<h.iov[0][1], 0>>, <<have, have>>)
                  ELSE Iov(<<have, h.iov[0][2] - have>>, h.iov[1])]

\* write() returns.  With the reactor a worker made the first call, and the event
\* loop, which sees m_timer_flag or misses it, makes a second one.
Returns(ok, h, e) ==
    /\ hc' = h /\ armed' = e
    /\ \/ ok /\ pc' = IF how.actor = 1 /\ pc = "write" THEN "write2" ELSE "wait"
       \/ ~ok /\ pc' = "dropped"
       \/ ~ok /\ how.actor = 1 /\ pc = "write" /\ pc' = "write2"

write_nothing ==
    /\ hc.to_send = 0
    /\ buf' = Empty /\ got' = <<>>
    /\ Returns(TRUE, HttpInitial(hc), "IN")
    /\ past' = [past EXCEPT !.first = -1, !.answer = "none"]

\* The socket is full, which it is not when write() is called for EPOLLOUT, or the
\* connection is gone.
write_fails ==
    /\ hc.to_send # 0
    /\ \/ /\ past.shorts > 0 /\ hc.have_send > 0 /\ net.peer # "reset"
          /\ ~Invalid(hc) /\ Offered(hc) # <<>>
          /\ Returns(TRUE, hc, "OUT") /\ UNCHANGED past
       \/ /\ Invalid(hc) \/ (net.peer = "reset" /\ Offered(hc) # <<>>)
          /\ Returns(FALSE, unmap(hc), armed)
          /\ past' = Unmapped
    /\ UNCHANGED <<got, buf>>

write_sends ==
    /\ hc.to_send # 0 /\ ~Invalid(hc)
    /\ net.peer # "reset" \/ Offered(hc) = <<>>
    /\ \E t \in {n \in 0 .. Len(Offered(hc)) : n > 0 \/ Offered(hc) = <<>>} :
         LET h == AfterWritev(hc, t)
             short == t < Len(Offered(hc))
         IN  /\ short => past.shorts < ShortWrites
             /\ got' = got \o SubSeq(Offered(hc), 1, t)
             /\ IF h.to_send > 0
                THEN /\ hc' = h
                     /\ past' = [past EXCEPT !.shorts = IF short THEN @ + 1 ELSE @]
                     /\ UNCHANGED <<armed, pc, buf>>
                ELSE /\ past' = IF h.linger THEN [Unmapped EXCEPT !.first = -1, !.answer = "none"]
                               ELSE Unmapped
                     /\ Returns(h.linger, IF h.linger THEN HttpInitial(unmap(h)) ELSE unmap(h), "IN")
                     /\ buf' = IF h.linger THEN Empty ELSE buf

write ==
    /\ pc \in {"write", "write2"}
    /\ write_nothing \/ write_fails \/ write_sends
    /\ UNCHANGED <<how, net, line_status>>

HttpNext ==
    \/ Client_Arrive \/ Client_Leave
    \/ Http_Accept \/ Http_Hangup \/ Http_Expire \/ Http_Readable \/ Http_Writable
    \/ read_once \/ process_read \/ write

HttpSpec == HttpInit /\ [][HttpNext]_httpVars

-----------------------------------------------------------------------------
(* Properties *)

\* The indexes of the read buffer are in order, whatever the build makes of the end
\* of process_read(): what is parsed was read, and what was read fits.
HttpIndexesOrdered ==
    pc \notin {"dropped", "crashed"} =>
        /\ 0 <= hc.start_line /\ hc.start_line <= hc.checked_idx
        /\ hc.checked_idx <= hc.read_idx /\ hc.read_idx <= READ_BUFFER_SIZE

\* However the socket cuts the response into short writes, write() sends its bytes
\* in order and none twice.
HttpSentInOrder == \A i \in DOMAIN got : got[i] = i - 1

\* write() can only stay in its loop for ever, with bytes left and nothing that
\* writev() would send, for the response of a file, whose pieces are not counted,
\* or after a second short write, which shortens the first piece too much.
HttpStalled == pc \in {"write", "write2"} /\ hc.to_send > 0 /\ ~Invalid(hc) /\ Offered(hc) = <<>>
HttpErrorsDoNotStall ==
    HttpStalled => past.answer \in {"file", "big"} \/ past.shorts > 1

\* A well-formed request line that arrives whole with the first read is answered by
\* what it names, and nothing else is: a 404 page then stands for a directory only.
\* A line cut after one word or between CR and LF is refused by both builds.  A NUL
\* ends the line as the end of what was read does.
GoodLine(s, first) ==
    /\ parse_request_line(<<s[1], s[2]>>) = "NO_REQUEST"
    /\ \/ first = 2
       \/ first > 2 /\ s[3] = NUL
       \/ first > 3 /\ s[3] = "CR" /\ s[4] = "LF"

HttpAnswersRequest ==
    past.first > 0 /\ past.answer # "none" =>
        past.answer = IF past.first > 1 /\ GoodLine(net.stream, past.first)
                      THEN PageOf([url |-> net.stream[2],
                                   cgi |-> IF net.stream[1] = "POSE" THEN 1 ELSE 0])
                      ELSE "bad"

\* munmap() gets the size that mmap() got, unless the mapping is left over from an
\* earlier connection of the object: m_file_address survives init(), m_file_stat
\* does not survive the next stat().
HttpUnmapsWhatItMapped == ~past.wrong

\* The two buffers of a connection over any sequence of partial reads and writes:
\* parsing stays within what was read, and what is sent is the response in order,
\* no byte twice; the two ways in which write() never ends are the ones named above.
HttpBuffersRight == HttpIndexesOrdered /\ HttpSentInOrder /\ HttpErrorsDoNotStall
=============================================================================
