--------------------------- MODULE WebSocketSync ---------------------------
(***************************************************************************)
(* Two websocket::stream objects joined by one connection, each used by a  *)
(* thread of its own with the synchronous functions: read_some, write_some,*)
(* ping, close and the read until an error with which an application ends. *)
(* A call blocks in write() and read_some() of the connection; only there  *)
(* do the two threads meet.                                                *)
(*                                                                         *)
(* A frame header with its control payload is one unit of the wire, and so *)
(* is each byte of a message; bytes are numbered as they are written, 0 is *)
(* one that is not UTF-8.  permessage-deflate is off.                      *)
(***************************************************************************)
EXTENDS Integers, Sequences, FiniteSets, SequencesExt

CONSTANTS
  Scripts,    \* the calls of both threads: [client, server -> Seq(call)]
  Room,       \* how many units the connection holds in each direction
  WriteBuf,   \* write_buffer_bytes()
  Caller,     \* the size of the buffer of a read
  MayBreak    \* whether the connection may be reset

SizesAssumption == /\ Room \in Nat \ {0} /\ WriteBuf \in Nat \ {0}
                          /\ Caller \in Nat \ {0} /\ MayBreak \in BOOLEAN

VARIABLES
  end,        \* the stream and the call of each end
  net,        \* the connection: pipe[e] is what e has sent
  hist        \* what the application of each end still does, and has seen

vars == <<end, net, hist>>

Ends == {"client", "server"}
Other(e) == CHOOSE o \in Ends : o # e

(***************************************************************************)
(* A call.  n, fin, frag, bad: of a write; ec: what the error_code of the  *)
(* caller holds before a ping.                                             *)
(***************************************************************************)
Call(op) == [op |-> op, n |-> 0, fin |-> TRUE, frag |-> FALSE, bad |-> FALSE,
             ec |-> "ok"]
Unit(kind, fin, len, id) == [kind |-> kind, fin |-> fin, len |-> len, id |-> id]
Control(kind, id) == Unit(kind, TRUE, 0, id)
Data == {"text", "cont"}

Init ==
  /\ end = [e \in Ends |->
       [at |-> "app", then |-> "none", call |-> Call("none"), out |-> <<>>,
        status |-> "open", ec_delivered |-> FALSE, rd_buf |-> <<>>,
        rd_remain |-> 0, rd_fin |-> FALSE, rd_cont |-> FALSE,
        rd_done |-> TRUE, rd_close |-> FALSE, wr_close |-> FALSE,
        wr_cont |-> FALSE, left |-> 0, written |-> 0, passed |-> 0,
        taken |-> 0,
        kind |-> "text", ev |-> "ok", failed |-> {}]]
  /\ net = [pipe |-> [e \in Ends |-> <<>>], shut |-> [e \in Ends |-> FALSE],
            open |-> [e \in Ends |-> TRUE], broken |-> FALSE]
  /\ \E s \in Scripts :
       hist = [e \in Ends |-> [calls |-> s[e], told |-> <<>>, got |-> <<>>,
                               wrote |-> <<>>, sent |-> <<>>]]

At(i, l) == [i EXCEPT !.at = l]
Claim(i, name, holds) ==
  IF holds THEN i ELSE [i EXCEPT !.failed = @ \cup {name}]
Send(i, units, then) == [At(i, "write") EXCEPT !.out = units, !.then = then]
Receive(i, then) == [At(i, "read") EXCEPT !.then = then]

(***************************************************************************)
(* A call returns with ev.  check_stop_now(ec) ends a call, or goes on.    *)
(***************************************************************************)
Returns(i, ec) == [At(i, "return") EXCEPT !.ev = ec]

CheckStop(i, ec, next) ==
  CASE i.status \in {"closed", "failed"} -> Returns(i, "aborted")
    [] i.status \notin {"closed", "failed"} /\ ec = "ok" -> next
    [] OTHER ->
         IF i.ec_delivered THEN Returns(i, "aborted")
         ELSE Returns([i EXCEPT !.ec_delivered = TRUE, !.status = "failed"], ec)

\* do_fail(code, ev): the close frame if there is a code, then the teardown
DoFail(i, code, ev) ==
  LET j == [i EXCEPT !.status = "closing", !.ev = ev]
  IN  IF code # "none" /\ ~i.wr_close
      THEN Send([j EXCEPT !.wr_close = TRUE], <<Control("close", 0)>>, "fail")
      ELSE At(j, "teardown")

(***************************************************************************)
(* parse_fh() of the first unit of rd_buf.                                 *)
(***************************************************************************)
Consume(i, n) == [i EXCEPT !.rd_buf = SubSeq(@, n + 1, Len(@))]

HeaderError(i, u) ==
  CASE u.kind = "text" /\ i.rd_cont -> "bad_data_frame"
    [] u.kind = "cont" /\ ~i.rd_cont -> "bad_continuation"
    [] u.kind = "byte" -> "bad_opcode"
    [] OTHER -> "ok"

ParseHeader(i, u) ==
  LET j == [Consume(i, 1) EXCEPT !.rd_fin = u.fin]
  IN  IF u.kind \in Data
      THEN [j EXCEPT !.rd_cont = ~u.fin, !.rd_remain = u.len] ELSE j

(***************************************************************************)
(* write_some.  A client copies what it sends into wr_buf to mask it.      *)
(***************************************************************************)
IsMasked(e) == e = "client"
TheLesser(a, b) == IF a < b THEN a ELSE b
Piece(e, i) == IF IsMasked(e) \/ i.call.frag THEN TheLesser(i.left, WriteBuf)
               ELSE i.left
Bytes(i, n) ==
  [k \in 1 .. n |-> Unit("byte", FALSE, 0,
                         IF i.call.bad THEN 0 ELSE i.taken + k)]

\* A header and what follows it at once.  Only without mask and fragments
\* are the bytes counted after the write
WriteFrame(e, i) ==
  LET n == Piece(e, i)
      fin == i.call.fin /\ (i.call.frag => i.left = n)
      len == IF i.call.frag THEN n ELSE i.left
      count == IF IsMasked(e) \/ i.call.frag THEN n ELSE 0
  IN  Send([i EXCEPT !.left = @ - n, !.written = @ + count, !.taken = @ + n,
                     !.wr_cont = IF IsMasked(e) THEN ~fin ELSE ~i.call.fin,
                     !.kind = "cont"],
           <<Unit(i.kind, fin, len, 0)>> \o Bytes(i, n), "message")

\* The rest of a frame that is larger than wr_buf
WriteRest(e, i) ==
  LET n == Piece(e, i)
  IN  Send([i EXCEPT !.left = @ - n, !.written = @ + n, !.taken = @ + n],
           Bytes(i, n), "message")

AfterPiece(e, i) ==
  CASE i.left = 0 /\ (IsMasked(e) \/ i.call.frag) -> Returns(i, "ok")
    [] i.left = 0 /\ ~IsMasked(e) /\ ~i.call.frag ->
         Returns([i EXCEPT !.written = i.call.n], "ok")
    [] i.left > 0 /\ i.call.frag -> WriteFrame(e, i)
    [] OTHER -> WriteRest(e, i)

BeginWrite(e, i) ==
  WriteFrame(e, [i EXCEPT !.left = i.call.n, !.written = 0, !.passed = 0,
                          !.kind = IF i.wr_cont THEN "cont" ELSE "text"])

(***************************************************************************)
(* The application makes its next call.  "drain" reads until an error.     *)
(***************************************************************************)
BeginClose(i) ==
  LET j == Claim(Claim(i, "rd_close", ~i.rd_close), "wr_close", ~i.wr_close)
  IN  Send([j EXCEPT !.wr_close = TRUE, !.status = "closing"],
           <<Control("close", 0)>>, "close")

\* Only ping and pong look at what the error_code of the caller holds
Begin(e, i) ==
  CheckStop(i, IF i.call.op = "ping" THEN i.call.ec ELSE "ok",
    CASE i.call.op = "write" -> BeginWrite(e, i)
      [] i.call.op = "ping" -> Send(i, <<Control("ping", i.call.n)>>, "ping")
      [] i.call.op = "close" -> BeginClose(i)
      [] OTHER -> At(i, "loop"))

Marks(i) == IF i.call.fin THEN <<0>> ELSE <<>>

MakeCall(e) ==
  /\ end[e].at = "app" /\ hist[e].calls # <<>>
  /\ LET c == Head(hist[e].calls)
         i == [end[e] EXCEPT !.call = c]
         j == Begin(e, i)
     IN  /\ end' = [end EXCEPT ![e] = j]
         /\ hist' = [hist EXCEPT ![e].calls = Tail(@),
                      ![e].wrote = IF c.op = "write" /\ j.at = "write"
                                   THEN @ \o [k \in 1 .. c.n |-> i.taken + k]
                                          \o Marks(i)
                                   ELSE @]
  /\ UNCHANGED net

\* The call is over.  A drain goes on with the next read_some
Return(e) ==
  /\ end[e].at = "return"
  /\ LET i == end[e]
         again == i.call.op = "drain" /\ i.ev = "ok"
     IN  /\ end' = [end EXCEPT ![e] =
                      IF again THEN Begin(e, i)
                      ELSE [At(i, "app") EXCEPT !.ev = "ok"]]
         /\ hist' = [hist EXCEPT ![e].told =
                      IF again THEN @
                      ELSE Append(@, [op |-> i.call.op, ec |-> i.ev,
                                      written |-> i.written,
                                      passed |-> i.passed])]
  /\ UNCHANGED net

\* Nothing more to do: the stream is destroyed, and closes its socket
Leave(e) ==
  /\ end[e].at = "app" /\ hist[e].calls = <<>>
  /\ end' = [end EXCEPT ![e] = At(@, "gone")]
  /\ net' = [net EXCEPT !.shut[e] = TRUE, !.open[e] = FALSE]
  /\ UNCHANGED hist

(***************************************************************************)
(* The connection.  A socket that was closed answers with a reset, and so  *)
(* does one that is closed before it has read everything.                  *)
(***************************************************************************)
WriteReset(e) == net.broken \/ ~net.open[Other(e)]
ReadReset(e) == net.broken \/ (~net.open[Other(e)] /\ net.pipe[e] # <<>>)

Break == /\ MayBreak /\ ~net.broken
         /\ net' = [net EXCEPT !.broken = TRUE]
         /\ UNCHANGED <<end, hist>>

\* What follows a write of the connection that has ended with ec
Sent(e, i, ec) ==
  CheckStop(i, ec,
    CASE i.then = "message" -> AfterPiece(e, i)
      [] i.then = "ping" -> Returns(i, "ok")
      [] i.then = "pong" -> At(i, "loop")
      [] i.then = "fail" -> At(i, "teardown")
      [] OTHER -> At(i, "discard"))

\* write() hands over one unit, and returns with the last one
WriteUnit(e) ==
  /\ end[e].at = "write"
  /\ \/ LET u == Head(end[e].out)
            i == [end[e] EXCEPT !.out = Tail(@),
                                !.passed = @ + IF u.kind = "byte" THEN 1 ELSE 0]
        IN  /\ ~net.broken /\ Len(net.pipe[e]) < Room
            /\ net' = [net EXCEPT !.pipe[e] = Append(@, u)]
            /\ end' = [end EXCEPT ![e] = IF i.out = <<>> THEN Sent(e, i, "ok")
                                                         ELSE i]
            /\ hist' = [hist EXCEPT ![e].sent =
                          IF u.kind = "byte" THEN @ ELSE Append(@, u)]
     \/ /\ WriteReset(e)
        /\ end' = [end EXCEPT ![e] = Sent(e, [@ EXCEPT !.out = <<>>], "reset")]
        /\ UNCHANGED <<net, hist>>

\* Bytes that were read_some() from the connection, or its error
Received(i, ec) ==
  CheckStop(i, ec, At(i, i.then))

ReadUnits(e) ==
  LET in == net.pipe[Other(e)]
  IN  /\ end[e].at = "read"
      /\ \/ \E n \in 1 .. Len(in) :
              /\ net' = [net EXCEPT !.pipe[Other(e)] = SubSeq(@, n + 1, Len(@))]
              /\ end' = [end EXCEPT ![e] =
                   Received([@ EXCEPT !.rd_buf = @ \o SubSeq(in, 1, n)], "ok")]
         \/ /\ in = <<>> /\ net.shut[Other(e)]
            /\ end' = [end EXCEPT ![e] = Received(@, "eof")]
            /\ UNCHANGED net
         \/ /\ ReadReset(e)
            /\ end' = [end EXCEPT ![e] = Received(@, "reset")]
            /\ UNCHANGED net
      /\ UNCHANGED hist

(***************************************************************************)
(* read_some.                                                              *)
(***************************************************************************)
NeedsHeader(i) == i.rd_remain = 0 /\ (~i.rd_fin \/ i.rd_done)

\* A ping is answered at once, a close frame ends the connection
ReadControl(i, u) ==
  LET j == [ParseHeader(i, u) EXCEPT !.rd_fin = FALSE]
  IN  CASE u.kind = "ping" ->
             IF i.wr_close THEN j ELSE Send(j, <<Control("pong", u.id)>>, "pong")
        [] u.kind = "pong" -> j
        [] OTHER ->
             DoFail([Claim(Claim(j, "rd_close", ~i.rd_close),
                           "wr_close", ~i.wr_close) EXCEPT !.rd_close = TRUE],
                    "normal", "closed")

ReadLoop(e) ==
  /\ end[e].at = "loop"
  /\ LET i == end[e]
         u == i.rd_buf[1]
         j == ParseHeader(i, u)
     IN  end' = [end EXCEPT ![e] =
       CASE ~NeedsHeader(i) -> At(i, "payload")
         [] NeedsHeader(i) /\ i.rd_buf = <<>> -> Receive(i, "loop")
         [] NeedsHeader(i) /\ i.rd_buf # <<>> /\ HeaderError(i, u) # "ok" ->
              DoFail(i, "protocol_error", HeaderError(i, u))
         [] OTHER ->
              CASE u.kind \notin Data -> ReadControl(i, u)
                [] u.kind \in Data /\ u.len = 0 /\ ~u.fin -> j
                [] OTHER -> At([j EXCEPT !.rd_done = FALSE], "payload")]
  /\ UNCHANGED <<net, hist>>

Copied(i) == TheLesser(Caller, TheLesser(i.rd_remain, Len(i.rd_buf)))

\* What there is of the payload goes to the caller
ReadPayload(e) ==
  /\ end[e].at = "payload"
  /\ LET i == end[e]
         n == Copied(i)
         j == [i EXCEPT !.rd_remain = @ - n]
         bad == \E k \in 1 .. n : i.rd_buf[k].id = 0
         done == j.rd_remain = 0 /\ i.rd_fin
     IN  \/ /\ i.rd_remain > 0 /\ i.rd_buf = <<>>
            /\ end' = [end EXCEPT ![e] = Receive(i, "payload")]
            /\ UNCHANGED hist
         \/ /\ (i.rd_remain = 0 \/ i.rd_buf # <<>>) /\ bad
            /\ end' = [end EXCEPT ![e] = DoFail(j, "bad_payload", "bad_payload")]
            /\ UNCHANGED hist
         \/ /\ (i.rd_remain = 0 \/ i.rd_buf # <<>>) /\ ~bad
            /\ end' = [end EXCEPT ![e] =
                 Returns([Consume(Claim(j, "rd_done", ~i.rd_done), n)
                            EXCEPT !.rd_done = done], "ok")]
            /\ hist' = [hist EXCEPT ![e].got =
                 @ \o [k \in 1 .. n |-> i.rd_buf[k].id]
                   \o IF done THEN <<0>> ELSE <<>>]
  /\ UNCHANGED net

(***************************************************************************)
(* close: all that comes before the close frame of the peer is discarded.  *)
(***************************************************************************)
Discard(e) ==
  /\ end[e].at = "discard"
  /\ LET i == end[e]
         u == i.rd_buf[1]
         n == TheLesser(i.rd_remain, Len(i.rd_buf))
         j == [Consume(i, n) EXCEPT !.rd_remain = @ - n]
     IN  end' = [end EXCEPT ![e] =
       CASE i.rd_remain > 0 -> IF j.rd_remain > 0 THEN Receive(j, "discard") ELSE j
         [] i.rd_remain = 0 /\ i.rd_buf = <<>> -> Receive(i, "discard")
         [] i.rd_remain = 0 /\ i.rd_buf # <<>> /\ HeaderError(i, u) # "ok" ->
              DoFail(i, "none", HeaderError(i, u))
         [] OTHER ->
              IF u.kind = "close"
              THEN DoFail([Claim(ParseHeader(i, u), "rd_close", ~i.rd_close)
                             EXCEPT !.rd_close = TRUE], "none", "closed")
              ELSE ParseHeader(i, u)]
  /\ UNCHANGED <<net, hist>>

(***************************************************************************)
(* teardown() of a TCP socket, and the end of do_fail().  A server shuts   *)
(* its side down before it waits for the end of the peer, a client after.  *)
(***************************************************************************)
Result(i, ec) == CASE ec # "ok" -> ec
                   [] ec = "ok" /\ i.call.op = "close" /\ i.ev = "closed" -> "ok"
                   [] OTHER -> i.ev

Teardown(e) ==
  /\ end[e].at = "teardown"
  /\ net' = [net EXCEPT !.shut[e] = @ \/ e = "server"]
  /\ end' = [end EXCEPT ![e] = At(@, "drop")]
  /\ UNCHANGED hist

Drop(e) ==
  /\ end[e].at = "drop" /\ net.pipe[Other(e)] # <<>>
  /\ net' = [net EXCEPT !.pipe[Other(e)] = <<>>]
  /\ UNCHANGED <<end, hist>>

TornDown(e) ==
  /\ end[e].at = "drop"
  /\ \E ec \in {"ok", "reset"} :
       /\ \/ ec = "ok" /\ net.pipe[Other(e)] = <<>> /\ net.shut[Other(e)]
          \/ ec = "reset" /\ ReadReset(e)
       /\ LET i == end[e]
              ev == IF ec = "ok" THEN i.ev ELSE ec
          IN  end' = [end EXCEPT ![e] =
                Returns([i EXCEPT !.status = IF ev = "closed" THEN "closed"
                                                              ELSE "failed"],
                        Result(i, ec))]
       /\ net' = IF ec = "ok"
                 THEN [net EXCEPT !.shut[e] = TRUE, !.open[e] = FALSE] ELSE net
  /\ UNCHANGED hist

Step(e) ==
  \/ MakeCall(e) \/ Return(e) \/ Leave(e) \/ WriteUnit(e) \/ ReadUnits(e)
  \/ ReadLoop(e) \/ ReadPayload(e) \/ Discard(e) \/ Teardown(e) \/ Drop(e)
  \/ TornDown(e)

Next == Break \/ \E e \in Ends : Step(e)

\* Each thread goes on whenever the connection lets it
Spec == Init /\ [][Next]_vars /\ \A e \in Ends : WF_vars(Step(e))

(***************************************************************************)
(* Properties.                                                             *)
(***************************************************************************)
Labels == {"app", "return", "gone", "write", "read", "loop", "payload",
           "discard", "teardown", "drop"}

\* Every end is at a label of the code; what it has to read is a part of
\* what it was sent (stream_impl.hpp:65)
TypeOK ==
  /\ \A e \in Ends : LET i == end[e] IN
       /\ i.at \in Labels
       /\ i.status \in {"open", "closing", "closed", "failed"}
       /\ i.rd_remain \in Nat /\ i.left \in Nat /\ i.written \in Nat
       /\ i.at = "write" => i.out # <<>>
       /\ Len(net.pipe[e]) =< Room

\* No assertion of close() and read_some() fails, whichever of the two meets
\* the close frame of the peer (close.hpp:338, read.hpp:1129)
AssertionsHold == \A e \in Ends : end[e].failed = {}

\* What one end composes the other one understands: no header is refused
\* (read.hpp:1052, close.hpp:365)
HeadersAgree ==
  \A e \in Ends :
    end[e].ev \notin {"bad_data_frame", "bad_continuation", "bad_opcode"}

\* An application gets what the other one has written, in that order and
\* with the same ends of messages (read.hpp:1178)
InOrder == \A e \in Ends : IsPrefix(hist[e].got, hist[Other(e)].wrote)

Told(e, k) == hist[e].told[k]
Closed(e) == \E k \in DOMAIN hist[e].told :
               \/ Told(e, k).ec = "closed"
               \/ Told(e, k).op = "close" /\ Told(e, k).ec = "ok"

\* Who is told that the connection was closed has sent a close frame and
\* has received one (read.hpp:1145, close.hpp:427)
ClosedIsMutual ==
  \A e \in Ends : Closed(e) =>
    /\ end[e].rd_close /\ end[e].wr_close
    /\ \E k \in DOMAIN hist[Other(e)].sent : hist[Other(e)].sent[k].kind = "close"

\* A read that ends with closed comes after all the peer has ever written:
\* nothing of it was dropped (read.hpp:1145)
NothingLost ==
  \A e \in Ends :
    (\E k \in DOMAIN hist[e].told : Told(e, k).ec = "closed")
      => hist[e].got = hist[Other(e)].wrote

\* The close frame is the last one an end sends, and the only one
\* (stream.hpp:321, close.hpp:346)
CloseIsLast ==
  \A e \in Ends : \A k \in DOMAIN hist[e].sent :
    hist[e].sent[k].kind = "close" => k = Len(hist[e].sent)

Ids(s, kind) ==
  LET some == SelectSeq(s, LAMBDA u : u.kind = kind)
  IN  [k \in DOMAIN some |-> some[k].id]

\* Pongs answer the pings of the peer one by one (read.hpp:1088)
PongsAnswer ==
  \A e \in Ends : IsPrefix(Ids(hist[e].sent, "pong"), Ids(hist[Other(e)].sent, "ping"))

\* The first error is told once, each later call is aborted
\* (stream_impl.hpp:354)
ErrorOnce ==
  \A e \in Ends : \A j, k \in DOMAIN hist[e].told :
    j < k /\ Told(e, j).ec # "ok" => Told(e, k).ec = "aborted"

\* With an application on each side that ends with a read until an error,
\* or with close(), every call returns, and both are through
AllReturn == <>(\A e \in Ends : end[e].at = "gone")

=============================================================================
