----------------------------- MODULE WebSocket -----------------------------
(***************************************************************************)
(* The operations of one open websocket::stream: async_read_some,          *)
(* async_write, async_ping, async_close and the ping of the idle timer,    *)
(* all at once on one strand.  Each is a coroutine; it runs until it waits *)
(* for the stream, for the executor (a post) or for one of the two soft    *)
(* mutexes, wr_block and rd_block, that order them.                        *)
(*                                                                         *)
(* A label of impl.at says where an operation is.  While an operation is   *)
(* at a label of Running its handler has not returned, and no other        *)
(* handler runs.  The saved handlers op_wr, op_rd, op_close, ... are not   *)
(* variables: a handler is saved exactly while its operation is at a label *)
(* of WrWaits or at "wait_rd".                                             *)
(*                                                                         *)
(* A frame header with its control payload is one unit of the wire, and so *)
(* is each byte of a message.  permessage-deflate is off.                  *)
(***************************************************************************)
EXTENDS Integers, Sequences, FiniteSets, SequencesExt

CONSTANTS
  Peers,      \* what a peer may do: [units, end], see Init
  Messages,   \* what is written: a sequence of [how, pieces, fin]
  Settings,   \* [idle, handshake, keep_alive, ctrl_cb], all BOOLEAN
  Calls,      \* [read, ping, close]: how often each may be started
  Caller      \* the size of the buffer of a read

CallerAssumption == Caller \in Nat \ {0}

VARIABLES
  impl,       \* stream::impl_type, and the coroutines
  net,        \* the connection: what comes in, what has left
  hist        \* what the application was told, and what it may still call

vars == <<impl, net, hist>>

(***************************************************************************)
(* Labels.                                                                 *)
(***************************************************************************)
Ops == {"read", "write", "ping", "idle", "close"}
Running == {"acquire", "loop", "control", "payload", "fail", "closing",
            "begin", "discard", "upcall"}
Granted == [wait_wr |-> "got_wr", pong_wait |-> "pong_got",
            fail_wait |-> "fail_got"]
WrWaits == DOMAIN Granted
Writing == {"send", "pong_send", "close_send"}
Reading == {"header", "fill", "more"}
Labels == Running \cup WrWaits \cup Writing \cup Reading \cup
          {"off", "got_wr", "pong_got", "fail_got", "wait_rd", "got_rd",
           "posted", "teardown"}

Idle == \A o \in Ops : impl.at[o] \notin Running
At(i, o, l) == [i EXCEPT !.at[o] = l]

(***************************************************************************)
(* The mutexes.  failed names the assertions that did not hold.            *)
(***************************************************************************)
Claim(i, name, holds) ==
  IF holds THEN i ELSE [i EXCEPT !.failed = @ \cup {name}]

Lock(i, m, o) == [Claim(i, "lock", i[m] = "none") EXCEPT ![m] = o]
Unlock(i, m, o) == [Claim(i, "unlock", i[m] = o) EXCEPT ![m] = "none"]

\* try_lock: at label got with the mutex, or at label wait without it
TryLock(i, m, o, got, wait) ==
  IF i[m] = "none" THEN At(Lock(i, m, o), o, got)
                   ELSE At(Claim(i, "try_lock", i[m] # o), o, wait)

\* where in order there is a saved handler
Saved(i, order) == {k \in DOMAIN order : i.at[order[k]] \in WrWaits}

(* Wrong: the resumed handler posts itself before it has taken the mutex.  *)
WakeUnlocked(i, order) ==
  LET o == order[Min(Saved(i, order))]
  IN  IF Saved(i, order) = {} THEN i ELSE At(i, o, Granted[i.at[o]])

\* maybe_invoke() of one saved handler after the other, until one was there:
\* it takes wr_block at once and posts itself
Wake(i, order) ==
  LET o == order[Min(Saved(i, order))]
  IN  IF Saved(i, order) = {} THEN i
      ELSE At(Lock(i, "wr_block", o), o, Granted[i.at[o]])

\* op_r_rd.maybe_invoke(), op_r_close.maybe_invoke()
WakeReader(i, o) ==
  IF i.at[o] = "wait_rd" THEN At(Lock(i, "rd_block", o), o, "got_rd") ELSE i

AfterRead  == <<"close", "idle", "ping", "write">>
AfterWrite == <<"close", "idle", "read", "ping">>
(* Wrong: a ping does not resume a read that waits to send its pong.       *)
AfterPingNoRead == <<"close", "idle", "write">>
AfterPing  == <<"close", "idle", "read", "write">>
AfterIdle  == <<"close", "ping", "read", "write">>
AfterClose == <<"read", "idle", "ping", "write">>

(***************************************************************************)
(* Status, errors, timer.                                                  *)
(***************************************************************************)
ToUpcall(i, o, ec) == At([i EXCEPT !.ec[o] = ec], o, "upcall")
Stopped(i) == i.status \in {"closed", "failed"}

\* check_stop_now(ec); next is the rest of the handler
CheckStop(i, o, ec, next) ==
  CASE i.timed_out -> ToUpcall([i EXCEPT !.timed_out = FALSE], o, "timeout")
    [] ~i.timed_out /\ Stopped(i) -> ToUpcall(i, o, "aborted")
    [] ~i.timed_out /\ ~Stopped(i) /\ ec = "ok" -> next
    [] ~i.timed_out /\ ~Stopped(i) /\ ec # "ok" /\ i.ec_delivered ->
         ToUpcall(i, o, "aborted")
    [] OTHER -> ToUpcall([i EXCEPT !.ec_delivered = TRUE,
                                   !.status = "failed"], o, ec)

UpdateTimer(i) ==
  CASE i.status = "open" /\ i.opt.idle ->
         [i EXCEPT !.idle_counter = 0, !.timer = TRUE]
    [] i.status = "closing" /\ i.opt.handshake ->
         [i EXCEPT !.idle_counter = 0, !.timer = TRUE]
    [] i.status = "closing" /\ ~i.opt.handshake -> i
    [] OTHER -> [i EXCEPT !.timer = FALSE]

ResetIdle(i) == [i EXCEPT !.idle_counter = 0]
TimeOut(i) == [i EXCEPT !.timed_out = TRUE, !.status = "closed"]

(***************************************************************************)
(* The wire.  parse_fh() looks at the first unit of rd_buf.                *)
(***************************************************************************)
Data == {"text", "cont"}
Consume(i, n) == [i EXCEPT !.rd_buf = SubSeq(@, n + 1, Len(@))]

HeaderError(i, u) ==
  CASE u.kind = "text" /\ i.rd_cont -> "bad_data_frame"
    [] u.kind = "cont" /\ ~i.rd_cont -> "bad_continuation"
    [] u.kind = "bad" -> "bad_header"
    [] OTHER -> "ok"

ParseHeader(i, u) ==
  LET j == [Consume(i, 1) EXCEPT !.rd_fin = u.fin]
  IN  IF u.kind \in Data
      THEN [j EXCEPT !.rd_cont = ~u.fin, !.rd_remain = u.len]
      ELSE j

(***************************************************************************)
(* open() has just been called.  A peer sends units and then, as end says, *)
(* closes its side ("eof") or stays silent; with "reset" the connection    *)
(* may break at any time.                                                  *)
(***************************************************************************)
Init ==
  /\ \E opt \in Settings :
       impl = [at |-> [o \in Ops |-> "off"], ec |-> [o \in Ops |-> "ok"],
               wr_block |-> "none", rd_block |-> "none", status |-> "open",
               rd_buf |-> <<>>, rd_remain |-> 0, rd_fin |-> FALSE,
               rd_cont |-> FALSE, rd_done |-> TRUE, rd_close |-> FALSE,
               wr_close |-> FALSE, wr_cont |-> FALSE,
               frame |-> "none", pong |-> 0, cont |-> FALSE,
               left |-> 0, how |-> "frames", fin |-> TRUE, op |-> "text",
               idle_pinging |-> FALSE, ec_delivered |-> FALSE,
               timed_out |-> FALSE, idle_counter |-> 0, timer |-> FALSE,
               fired |-> FALSE, opt |-> opt, failed |-> {}]
  /\ \E p \in Peers :
       net = [in |-> p.units, end |-> p.end, open |-> TRUE,
              broken |-> FALSE, sent |-> <<>>]
  /\ \E c \in Calls :
       hist = [calls |-> c, writes |-> Messages, got |-> <<>>,
               mutual |-> TRUE]

(***************************************************************************)
(* How an operation of the connection may end.  What has arrived before    *)
(* the socket was closed may still be delivered.                           *)
(***************************************************************************)
Failure(ec) == \/ ec = "reset" /\ net.broken
               \/ ec = "aborted" /\ ~net.open
Errors == {"eof", "reset", "aborted"}
ReadFails(ec) == \/ Failure(ec)
                 \/ ec = "eof" /\ net.in = <<>> /\ net.end = "eof"
\* The teardown ends with the first read that does not have to wait: of
\* what the peer still sends, or of its end
TornDown(ec) == \/ ec = "ok" /\ net.open /\ (net.in # <<>> \/ net.end = "eof")
                \/ ec = "reset" /\ net.broken
                \/ ec = "bad_descriptor" /\ ~net.open

Receive(n) == net' = [net EXCEPT !.in = SubSeq(@, n + 1, Len(@))]
Commit(n) == [impl EXCEPT !.rd_buf = @ \o SubSeq(net.in, 1, n)]

\* async_write of one buffer has ended with ec, s is what it has sent
Send(s, ec) ==
  \/ ec = "ok" /\ net.open /\ net' = [net EXCEPT !.sent = Append(@, s)]
  \/ Failure(ec) /\ UNCHANGED net

Piece(kind, fin, left, id) ==
  [kind |-> kind, fin |-> fin, left |-> left, id |-> id]
Control(kind, id) == Piece(kind, TRUE, 0, id)
IsBad(u) == u.kind = "byte" /\ u.id = 0

(***************************************************************************)
(* read_some_op.                                                           *)
(***************************************************************************)
ReadStart ==
  /\ Idle /\ impl.at.read = "off" /\ hist.calls.read > 0
  /\ impl' = At([UpdateTimer(impl) EXCEPT !.cont = FALSE,
                                          !.frame = "none"],
                "read", "acquire")
  /\ hist' = [hist EXCEPT !.calls.read = @ - 1]
  /\ UNCHANGED net

AcquireRead ==
  /\ impl.at.read = "acquire"
  /\ LET i == TryLock(impl, "rd_block", "read", "loop", "wait_rd")
     IN  impl' = IF i.at.read = "loop" /\ Stopped(i)
                 THEN ToUpcall(i, "read", "aborted") ELSE i
  /\ UNCHANGED <<net, hist>>

\* Resumed after a close_op had the read block
ReadGranted ==
  /\ Idle /\ impl.at.read = "got_rd"
  /\ LET i == Claim([impl EXCEPT !.cont = TRUE], "rd_block",
                     impl.rd_block = "read")
         j == CheckStop(i, "read", "ok",
                ToUpcall(Claim(i, "wr_close", i.wr_close /\ i.status # "open"),
                         "read", "aborted"))
     IN  impl' = Claim(j, "aborted", j.ec.read = "aborted")
  /\ UNCHANGED <<net, hist>>

NeedsHeader(i) == i.rd_remain = 0 /\ (~i.rd_fin \/ i.rd_done)

\* loop: one frame header, or the payload of the current frame
ReadLoop ==
  /\ impl.at.read = "loop"
  /\ LET i == Claim(impl, "rd_block", impl.rd_block = "read")
         u == i.rd_buf[1]
         j == ParseHeader(i, u)
     IN  impl' =
       CASE ~NeedsHeader(i) -> At(i, "read", "payload")
         [] NeedsHeader(i) /\ i.rd_buf = <<>> -> At(i, "read", "header")
         [] NeedsHeader(i) /\ i.rd_buf # <<>> /\ HeaderError(i, u) # "ok" ->
              At([i EXCEPT !.frame = HeaderError(i, u)], "read", "fail")
         [] OTHER ->
              CASE u.kind \notin Data ->
                     At([j EXCEPT !.rd_fin = FALSE, !.frame = u.kind,
                                  !.pong = u.id], "read", "control")
                [] u.kind \in Data /\ u.len = 0 /\ ~u.fin -> j
                [] OTHER -> At([j EXCEPT !.rd_done = FALSE], "read", "payload")
  /\ UNCHANGED <<net, hist>>

\* Bytes for the header have come; a close_op may take the read block now
ReadHeader ==
  /\ Idle /\ impl.at.read = "header"
  /\ \/ \E n \in 1 .. Len(net.in) :
          /\ Receive(n)
          /\ impl' = LET i == [Commit(n) EXCEPT !.cont = TRUE]
                         j == WakeReader(Unlock(ResetIdle(i), "rd_block", "read"),
                                         "close")
                     IN  CheckStop(i, "read", "ok",
                           IF j.rd_block = "close" THEN At(j, "read", "wait_rd")
                           ELSE At(Lock(j, "rd_block", "read"), "read", "loop"))
     \/ \E ec \in Errors :
          /\ ReadFails(ec)
          /\ impl' = CheckStop([impl EXCEPT !.cont = TRUE], "read", ec, impl)
          /\ UNCHANGED net
  /\ UNCHANGED hist

\* With a control callback the handler posts itself first, unless it runs
\* as a continuation
CallsBack(i) ==
  /\ i.opt.ctrl_cb /\ ~i.cont
  /\ i.frame = "pong" => ~i.wr_close

(* Wrong: no pong is sent while another operation writes.                  *)
ReadControlSkips ==
  /\ impl.at.read = "control"
  /\ impl' =
       CASE CallsBack(impl) -> At(impl, "read", "posted")
         [] ~CallsBack(impl) /\ impl.frame = "ping" ->
              IF impl.status = "closing" \/ impl.wr_block # "none"
              THEN At(impl, "read", "loop")
              ELSE TryLock(WakeReader(Unlock(impl, "rd_block", "read"), "close"),
                           "wr_block", "read", "pong_send", "pong_wait")
         [] ~CallsBack(impl) /\ impl.frame = "pong" -> At(impl, "read", "loop")
         [] OTHER -> At([impl EXCEPT !.rd_close = TRUE], "read", "fail")
  /\ UNCHANGED <<net, hist>>

ReadControl ==
  /\ impl.at.read = "control"
  /\ impl' =
       CASE CallsBack(impl) -> At(impl, "read", "posted")
         [] ~CallsBack(impl) /\ impl.frame = "ping" ->
              IF impl.status = "closing" THEN At(impl, "read", "loop")
              ELSE TryLock(WakeReader(Unlock(impl, "rd_block", "read"), "close"),
                           "wr_block", "read", "pong_send", "pong_wait")
         [] ~CallsBack(impl) /\ impl.frame = "pong" -> At(impl, "read", "loop")
         [] OTHER ->
              LET i == [Claim(impl, "rd_close", ~impl.rd_close)
                          EXCEPT !.rd_close = TRUE]
              IN  At(IF i.frame = "close" /\ i.status = "closing"
                     THEN Claim(i, "wr_close", i.wr_close) ELSE i,
                     "read", "fail")
  /\ UNCHANGED <<net, hist>>

ReadPosted ==
  /\ Idle /\ impl.at.read = "posted"
  /\ impl' = At([impl EXCEPT !.cont = TRUE], "read", "control")
  /\ UNCHANGED <<net, hist>>

PongGranted ==
  /\ Idle /\ impl.at.read = "pong_got"
  /\ LET i == Claim([impl EXCEPT !.cont = TRUE], "wr_block",
                     impl.wr_block = "read")
     IN  impl' = CheckStop(i, "read", "ok", At(i, "read", "pong_send"))
  /\ UNCHANGED <<net, hist>>

PongSent ==
  /\ Idle /\ impl.at.read = "pong_send"
  /\ \E ec \in Errors \cup {"ok"} :
       /\ Send(Control("pong", impl.pong), ec)
       /\ LET i == Claim([impl EXCEPT !.cont = TRUE], "wr_block",
                          impl.wr_block = "read")
          IN  impl' = CheckStop(i, "read", ec,
                        At(Wake(Unlock(i, "wr_block", "read"), AfterRead),
                           "read", "acquire"))
  /\ UNCHANGED hist

\* What there is of the payload goes to the caller
TheLesser(a, b) == IF a < b THEN a ELSE b

Copied(i) == TheLesser(Caller, TheLesser(i.rd_remain, Len(i.rd_buf)))

ReadPayload ==
  /\ impl.at.read = "payload"
  /\ LET n == Copied(impl)
         i == [impl EXCEPT !.rd_remain = @ - n]
         bad == \E k \in 1 .. n : IsBad(impl.rd_buf[k])
         done == [Consume(i, n) EXCEPT !.rd_done = i.rd_remain = 0 /\ i.rd_fin]
     IN  \/ /\ impl.rd_remain > 0 /\ impl.rd_buf = <<>>
            /\ impl' = At(impl, "read", "fill")
            /\ UNCHANGED hist
         \/ /\ (impl.rd_remain = 0 \/ impl.rd_buf # <<>>) /\ bad
            /\ impl' = At([i EXCEPT !.frame = "bad_payload"], "read", "fail")
            /\ UNCHANGED hist
         \/ /\ (impl.rd_remain = 0 \/ impl.rd_buf # <<>>) /\ ~bad
            /\ impl' = ToUpcall(Claim(done, "rd_done", ~impl.rd_done),
                                "read", "ok")
            /\ hist' = [hist EXCEPT !.got = @ \o SubSeq(impl.rd_buf, 1, n)]
  /\ UNCHANGED net

ReadFill ==
  /\ Idle /\ impl.at.read = "fill"
  /\ \/ \E n \in 1 .. Len(net.in) :
          /\ Receive(n)
          /\ LET i == [Commit(n) EXCEPT !.cont = TRUE]
             IN  impl' = CheckStop(i, "read", "ok",
                                   At(ResetIdle(i), "read", "payload"))
     \/ \E ec \in Errors :
          /\ ReadFails(ec)
          /\ impl' = CheckStop([impl EXCEPT !.cont = TRUE], "read", ec, impl)
          /\ UNCHANGED net
  /\ UNCHANGED hist

\* close: the write block, the close frame, the teardown
ReadFail ==
  /\ impl.at.read = "fail"
  /\ impl' = TryLock(impl, "wr_block", "read", "closing", "fail_wait")
  /\ UNCHANGED <<net, hist>>

FailGranted ==
  /\ Idle /\ impl.at.read = "fail_got"
  /\ LET i == Claim([impl EXCEPT !.cont = TRUE], "wr_block",
                     impl.wr_block = "read")
     IN  impl' = CheckStop(i, "read", "ok", At(i, "read", "closing"))
  /\ UNCHANGED <<net, hist>>

ReadClosing ==
  /\ impl.at.read = "closing"
  /\ impl' = [At(impl, "read",
                 IF impl.wr_close THEN "teardown" ELSE "close_send")
                EXCEPT !.status = "closing", !.wr_close = TRUE]
  /\ UNCHANGED <<net, hist>>

CloseSent ==
  /\ Idle /\ impl.at.read = "close_send"
  /\ \E ec \in Errors \cup {"ok"} :
       /\ Send(Control("close", 0), ec)
       /\ LET i == Claim(impl, "wr_block", impl.wr_block = "read")
          IN  impl' = CheckStop(i, "read", ec, At(i, "read", "teardown"))
  /\ UNCHANGED hist

\* The teardown of o has ended with ec; result is what o has to report
Ended(i, o, ec, result) ==
  LET e == IF ec = "ok" THEN result ELSE ec
  IN  ToUpcall([Claim(i, "wr_block", i.wr_block = o) EXCEPT
                  !.status = IF e \in {"ok", "closed"} THEN "closed"
                                                       ELSE "failed",
                  !.timer = FALSE], o, e)

ReadTornDown ==
  /\ Idle /\ impl.at.read = "teardown"
  /\ \E ec \in {"ok", "reset", "bad_descriptor"} :
       /\ TornDown(ec)
       /\ impl' = Ended(impl, "read", ec,
                        IF impl.frame = "close" THEN "closed" ELSE impl.frame)
  /\ net' = [net EXCEPT !.open = FALSE]
  /\ UNCHANGED hist

(***************************************************************************)
(* close_op.                                                               *)
(***************************************************************************)
CloseStart ==
  /\ Idle /\ impl.at.close = "off" /\ hist.calls.close > 0
  /\ impl' = TryLock(impl, "wr_block", "close", "begin", "wait_wr")
  /\ hist' = [hist EXCEPT !.calls.close = @ - 1]
  /\ UNCHANGED net

CloseBegin ==
  /\ \/ impl.at.close = "begin"
     \/ Idle /\ impl.at.close = "got_wr"
  /\ LET i == Claim(impl, "wr_close", ~impl.wr_close)
     IN  impl' = CheckStop(impl, "close", "ok",
                   At(UpdateTimer([i EXCEPT !.wr_close = TRUE,
                                            !.status = "closing"]),
                      "close", "send"))
  /\ UNCHANGED <<net, hist>>

CloseFrameSent ==
  /\ Idle /\ impl.at.close = "send"
  /\ \E ec \in Errors \cup {"ok"} :
       /\ Send(Control("close", 0), ec)
       /\ impl' = CheckStop(impl, "close", ec,
                    IF impl.rd_close THEN At(impl, "close", "teardown")
                    ELSE TryLock(impl, "rd_block", "close", "discard",
                                 "wait_rd"))
  /\ UNCHANGED hist

CloseGrantedRead ==
  /\ Idle /\ impl.at.close = "got_rd"
  /\ LET i == Claim(impl, "rd_block", impl.rd_block = "close")
     IN  impl' = CheckStop(i, "close", "ok",
                   At(Claim(i, "rd_close", ~i.rd_close), "close", "discard"))
  /\ UNCHANGED <<net, hist>>

ToTeardown(i, ec) == At([i EXCEPT !.ec.close = ec], "close", "teardown")

\* Reads on until the close frame of the peer; all else is thrown away
CloseDiscard ==
  /\ impl.at.close = "discard"
  /\ LET u == impl.rd_buf[1]
         n == TheLesser(impl.rd_remain, Len(impl.rd_buf))
         i == ParseHeader(impl, u)
     IN  impl' =
       CASE impl.rd_remain > 0 ->
              At([Consume(impl, n) EXCEPT !.rd_remain = @ - n], "close",
                 IF n < impl.rd_remain THEN "more" ELSE "discard")
         [] impl.rd_remain = 0 /\ impl.rd_buf = <<>> -> At(impl, "close", "more")
         [] impl.rd_remain = 0 /\ impl.rd_buf # <<>>
            /\ HeaderError(impl, u) # "ok" ->
              ToTeardown(impl, HeaderError(impl, u))
         [] OTHER ->
              CASE u.kind = "close" \/ u.kind = "bad_close" ->
                     ToTeardown([Claim(i, "rd_close", ~i.rd_close)
                                   EXCEPT !.rd_close = TRUE],
                                IF u.kind = "close" THEN "ok" ELSE u.kind)
                [] OTHER -> i
  /\ UNCHANGED <<net, hist>>

CloseMore ==
  /\ Idle /\ impl.at.close = "more"
  /\ \/ \E n \in 1 .. Len(net.in) :
          /\ Receive(n)
          /\ LET i == Commit(n)
             IN  impl' = CheckStop(i, "close", "ok", At(i, "close", "discard"))
     \/ \E ec \in Errors :
          /\ ReadFails(ec)
          /\ impl' = CheckStop(impl, "close", ec, impl)
          /\ UNCHANGED net
  /\ UNCHANGED hist

CloseTornDown ==
  /\ Idle /\ impl.at.close = "teardown"
  /\ \E ec \in {"ok", "reset", "bad_descriptor"} :
       /\ TornDown(ec)
       /\ impl' = Ended(impl, "close", ec, impl.ec.close)
  /\ net' = [net EXCEPT !.open = FALSE]
  /\ UNCHANGED hist

(***************************************************************************)
(* write_some_op, ping_op, idle_ping_op.                                   *)
(***************************************************************************)
\* A frame is sent whole ("whole"), in several writes under the lock
\* ("chunks"), or the message becomes several frames ("frames")
WriteStart ==
  /\ Idle /\ impl.at.write = "off" /\ hist.writes # <<>>
  /\ LET w == Head(hist.writes)
     IN  impl' = TryLock([impl EXCEPT
                            !.left = w.pieces, !.how = w.how, !.fin = w.fin,
                            !.op = IF impl.wr_cont THEN "cont" ELSE "text"],
                         "wr_block", "write", "begin", "wait_wr")
  /\ hist' = [hist EXCEPT !.writes = Tail(@)]
  /\ UNCHANGED net

PingStart ==
  /\ Idle /\ impl.at.ping = "off" /\ hist.calls.ping > 0
  /\ impl' = TryLock(impl, "wr_block", "ping", "begin", "wait_wr")
  /\ hist' = [hist EXCEPT !.calls.ping = @ - 1]
  /\ UNCHANGED net

SendBegin(o) ==
  /\ \/ impl.at[o] = "begin"
     \/ Idle /\ impl.at[o] = "got_wr"
  /\ LET i == Claim(impl, "wr_block", impl.wr_block = o)
         j == IF o = "write" THEN [i EXCEPT !.wr_cont = ~i.fin] ELSE i
     IN  impl' = CheckStop(i, o, "ok", At(j, o, "send"))
  /\ UNCHANGED <<net, hist>>

ControlSent(o) ==
  /\ Idle /\ impl.at[o] = "send"
  /\ \E ec \in Errors \cup {"ok"} :
       /\ Send(Control("ping", 0), ec)
       /\ impl' = CheckStop(impl, o, ec, ToUpcall(impl, o, "ok"))
  /\ UNCHANGED hist

\* The lock is given up between two frames
BetweenFrames(i) ==
  LET j == Wake(Unlock([i EXCEPT !.op = "cont"], "wr_block", "write"),
                AfterWrite)
  IN  IF j.wr_block # "none" THEN At(j, "write", "wait_wr")
      ELSE At(Lock(j, "wr_block", "write"), "write", "send")

Fragment(i) ==
  IF i.how = "frames" THEN Piece(i.op, i.fin /\ i.left = 1, 0, 0)
  ELSE Piece(i.op, i.fin, i.left - 1, 0)

PieceSent ==
  /\ Idle /\ impl.at.write = "send"
  /\ \E ec \in Errors \cup {"ok"} :
       /\ Send(Fragment(impl), ec)
       /\ LET i == [impl EXCEPT !.left = @ - 1]
          IN  impl' = CheckStop(i, "write", ec,
                CASE i.left = 0 -> ToUpcall(i, "write", "ok")
                  [] i.left > 0 /\ i.how = "frames" -> BetweenFrames(i)
                  [] OTHER -> At([i EXCEPT !.op = "more"], "write", "send"))
  /\ UNCHANGED hist

(***************************************************************************)
(* upcall: the locks are given up, one that waits for them is resumed, and *)
(* the application is told.                                                *)
(***************************************************************************)
Released(o) ==
  CASE o = "read" ->
         LET i == IF impl.rd_block = "read" THEN Unlock(impl, "rd_block", o)
                                            ELSE impl
             j == WakeReader(i, "close")
         IN  IF j.wr_block = "read"
             THEN Wake(Unlock(j, "wr_block", o), AfterRead) ELSE j
    [] o = "close" ->
         LET i == Unlock(impl, "wr_block", o)
             j == IF i.rd_block = "close"
                  THEN WakeReader(Unlock(i, "rd_block", o), "read") ELSE i
         IN  Wake(j, AfterClose)
    [] o = "ping" -> Wake(Unlock(impl, "wr_block", o), AfterPing)
    [] o = "write" -> Wake(Unlock(impl, "wr_block", o), AfterWrite)
    [] o = "idle" ->
         Wake(Unlock([Claim(impl, "idle_pinging", impl.idle_pinging)
                        EXCEPT !.idle_pinging = FALSE], "wr_block", o),
              AfterIdle)

\* The application is told that the closing handshake is complete
ToldClosed(o) == \/ o = "read" /\ impl.ec.read = "closed"
                 \/ o = "close" /\ impl.ec.close = "ok"
CloseFrames == Cardinality({k \in DOMAIN net.sent :
                              net.sent[k].kind = "close"})

Upcall(o) ==
  /\ impl.at[o] = "upcall"
  /\ impl' = [At(Released(o), o, "off") EXCEPT !.ec[o] = "ok"]
  /\ hist' = [hist EXCEPT !.mutual = @ /\
                (ToldClosed(o) => impl.rd_close /\ CloseFrames = 1)]
  /\ UNCHANGED net

(***************************************************************************)
(* The timer.  When it expires its handler is queued; by the time it runs  *)
(* the timer may have been set again.                                      *)
(***************************************************************************)
Expire ==
  /\ impl.timer
  /\ impl' = [impl EXCEPT !.timer = FALSE, !.fired = TRUE]
  /\ UNCHANGED <<net, hist>>

KeepsAlive ==
  impl.status = "open" /\ impl.opt.keep_alive /\ impl.idle_counter < 1

StartIdlePing(i) ==
  IF i.idle_pinging THEN i
  ELSE TryLock([i EXCEPT !.idle_pinging = TRUE], "wr_block", "idle",
               "begin", "wait_wr")

TimeoutHandler ==
  /\ Idle /\ impl.fired
  /\ LET i == [impl EXCEPT !.fired = FALSE]
     IN  \/ /\ Stopped(i) \/ (i.status = "open" /\ ~i.opt.idle)
            /\ impl' = i
            /\ UNCHANGED net
         \/ /\ i.status = "open" /\ i.opt.idle /\ KeepsAlive
            /\ impl' = [StartIdlePing(i) EXCEPT !.idle_counter = @ + 1,
                                                !.timer = TRUE]
            /\ UNCHANGED net
         \/ /\ \/ i.status = "closing"
               \/ i.status = "open" /\ i.opt.idle /\ ~KeepsAlive
            /\ impl' = TimeOut(i)
            /\ net' = [net EXCEPT !.open = FALSE]
  /\ UNCHANGED hist

Break ==
  /\ net.end = "reset" /\ ~net.broken
  /\ net' = [net EXCEPT !.broken = TRUE]
  /\ UNCHANGED <<impl, hist>>

(***************************************************************************)
(* The specification.  The handlers that may run are run, the operations   *)
(* of the connection that can end do, and the timer expires.               *)
(***************************************************************************)
Read == \/ AcquireRead \/ ReadGranted \/ ReadLoop \/ ReadHeader
        \/ ReadControl \/ ReadPosted \/ PongGranted \/ PongSent
        \/ ReadPayload \/ ReadFill \/ ReadFail \/ FailGranted \/ ReadClosing
        \/ CloseSent \/ ReadTornDown \/ Upcall("read")
Close == \/ CloseBegin \/ CloseFrameSent \/ CloseGrantedRead \/ CloseDiscard
         \/ CloseMore \/ CloseTornDown \/ Upcall("close")
Write == SendBegin("write") \/ PieceSent \/ Upcall("write")
Ping == \E o \in {"ping", "idle"} : SendBegin(o) \/ ControlSent(o) \/ Upcall(o)

Progress == Read \/ Close \/ Write \/ Ping \/ Expire \/ TimeoutHandler
Start == ReadStart \/ CloseStart \/ WriteStart \/ PingStart
Next == Start \/ Progress \/ Break

Spec == Init /\ [][Next]_vars /\ WF_vars(Progress)

-----------------------------------------------------------------------------
(***************************************************************************)
(* Properties.                                                             *)
(***************************************************************************)
TypeOK ==
  /\ impl.at \in [Ops -> Labels]
  /\ {impl.wr_block, impl.rd_block} \subseteq Ops \cup {"none"}
  /\ impl.status \in {"open", "closing", "closed", "failed"}
  /\ impl.rd_remain \in Nat /\ impl.left \in Nat
  /\ impl.idle_counter \in 0 .. 1
  /\ Cardinality({o \in Ops : impl.at[o] \in Running}) <= 1

(***************************************************************************)
(* A mutex is held by an operation exactly while that operation is between *)
(* taking it and giving it up: nobody holds a mutex he no longer knows of, *)
(* which would stop all that wait for it, and nobody writes or reads       *)
(* without it (soft_mutex.hpp, the orders of maybe_invoke()).              *)
(***************************************************************************)
HoldsWrite(o) ==
  IF o = "read"
  THEN impl.at.read \in {"pong_got", "pong_send", "fail_got", "closing",
                         "close_send", "teardown"}
  ELSE impl.at[o] \notin {"off", "wait_wr"}
HoldsRead(o) ==
  \/ o = "read" /\ impl.at.read \in
       {"loop", "header", "control", "posted", "payload", "fill", "fail",
        "fail_wait", "fail_got", "closing", "close_send", "got_rd"}
  \/ o = "close" /\ impl.at.close \in {"got_rd", "discard", "more"}

LocksHeld ==
  \A o \in Ops :
    /\ HoldsWrite(o) /\ impl.at[o] # "upcall" => impl.wr_block = o
    /\ HoldsRead(o) => impl.rd_block = o
    /\ impl.wr_block = o => HoldsWrite(o) \/ impl.at[o] = "upcall"
    /\ impl.rd_block = o => impl.at[o] # "off"

(***************************************************************************)
(* No two operations of the same direction are pending on the stream.      *)
(***************************************************************************)
OneAtATime ==
  /\ Cardinality({o \in Ops : impl.at[o] \in Writing}) <= 1
  /\ Cardinality({o \in Ops : impl.at[o] \in Reading \cup {"teardown"}}) <= 1

(***************************************************************************)
(* None of the assertions about the mutexes, the close frames and the      *)
(* state of a read fails.                                                  *)
(***************************************************************************)
AssertionsHold == impl.failed \subseteq {"aborted"}

(***************************************************************************)
(* The peer gets frames and messages it can take apart: the parts of a     *)
(* frame follow each other, a message begins with text and goes on with    *)
(* continuations, and nothing follows the close frame, whatever pings,     *)
(* pongs and writes share the stream.                                      *)
(***************************************************************************)
Parts == SelectSeq(net.sent, LAMBDA s : s.kind \in Data)
WellFormed ==
  /\ \A k \in DOMAIN net.sent :
       LET s == net.sent[k] IN
       /\ s.kind = "close" => k = Len(net.sent)
       /\ s.left > 0 /\ k < Len(net.sent) =>
            net.sent[k + 1].kind = "more" /\ net.sent[k + 1].left = s.left - 1
       /\ s.kind = "more" => k > 1 /\ net.sent[k - 1].left > 0
  /\ \A k \in DOMAIN Parts :
       Parts[k].kind = IF k = 1 \/ Parts[k - 1].fin THEN "text" ELSE "cont"

(***************************************************************************)
(* The pongs answer the pings of the peer, each once and in their order.   *)
(***************************************************************************)
Pongs == SelectSeq(net.sent, LAMBDA s : s.kind = "pong")
PongsInOrder == \A k \in DOMAIN Pongs : Pongs[k].id = k

(***************************************************************************)
(* The application gets the payload of the messages in its order, without  *)
(* a gap, and never what is not valid.                                     *)
(***************************************************************************)
DeliveredInOrder ==
  \A k \in DOMAIN hist.got : hist.got[k].kind = "byte" /\ hist.got[k].id = k

(***************************************************************************)
(* "The session ends when both ends of the connection have sent and        *)
(* received a close frame": an operation that reports the end of the       *)
(* session does so with a close frame received and one sent.               *)
(***************************************************************************)
ClosedIsMutual == hist.mutual

(***************************************************************************)
(* With both timeouts set every operation ends, whoever waits for whom.    *)
(***************************************************************************)
EveryOpEnds == \A o \in Ops : impl.at[o] # "off" ~> impl.at[o] = "off"
=============================================================================
