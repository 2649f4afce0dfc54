----------------------------- MODULE BasicStream -----------------------------
(***************************************************************************)
(* basic_stream of Boost.Beast (tcp_stream is basic_stream<tcp>): a socket *)
(* whose operations race a deadline and are held back by a rate policy.    *)
(*                                                                         *)
(* All handlers run in one strand, as basic_stream.hpp asks for, so that   *)
(* each is one step.  `ready` holds those that are due, in order.  Timers, *)
(* the socket and the peer act between any two handlers.                   *)
(*                                                                         *)
(* Time is how it looks to a timer: its expiry is never, in the future, or *)
(* past.  A wait on a timer whose expiry is past is due at once.           *)
(***************************************************************************)
EXTENDS Integers, SequencesExt

CONSTANTS
  Limited,   (* simple_rate_policy with a limit, or unlimited_rate_policy  *)
  Limit,     (* bytes per slice and direction                              *)
  MaxBytes,  (* bound of the model: size of the buffers of the caller      *)
  MaxOps     (* bound of the model: operations started                     *)

ASSUME BasicStreamAssumption ==
  /\ Limited \in BOOLEAN
  /\ Limit \in Nat \ {0}
  /\ MaxBytes \in Nat \ {0}
  /\ MaxOps \in Nat

Dir == {"read", "write"}

VARIABLES
  open,       (* the socket is open                                        *)
  pending,    (* op_state::pending of read and write                       *)
  timeout,    (* op_state::timeout                                         *)
  tick,       (* op_state::tick                                            *)
  expiry,     (* expiry of op_state::timer                                 *)
  waits,      (* waits on op_state::timer: the tick each was started with  *)
  phase,      (* what the pending operation waits for                      *)
  room,       (* bytes the pending operation may transfer                  *)
  rateExpiry, (* expiry of the rate timer                                  *)
  rateWaits,  (* waits on the rate timer                                   *)
  waiting,    (* impl_type::waiting                                        *)
  remain,     (* rd_remain_ and wr_remain_                                 *)
  ready,      (* handlers due                                              *)
  ops,        (* operations started                                        *)
  sliced,     (* history: bytes transferred since the slice began          *)
  over,       (* history: bytes granted beyond what remained of the slice  *)
  last        (* history: how the latest operation of a direction ended    *)

rateVars  == <<rateExpiry, rateWaits, waiting, remain, sliced, over>>
timerVars == <<tick, expiry, waits, timeout>>
vars == <<open, pending, timeout, tick, expiry, waits, phase, room, rateExpiry,
          rateWaits, waiting, remain, ready, ops, sliced, over, last>>

Init ==
  /\ open = TRUE
  /\ pending = [d \in Dir |-> FALSE]
  /\ timeout = [d \in Dir |-> FALSE]
  /\ tick = [d \in Dir |-> 0]
  /\ expiry = [d \in Dir |-> "never"]
  /\ waits = [d \in Dir |-> <<>>]
  /\ phase = [d \in Dir |-> "idle"]
  /\ room = [d \in Dir |-> 0]
  /\ rateExpiry = "past"
  /\ rateWaits = <<>>
  /\ waiting = 0
  /\ remain = [d \in Dir |-> Limit]
  /\ ready = <<>>
  /\ ops = 0
  /\ sliced = [d \in Dir |-> 0]
  /\ over = [d \in Dir |-> 0]
  /\ last = [d \in Dir |-> "none"]

------------------------------------------------------------------------------
(* Handlers: of a transfer or connect (d, at which of its waits, error,    *)
(* bytes), of a deadline (d, tick) and of the end of a slice.              *)
OpHandler(d, at, ec, n) == [k |-> "op", d |-> d, at |-> at, ec |-> ec, n |-> n]
DeadlineHandler(d, t, ec) == [k |-> "deadline", d |-> d, tick |-> t, ec |-> ec]
SliceHandler(ec) == [k |-> "slice", ec |-> ec]

RateHandler(w, ec) == IF w = "slice" THEN SliceHandler(ec) ELSE OpHandler(w, "rate", ec, 0)

AtSocket == {"io", "noop", "connect"}

(* The handlers that socket.close() or socket.cancel() makes due.          *)
SocketAborts(ph) ==
  LET aborted(d) == IF ph[d] \in AtSocket THEN <<OpHandler(d, ph[d], "aborted", 0)>> ELSE <<>>
  IN aborted("read") \o aborted("write")

(* The handlers that timer.cancel() makes due.                             *)
RateAborts == [i \in DOMAIN rateWaits |-> RateHandler(rateWaits[i], "aborted")]

(* No socket operation and no wait on the rate timer is left outstanding.  *)
CancelAll(due, ph) ==
  /\ ready' = due \o SocketAborts(ph) \o RateAborts
  /\ phase' = [d \in Dir |-> IF ph[d] = "idle" THEN "idle" ELSE "due"]
  /\ rateWaits' = <<>>

(* impl_type::close(), called by a handler that leaves `due` and `ph`.     *)
CloseImpl(due, ph) == open' = FALSE /\ CancelAll(due, ph)

(* Wrong: what remains of the slice is not looked at.                      *)
AvailableAll(d) == MaxBytes

(* Available bytes of the rate policy.                                     *)
Available(d) == IF Limited THEN remain[d] ELSE MaxBytes

(* rate_policy_access::transfer_read_bytes, transfer_write_bytes.          *)
TransferBytes(d, n) ==
  /\ remain' = IF Limited THEN [remain EXCEPT ![d] = IF n < @ THEN @ - n ELSE 0] ELSE remain
  /\ sliced' = [sliced EXCEPT ![d] = @ + n]

------------------------------------------------------------------------------
(* Calls of the user.  expires_after, expires_at and expires_never apply   *)
(* to the directions that have no operation pending.                       *)
SetExpiry(e) ==
  /\ \E d \in Dir : ~pending[d]
  /\ expiry' = [d \in Dir |-> IF pending[d] THEN expiry[d] ELSE e]
  /\ waits' = [d \in Dir |-> IF pending[d] THEN waits[d] ELSE <<>>]
  /\ LET aborted(d) == IF pending[d] THEN <<>>
                       ELSE [i \in DOMAIN waits[d] |-> DeadlineHandler(d, waits[d][i], "aborted")]
     IN ready' = ready \o aborted("read") \o aborted("write")
  /\ UNCHANGED <<open, pending, timeout, tick, phase, room, rateVars, ops, last>>

ExpiresAfter == SetExpiry("future")
ExpiresAt    == SetExpiry("past")
ExpiresNever == SetExpiry("never")

Cancel ==
  /\ CancelAll(ready, phase)
  /\ UNCHANGED <<open, pending, timerVars, room, rateExpiry, waiting, remain, sliced, over, ops,
                 last>>

Close ==
  /\ CloseImpl(ready, phase)
  /\ UNCHANGED <<pending, timerVars, room, rateExpiry, waiting, remain, sliced, over, ops,
                 last>>

(* The wait on its deadline that an operation of d starts.                 *)
Arm(d) == waits' = IF expiry[d] = "never" THEN waits
                   ELSE [waits EXCEPT ![d] = Append(@, tick[d])]

(* async_read_some, async_write_some with buffers of n bytes.  (With empty *)
(* buffers and an operation of d pending they complete and change nothing.) *)
StartTransfer(d, n) ==
  /\ ~pending[d]
  /\ ops < MaxOps
  /\ ops' = ops + 1
  /\ pending' = [pending EXCEPT ![d] = TRUE]
  /\ \/ /\ n = 0
        /\ phase' = [phase EXCEPT ![d] = "noop"]
        /\ UNCHANGED <<waits, room, waiting, rateWaits>>
     \/ /\ n > 0
        /\ Available(d) > 0
        /\ Arm(d)
        /\ phase' = [phase EXCEPT ![d] = "io"]
        /\ room' = [room EXCEPT ![d] = Min({n, Available(d)})]
        /\ UNCHANGED <<waiting, rateWaits>>
     \/ /\ n > 0
        /\ Available(d) = 0
        /\ Arm(d)
        /\ phase' = [phase EXCEPT ![d] = "rate"]
        /\ room' = [room EXCEPT ![d] = n]
        /\ waiting' = waiting + 1
        /\ rateWaits' = Append(rateWaits, d)
  /\ UNCHANGED <<open, timeout, tick, expiry, rateExpiry, remain, ready, sliced, over,
                 last>>

(* async_connect takes both directions, under the deadline of write.       *)
StartConnect ==
  /\ ~pending["read"] /\ ~pending["write"]
  /\ ops < MaxOps
  /\ ops' = ops + 1
  /\ pending' = [d \in Dir |-> TRUE]
  /\ Arm("write")
  /\ phase' = [phase EXCEPT !["write"] = "connect"]
  /\ open' = TRUE
  /\ UNCHANGED <<timeout, tick, expiry, room, rateVars, ready, last>>

------------------------------------------------------------------------------
(* The socket and the timers.                                              *)

(* A socket operation ends: with some bytes, or with an error.             *)
SocketDone(d) ==
  /\ phase[d] \in AtSocket
  /\ \/ /\ open
        /\ phase[d] = "io"
        /\ \E n \in 1 .. room[d] : ready' = Append(ready, OpHandler(d, "io", "ok", n))
     \/ /\ open
        /\ phase[d] # "io"
        /\ ready' = Append(ready, OpHandler(d, phase[d], "ok", 0))
     \/ ready' = Append(ready, OpHandler(d, phase[d], "error", 0))
  /\ phase' = [phase EXCEPT ![d] = "due"]
  /\ UNCHANGED <<open, pending, timerVars, room, rateVars, ops, last>>

(* The deadline of d passes.                                               *)
Expire(d) ==
  /\ expiry[d] = "future"
  /\ expiry' = [expiry EXCEPT ![d] = "past"]
  /\ UNCHANGED <<open, pending, timeout, tick, waits, phase, room, rateVars, ready, ops, last>>

DeadlineDue(d) ==
  /\ expiry[d] = "past"
  /\ waits[d] # <<>>
  /\ ready' = ready \o [i \in DOMAIN waits[d] |-> DeadlineHandler(d, waits[d][i], "ok")]
  /\ waits' = [waits EXCEPT ![d] = <<>>]
  /\ UNCHANGED <<open, pending, timeout, tick, expiry, phase, room, rateVars, ops, last>>

(* The second of the slice is over.                                        *)
RateExpire ==
  /\ rateExpiry = "future"
  /\ rateExpiry' = "past"
  /\ UNCHANGED <<open, pending, timerVars, phase, room, rateWaits, waiting, remain, ready,
                 ops, sliced, over, last>>

RateDue ==
  /\ rateExpiry = "past"
  /\ rateWaits # <<>>
  /\ ready' = ready \o [i \in DOMAIN rateWaits |-> RateHandler(rateWaits[i], "ok")]
  /\ phase' = [d \in Dir |-> IF phase[d] = "rate" THEN "due" ELSE phase[d]]
  /\ rateWaits' = <<>>
  /\ UNCHANGED <<open, pending, timerVars, room, rateExpiry, waiting, remain, ops, sliced,
                 over, last>>

------------------------------------------------------------------------------
(* The handlers.  Each is the head of ready when it runs.                  *)
due == Tail(ready)

(* Wrong: a wait that came too late is taken for one of this operation.    *)
OnDeadlineStale(hd) ==
  \/ /\ hd.ec = "ok"
     /\ CloseImpl(due, phase)
     /\ timeout' = [timeout EXCEPT ![hd.d] = TRUE]
     /\ UNCHANGED <<pending, tick, expiry, waits, room, rateExpiry, waiting, remain, sliced,
                    over, ops, last>>
  \/ /\ hd.ec = "aborted"
     /\ ready' = due
     /\ UNCHANGED <<open, pending, timerVars, phase, room, rateVars, ops, last>>

(* timeout_handler: closes the socket unless it was cancelled or is stale. *)
OnDeadline(hd) ==
  \/ /\ hd.ec = "ok"
     /\ hd.tick = tick[hd.d]
     /\ CloseImpl(due, phase)
     /\ timeout' = [timeout EXCEPT ![hd.d] = TRUE]
     /\ UNCHANGED <<pending, tick, expiry, waits, room, rateExpiry, waiting, remain, sliced,
                    over, ops, last>>
  \/ /\ hd.ec = "aborted" \/ hd.tick < tick[hd.d]
     /\ ready' = due
     /\ UNCHANGED <<open, pending, timerVars, phase, room, rateVars, ops, last>>

(* on_timer(): the last waiter starts the new slice and waits for its end. *)
OnTimer ==
  \/ /\ waiting > 1
     /\ waiting' = waiting - 1
     /\ UNCHANGED <<rateExpiry, rateWaits, remain, sliced>>
  \/ /\ waiting = 1
     /\ waiting' = 1
     /\ rateExpiry' = "future"
     /\ rateWaits' = Append(rateWaits, "slice")
     /\ remain' = [d \in Dir |-> Limit]
     /\ sliced' = [d \in Dir |-> 0]

(* What was granted so far, and the byte of an operation of D that finds   *)
(* nothing left; a new slice begins at nothing.                            *)
Grant(D) ==
  over' = [d \in Dir |-> IF waiting = 1 THEN 0
                         ELSE over[d] + IF d \in D /\ remain[d] = 0 THEN 1 ELSE 0]

OnSlice(hd) ==
  /\ ready' = due
  /\ \/ hd.ec = "ok" /\ OnTimer /\ Grant({})
     \/ hd.ec = "aborted" /\ UNCHANGED rateVars
  /\ UNCHANGED <<open, pending, timerVars, phase, room, ops, last>>

(* What the operation of d learns of its deadline as it ends with ec: it   *)
(* cancels the wait, and a wait that is gone may have been the timeout.    *)
Result(d, ec) == IF expiry[d] # "never" /\ waits[d] = <<>> /\ timeout[d] THEN "timeout" ELSE ec

(* Wrong: the deadline is left armed behind an operation that has ended.   *)
DisarmForgets(d) == ready' = due /\ UNCHANGED <<tick, waits, timeout>>

Disarm(d) ==
  \/ /\ expiry[d] = "never"
     /\ ready' = due
     /\ UNCHANGED <<tick, waits, timeout>>
  \/ /\ expiry[d] # "never"
     /\ tick' = [tick EXCEPT ![d] = @ + 1]
     /\ ready' = due \o [i \in DOMAIN waits[d] |-> DeadlineHandler(d, waits[d][i], "aborted")]
     /\ waits' = [waits EXCEPT ![d] = <<>>]
     /\ timeout' = [timeout EXCEPT ![d] = @ /\ waits[d] # <<>>]

(* upcall: the operations of D end and the handler of the user is called.  *)
Upcall(D, d, ec) ==
  /\ pending' = [e \in Dir |-> pending[e] /\ e \notin D]
  /\ last' = [last EXCEPT ![d] = ec]

(* transfer_op resumed after the socket operation.                         *)
OnTransfer(hd) ==
  /\ Disarm(hd.d)
  /\ Upcall({hd.d}, hd.d, Result(hd.d, hd.ec))
  /\ TransferBytes(hd.d, hd.n)
  /\ phase' = [phase EXCEPT ![hd.d] = "idle"]
  /\ UNCHANGED <<open, expiry, room, rateExpiry, rateWaits, waiting, over, ops>>

(* transfer_op with empty buffers: the deadline is looked at by hand.      *)
OnNoop(hd) ==
  /\ LET ph == [phase EXCEPT ![hd.d] = "idle"]
     IN \/ /\ expiry[hd.d] = "past"
           /\ CloseImpl(due, ph)
           /\ Upcall({hd.d}, hd.d, "timeout")
        \/ /\ expiry[hd.d] # "past"
           /\ ready' = due
           /\ phase' = ph
           /\ Upcall({hd.d}, hd.d, hd.ec)
           /\ UNCHANGED <<open, rateWaits>>
  /\ UNCHANGED <<timerVars, room, rateExpiry, waiting, remain, sliced, over, ops>>

(* transfer_op resumed after the wait for the next slice: one byte at      *)
(* least may be transferred, even if the slice has not ended.              *)
OnRate(hd) ==
  \/ /\ hd.ec = "ok"
     /\ OnTimer
     /\ Grant({hd.d})
     /\ ready' = due
     /\ phase' = [phase EXCEPT ![hd.d] = "io"]
     /\ room' = [room EXCEPT ![hd.d] = Min({@, Max({remain'[hd.d], 1})})]
     /\ UNCHANGED <<open, pending, timerVars, ops, last>>
  \/ /\ hd.ec = "aborted"
     /\ ready' = due
     /\ timeout' = [timeout EXCEPT ![hd.d] = FALSE]
     /\ Upcall({hd.d}, hd.d, IF timeout[hd.d] THEN "timeout" ELSE "aborted")
     /\ phase' = [phase EXCEPT ![hd.d] = "idle"]
     /\ UNCHANGED <<open, tick, expiry, waits, room, rateVars, ops>>

(* connect_op.                                                             *)
OnConnect(hd) ==
  /\ Disarm("write")
  /\ Upcall(Dir, "write", Result("write", hd.ec))
  /\ phase' = [phase EXCEPT !["write"] = "idle"]
  /\ UNCHANGED <<open, expiry, room, rateVars, ops>>

RunHandler ==
  /\ ready # <<>>
  /\ LET hd == Head(ready)
     IN \/ hd.k = "deadline" /\ OnDeadline(hd)
        \/ hd.k = "slice" /\ OnSlice(hd)
        \/ hd.k = "op" /\ hd.at = "io" /\ OnTransfer(hd)
        \/ hd.k = "op" /\ hd.at = "noop" /\ OnNoop(hd)
        \/ hd.k = "op" /\ hd.at = "rate" /\ OnRate(hd)
        \/ hd.k = "op" /\ hd.at = "connect" /\ OnConnect(hd)

User == \/ ExpiresAfter \/ ExpiresAt \/ ExpiresNever \/ Cancel \/ Close \/ StartConnect
        \/ \E d \in Dir, n \in 0 .. MaxBytes : StartTransfer(d, n)

Next ==
  \/ User
  \/ RunHandler
  \/ RateExpire
  \/ RateDue
  \/ \E d \in Dir : SocketDone(d) \/ Expire(d) \/ DeadlineDue(d)

Spec == Init /\ [][Next]_vars

------------------------------------------------------------------------------
(* Type invariant.                                                         *)
TypeOK ==
  /\ open \in BOOLEAN
  /\ pending \in [Dir -> BOOLEAN]
  /\ timeout \in [Dir -> BOOLEAN]
  /\ tick \in [Dir -> 0 .. MaxOps]
  /\ expiry \in [Dir -> {"never", "future", "past"}]
  /\ waits \in [Dir -> Seq(0 .. MaxOps)]
  /\ phase \in [Dir -> {"idle", "rate", "due"} \cup AtSocket]
  /\ room \in [Dir -> 0 .. MaxBytes]
  /\ rateExpiry \in {"future", "past"}
  /\ rateWaits \in Seq(Dir \cup {"slice"})
  /\ waiting \in Nat
  /\ remain \in [Dir -> 0 .. Limit]
  /\ ops \in 0 .. MaxOps
  /\ sliced \in [Dir -> Nat]
  /\ over \in [Dir -> Nat]
  /\ last \in [Dir -> {"none", "ok", "error", "aborted", "timeout"}]

(* What BOOST_VERIFY(timer.expires_after(...) == 0) asserts in             *)
(* expires_after, expires_at and reset(): an operation that has ended      *)
(* leaves no wait on its deadline behind, which would close the socket     *)
(* under a later one.                                                      *)
NoWaitLeft == \A d \in Dir : ~pending[d] => waits[d] = <<>>

(* BOOST_ASSERT(! state.timeout) in timeout_handler and in transfer_op: a  *)
(* timeout is told to the operation whose deadline it was and to no later  *)
(* one; a deadline handler that has lost the race against the end of its   *)
(* operation is found stale by its tick.                                   *)
TimeoutHasOp ==
  \A d \in Dir :
    /\ timeout[d] => pending[d] /\ waits[d] = <<>>
    /\ \A i \in DOMAIN ready :
         ready[i].k = "deadline" /\ ready[i].d = d /\ ready[i].ec = "ok" /\ ready[i].tick = tick[d]
           => pending[d] /\ ~timeout[d]

(* simple_rate_policy limits the bytes of each slice and direction: more   *)
(* than that are transferred only by operations that have waited and found *)
(* nothing left, since others still wait, and each of them transfers one.  *)
SliceBound == Limited => \A d \in Dir : sliced[d] <= Limit + over[d]

------------------------------------------------------------------------------
(* The stream as its user knows it.                                        *)
Timed == INSTANCE TimedStream WITH
           deadline <- [d \in Dir |-> expiry[d] # "never"]

(* basic_stream implements TimedStream: only the user, or the deadline of  *)
(* an operation that is pending, closes the socket.                        *)
ImplementsTimed == Timed!Spec
==============================================================================
