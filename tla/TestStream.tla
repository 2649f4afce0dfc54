----------------------------- MODULE TestStream ------------------------------
(***************************************************************************)
(* test::stream: two connected ends of a pipe in memory, each with its     *)
(* input area, and the context that runs the handlers.  An end is used by  *)
(* one thread at a time; the ends, and the context, run side by side and   *)
(* meet at the mutex of an input area, so that an action is at most what   *)
(* is done under one of them.                                              *)
(***************************************************************************)
EXTENDS Integers, Sequences

CONSTANTS
  Sizes,        (* of the buffers of an operation                          *)
  ReadMax, WriteMax,  (* read_max and write_max                            *)
  FailCounts,   (* what fail_counts the ends are made with                 *)
  Never,        (* that of an end without one                              *)
  MaxArrived, MaxCalls  (* bounds: bytes into an area, calls of an end     *)

End == {"a", "b"}
Other(e) == CHOOSE p \in End : p # e
TestStreamAssumption ==
  /\ Sizes \subseteq Nat /\ {ReadMax, WriteMax} \subseteq Nat \ {0}
  /\ FailCounts \subseteq [End -> Nat \cup {Never}]
  /\ {MaxArrived, MaxCalls} \subseteq Nat

VARIABLES
  b,            (* an end's input area                                     *)
  op,           (* the size of the read that waits for it, or NoOp         *)
  code,         (* "ok" or "eof"                                           *)
  out,          (* out_ still refers to the other end's area               *)
  fail_at, i,   (* n_ and i_ of its fail_count                              *)
  pc, size,     (* what its thread is in the middle of, with what buffer   *)
  reading,      (* it has an asynchronous read                             *)
  posted,       (* to the context                                          *)
  calls,        (* of an end                                               *)
  outcome,      (* of each that was counted: did the fail_count fail it    *)
  arrived, got, (* bytes that were put into its area and not cleared, and  *)
                (* that it read                                            *)
  told          (* the last error an end was told                          *)

area == <<b, op, code, out>>
hist == <<arrived, got, told>>
vars == <<b, op, code, out, fail_at, i, pc, size, reading, posted, calls, outcome, arrived, got, told>>

NoOp == -1
Least(m, n) == IF m < n THEN m ELSE n

Init ==
  /\ b = [e \in End |-> <<>>] /\ op = [e \in End |-> NoOp]
  /\ code = [e \in End |-> "ok"] /\ out = [e \in End |-> TRUE]
  /\ fail_at \in FailCounts /\ i = [e \in End |-> 0]
  /\ pc = [e \in End |-> "idle"] /\ size = [e \in End |-> 0]
  /\ reading = [e \in End |-> FALSE] /\ posted = <<>>
  /\ calls = [e \in End |-> 0] /\ outcome = [e \in End |-> <<>>]
  /\ arrived = [e \in End |-> <<>>] /\ got = [e \in End |-> <<>>]
  /\ told = [e \in End |-> "none"]

(* The area of e is closed.                                                *)
Ended(e) == code' = [code EXCEPT ![e] = "eof"]

Exists(e) == pc[e] # "gone"

(* fail_count::fail().                                                     *)
Count(e) == IF fail_at[e] # Never /\ i[e] < fail_at[e] THEN i[e] + 1 ELSE i[e]
Fails(e) == fail_at[e] # Never /\ Count(e) = fail_at[e]

(* A call of an end that is between calls, which counts.                   *)
Call(e) ==
  /\ pc[e] = "idle" /\ calls[e] < MaxCalls
  /\ calls' = [calls EXCEPT ![e] = @ + 1]
  /\ i' = [i EXCEPT ![e] = Count(e)]
  /\ outcome' = [outcome EXCEPT ![e] = Append(@, Fails(e))]
  /\ UNCHANGED fail_at

(* One that does not count.                                                *)
Uncounted(e) ==
  /\ pc[e] = "idle" /\ calls[e] < MaxCalls
  /\ calls' = [calls EXCEPT ![e] = @ + 1] /\ UNCHANGED <<fail_at, i, outcome>>

Handler(e, k, ec) == [end |-> e, size |-> k, ec |-> ec]

(* Wrong: one that waits in the context is waited for again.               *)
notify_read_keeps(e) ==
  IF op[e] # NoOp THEN posted' = Append(posted, Handler(e, op[e], "none")) /\ UNCHANGED op
  ELSE UNCHANGED <<op, posted>>

(* stream_state::notify_read(): what waits is posted, or a thread woken.   *)
notify_read(e) ==
  IF op[e] # NoOp THEN /\ posted' = Append(posted, Handler(e, op[e], "none"))
                       /\ op' = [op EXCEPT ![e] = NoOp]
  ELSE UNCHANGED <<op, posted>>

initiate_read(e, k) ==
  IF Fails(e) THEN posted' = Append(posted, Handler(e, k, "failure")) /\ UNCHANGED op
  ELSE IF k = 0 \/ b[e] # <<>>
    THEN posted' = Append(posted, Handler(e, k, "none")) /\ UNCHANGED op
  ELSE IF code[e] # "ok" THEN posted' = Append(posted, Handler(e, k, "eof")) /\ UNCHANGED op
  ELSE op' = [op EXCEPT ![e] = k] /\ UNCHANGED posted

Tell(e, ec) == told' = [told EXCEPT ![e] = ec]

(* async_read_some().                                                      *)
async_read_some(e) ==
  /\ ~reading[e] /\ Call(e)
  /\ \E k \in Sizes : initiate_read(e, k)
  /\ reading' = [reading EXCEPT ![e] = TRUE] /\ Tell(e, "none")
  /\ UNCHANGED <<b, code, out, pc, size, arrived, got>>

Take(e, k) ==
  LET n == Least(Least(k, ReadMax), Len(b[e]))
  IN  /\ b' = [b EXCEPT ![e] = SubSeq(@, n + 1, Len(@))]
      /\ got' = [got EXCEPT ![e] = @ \o SubSeq(b[e], 1, n)]

(* read_op's lambda, in the context.                                       *)
RunRead ==
  /\ posted # <<>> /\ posted' = Tail(posted)
  /\ LET h == Head(posted)
         e == h.end
     IN  /\ reading' = [reading EXCEPT ![e] = FALSE]
         /\ IF ~Exists(e) THEN Tell(e, "aborted") /\ UNCHANGED <<b, got>>
            ELSE IF h.ec # "none" THEN Tell(e, h.ec) /\ UNCHANGED <<b, got>>
            ELSE IF b[e] # <<>> THEN Take(e, h.size) /\ Tell(e, "none")
            ELSE Tell(e, IF h.size > 0 THEN "eof" ELSE "none") /\ UNCHANGED <<b, got>>
  /\ UNCHANGED <<op, code, out, fail_at, i, pc, size, calls, outcome, arrived>>

(* read_some() up to where it waits, and behind it.                        *)
read_some(e) ==
  /\ ~reading[e] /\ Call(e)
  /\ \E k \in Sizes :
       IF Fails(e) \/ k = 0
         THEN Tell(e, IF Fails(e) THEN "failure" ELSE "none") /\ UNCHANGED <<pc, size>>
         ELSE /\ pc' = [pc EXCEPT ![e] = "wait"] /\ size' = [size EXCEPT ![e] = k]
              /\ Tell(e, "none")
  /\ UNCHANGED <<area, reading, posted, arrived, got>>

Woken(e) ==
  /\ pc[e] = "wait" /\ (b[e] # <<>> \/ code[e] # "ok")
  /\ pc' = [pc EXCEPT ![e] = "idle"]
  /\ IF b[e] # <<>> THEN Take(e, size[e]) /\ Tell(e, "none")
     ELSE Tell(e, "eof") /\ UNCHANGED <<b, got>>
  /\ UNCHANGED <<op, code, out, fail_at, i, size, reading, posted, calls, outcome, arrived>>

(* write_some() and async_write_some(), whose handler is told the same, up *)
(* to where they have the other end's area, and under its mutex.           *)
write_some(e) ==
  /\ Call(e)
  /\ \E k \in Sizes :
       IF Fails(e) \/ k = 0 \/ ~out[e] \/ ~Exists(Other(e))
         THEN /\ Tell(e, IF Fails(e) THEN "failure" ELSE IF k = 0 THEN "none" ELSE "reset")
              /\ UNCHANGED <<pc, size>>
         ELSE /\ pc' = [pc EXCEPT ![e] = "write"] /\ size' = [size EXCEPT ![e] = k]
              /\ UNCHANGED told
  /\ UNCHANGED <<area, reading, posted, arrived, got>>

Put(e, n) ==
  LET bytes == [j \in 1 .. n |-> Len(arrived[e]) + j]
  IN  /\ Len(arrived[e]) + n <= MaxArrived
      /\ b' = [b EXCEPT ![e] = @ \o bytes]
      /\ arrived' = [arrived EXCEPT ![e] = @ \o bytes]

(* Wrong: nobody is notified.                                              *)
Copy_silent(e) ==
  /\ pc[e] = "write" /\ pc' = [pc EXCEPT ![e] = "idle"]
  /\ Put(Other(e), Least(size[e], WriteMax)) /\ Tell(e, "none")
  /\ UNCHANGED <<op, posted, code, out, fail_at, i, size, reading, calls, outcome, got>>

Copy(e) ==
  /\ pc[e] = "write" /\ pc' = [pc EXCEPT ![e] = "idle"]
  /\ Put(Other(e), Least(size[e], WriteMax)) /\ notify_read(Other(e)) /\ Tell(e, "none")
  /\ UNCHANGED <<code, out, fail_at, i, size, reading, calls, outcome, got>>

(* close(), also of the destructor and, when the fail_count lets it, of    *)
(* teardown(): first cancel_read(), then the other end is notified.        *)
cancel_read(e) ==
  /\ Ended(e)
  /\ op' = [op EXCEPT ![e] = NoOp]
  /\ posted' = IF op[e] = NoOp THEN posted ELSE Append(posted, Handler(e, op[e], "aborted"))
  /\ UNCHANGED <<b, out, size, reading>>

close(e) ==
  /\ Uncounted(e) /\ cancel_read(e)
  /\ pc' = [pc EXCEPT ![e] = "close"] /\ UNCHANGED hist

Destroy(e) ==
  /\ Uncounted(e) /\ cancel_read(e)
  /\ pc' = [pc EXCEPT ![e] = "destroy"] /\ UNCHANGED hist

teardown(e) ==
  /\ Call(e)
  /\ IF Fails(e) THEN Tell(e, "failure") /\ UNCHANGED <<area, pc, size, reading, posted>>
     ELSE cancel_read(e) /\ pc' = [pc EXCEPT ![e] = "teardown"] /\ UNCHANGED told
  /\ UNCHANGED <<arrived, got>>

Closing == {"close", "destroy", "teardown"}

Disconnect(e) ==
  LET p == Other(e)
  IN  /\ pc[e] \in Closing
      /\ out' = [out EXCEPT ![e] = FALSE]
      /\ IF out[e] /\ Exists(p) /\ code[p] = "ok"
           THEN Ended(p) /\ notify_read(p)
           ELSE UNCHANGED <<code, op, posted>>
      /\ pc' = [pc EXCEPT ![e] = IF @ = "destroy" THEN "gone" ELSE "idle"]
      /\ IF pc[e] = "teardown"
           THEN /\ i' = [i EXCEPT ![e] = Count(e)]
                /\ outcome' = [outcome EXCEPT ![e] = Append(@, Fails(e))]
           ELSE UNCHANGED <<i, outcome>>
      /\ Tell(e, IF pc[e] = "teardown" /\ Fails(e) THEN "eof" ELSE told[e])
      /\ UNCHANGED <<b, fail_at, size, reading, calls, arrived, got>>

close_remote(e) ==
  /\ Uncounted(e)
  /\ IF code[e] = "ok" THEN Ended(e) /\ notify_read(e)
     ELSE UNCHANGED <<code, op, posted>>
  /\ UNCHANGED <<b, out, pc, size, reading, hist>>

(* append(), for the next read: not while one waits.                       *)
append(e) ==
  /\ ~reading[e] /\ Uncounted(e) /\ Put(e, 1)
  /\ UNCHANGED <<op, code, out, pc, size, reading, posted, got, told>>

clear(e) ==
  /\ Uncounted(e) /\ b' = [b EXCEPT ![e] = <<>>]
  /\ arrived' = [arrived EXCEPT ![e] = got[e]]
  /\ UNCHANGED <<op, code, out, pc, size, reading, posted, got, told>>

Next ==
  \/ RunRead
  \/ \E e \in End :
       \/ async_read_some(e) \/ read_some(e) \/ Woken(e)
       \/ write_some(e) \/ Copy(e)
       \/ close(e) \/ Destroy(e) \/ teardown(e) \/ Disconnect(e)
       \/ close_remote(e) \/ append(e) \/ clear(e)

Spec == Init /\ [][Next]_vars

------------------------------------------------------------------------------
TypeOK ==
  /\ op \in [End -> Sizes \cup {NoOp}] /\ code \in [End -> {"ok", "eof"}]
  /\ pc \in [End -> {"idle", "wait", "write", "gone"} \cup Closing]
  /\ \A e \in End : fail_at[e] # Never => i[e] <= fail_at[e]

(* Bytes are read in the order in which they were put into the area, each  *)
(* once, but for those that clear() drops, whatever the ends do            *)
(* (impl/stream.hpp:91-99, :303-310).                                      *)
InOrder == \A e \in End : got[e] \o b[e] = arrived[e]

(* A read that waits is one the other end can still answer: there is       *)
(* nothing to read, and it is not told of the end later than it could be   *)
(* (impl/stream.ipp:48-65).                                                *)
WaitsForNothing ==
  \A e \in End : op[e] # NoOp => b[e] = <<>> /\ code[e] = "ok" /\ reading[e]

(* "BOOST_ASSERT(! sp->op)" and that a handler is called once: of a read   *)
(* there is one place where it is (impl/stream.hpp:90).                    *)
OnePlace ==
  \A e \in End :
    LET mine == {k \in 1 .. Len(posted) : posted[k].end = e}
    IN  /\ \A j, k \in mine : j = k
        /\ mine # {} => op[e] = NoOp
        /\ reading[e] <=> (mine # {} \/ op[e] # NoOp)

(* From where its fail_count says, an end fails every operation            *)
(* (fail_count.hpp:21-25).                                                 *)
FailsEverAfter ==
  \A e \in End :
    /\ \A k \in 1 .. Len(outcome[e]) - 1 : outcome[e][k] => outcome[e][k + 1]
    /\ fail_at[e] # Never =>
         \A k \in 1 .. Len(outcome[e]) : k >= fail_at[e] => outcome[e][k]

=============================================================================
