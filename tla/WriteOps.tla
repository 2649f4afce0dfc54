------------------------------- MODULE WriteOps -------------------------------
(***************************************************************************)
(* The functions of http that write a serializer, or a message, to a       *)
(* stream: write_some, write_header, write, their asynchronous and         *)
(* throwing forms, and operator<<.  The serializer is reduced to what      *)
(* these see of it: next() shows buffers, fails, or has nothing left.      *)
(* (What it shows is in HttpWrite.)                                        *)
(***************************************************************************)
EXTENDS Integers, Sequences

CONSTANTS
  Header,       (* bytes of the header                                     *)
  Bodies,       (* sequences of the sizes of pieces, Need and End          *)
  Calls,        (* the functions that are called: [kind, what]             *)
  MaxErrors,    (* bound: errors of the stream                             *)
  MaxMessages   (* bound: messages                                         *)

(* get() reports need_buffer; it has no further piece.                     *)
Need == -1
End  == -2

WriteOpsAssumption ==
  /\ Header \in Nat \ {0}
  /\ \A b \in Bodies :
       b \in Seq(Nat \cup {Need, End}) /\ b # <<>> /\ b[Len(b)] # Need
  /\ Calls \subseteq [kind : {"sync", "throwing", "async", "ostream"},
                      what : {"some", "header", "all", "message"}]
  /\ \A c \in Calls : c.kind = "ostream" => c.what = "message"
  /\ MaxErrors \in Nat /\ MaxMessages \in Nat \ {0}

VARIABLES
  sr,           (* the serializer                                          *)
  op,           (* the function called last                                *)
  pc,           (* idle, next, writing, posted                             *)
  posted,       (* the error a posted handler will get                     *)
  count,        (* bytes_transferred_                                      *)
  told,         (* what the caller was told: [ec, n], n = -1 for nothing   *)
  sent,         (* history: the bytes of the message the stream took       *)
  before,       (* history: how many of them before the call               *)
  new,          (* history: the call's serializer had shown nothing        *)
  errors, messages, fail    (* errors so far, messages; fail() of ostream  *)

vars == <<sr, op, pc, posted, count, told, sent, before, new, errors, messages, fail>>

(* used: bytes consumed; left: bytes shown and not consumed.               *)
Fresh(b) ==
  [body |-> b, used |-> 0, left |-> 0, shown |-> FALSE, alone |-> FALSE,
   split |-> FALSE, header |-> FALSE, started |-> FALSE]

is_header_done(x) == x.header
is_done(x) == x.started /\ ~x.shown /\ x.body = <<>>

(* What ends a call that repeats write_some.                               *)
Predicate(o, x) == IF o.what = "header" THEN is_header_done(x) ELSE is_done(x)

NoCall == [kind |-> "none", what |-> "none"]
Bytes(a, n) == [i \in 1..n |-> a + i]

Init ==
  /\ \E b \in Bodies : sr = Fresh(b)
  /\ op = NoCall /\ pc = "idle" /\ posted = "ok" /\ new = TRUE
  /\ count = 0 /\ told = [ec |-> "ok", n |-> 0]
  /\ sent = <<>> /\ before = 0 /\ errors = 0 /\ messages = 1 /\ fail = FALSE

------------------------------------------------------------------------------
(* The call ends; a message's own serializer with it.                      *)
Told(ec, n) ==
  /\ pc' = "idle"
  /\ told' = [ec |-> ec, n |-> IF op'.kind = "throwing" /\ ec # "ok" THEN -1 ELSE n]

(* The caller makes another serializer.                                    *)
Make ==
  /\ pc = "idle" /\ messages < MaxMessages
  /\ \E b \in Bodies : sr' = Fresh(b)
  /\ sent' = <<>> /\ before' = 0 /\ messages' = messages + 1 /\ fail' = FALSE
  /\ op' = NoCall
  /\ UNCHANGED <<pc, posted, count, told, new, errors>>

(* write_header() sets split, write() resets it, write_some() leaves it.   *)
Split(o, x) ==
  CASE o.what = "header" -> TRUE [] o.what = "some" -> x.split [] OTHER -> FALSE

Called(o) ==
  /\ pc = "idle" /\ o \in Calls /\ op.what # "message"
  /\ op' = o /\ count' = 0 /\ before' = Len(sent) /\ new' = ~sr.started
  /\ sr' = [sr EXCEPT !.split = Split(o, sr)]
  /\ UNCHANGED <<sent, errors, messages, fail>>

(* A function that blocks is called.                                       *)
Start(o) ==
  /\ o.kind # "async" /\ o.what # "message"
  /\ Called(o)
  /\ IF o.what = "header" /\ is_header_done(sr)
     THEN Told("ok", 0) /\ UNCHANGED posted
     ELSE pc' = "next" /\ UNCHANGED <<posted, told>>

(* One with a handler, which is posted if there is nothing to do.          *)
StartAsync(o) ==
  /\ o.kind = "async" /\ o.what # "message"
  /\ Called(o)
  /\ IF o.what # "some" /\ Predicate(o, sr)
     THEN pc' = "posted" /\ posted' = "ok" /\ UNCHANGED told
     ELSE pc' = "next" /\ UNCHANGED <<posted, told>>

(* One for a message, which has a serializer of its own: here the one just *)
(* made.                                                                   *)
StartMessage(o) ==
  /\ o.what = "message" /\ op = NoCall
  /\ Called(o)
  /\ pc' = "next" /\ UNCHANGED <<posted, told>>

------------------------------------------------------------------------------
(* The serializer.                                                         *)

(* consume(): with the last byte of the header alone a message is at its   *)
(* end, unless split is set now.                                           *)
Consumed(x, n) ==
  LET left == x.left - n
  IN IF left > 0 THEN [x EXCEPT !.used = @ + n, !.left = left]
     ELSE [x EXCEPT !.used = @ + n, !.left = 0, !.shown = FALSE, !.header = TRUE,
                    !.body = IF x.alone /\ ~x.split THEN <<>> ELSE @]

(* What next() comes to: buffers, an error, nothing.                       *)
Outcome(x) ==
  IF x.shown THEN "shown"
  ELSE IF is_done(x) THEN "done"
  ELSE IF ~x.started /\ x.split THEN "header"
  ELSE CASE x.body[1] = Need -> "need"
         [] x.body[1] = End -> IF x.started THEN "end" ELSE "header"
         [] OTHER -> "piece"

Shown(x) ==
  CASE Outcome(x) = "shown" -> x
    [] Outcome(x) = "header" ->
         [x EXCEPT !.started = TRUE, !.shown = TRUE, !.alone = TRUE, !.left = Header]
    [] Outcome(x) = "piece" ->
         [x EXCEPT !.started = TRUE, !.shown = TRUE, !.alone = FALSE, !.body = Tail(@),
                   !.left = x.body[1] + (IF x.started THEN 0 ELSE Header)]

------------------------------------------------------------------------------
(* Wrong: what was written before an error is consumed although the        *)
(* serializer was left as it is.                                           *)
Wrote_skips(ec, n, x) ==
  /\ sr' = IF x.shown THEN Consumed(x, IF ec = "ok" THEN n ELSE x.left) ELSE x
  /\ op' = op
  /\ count' = count + n
  /\ IF ec = "ok" /\ op.what # "some" /\ ~Predicate(op, sr')
     THEN pc' = "next" /\ UNCHANGED told
     ELSE Told(ec, count')
  /\ UNCHANGED posted

(* The stream is done with the buffers, n bytes of them: consume(), and    *)
(* again or the end.  Only write_op, write() and write_header() repeat.    *)
Wrote(ec, n, x) ==
  /\ sr' = IF ec = "ok" /\ x.shown THEN Consumed(x, n) ELSE x
  /\ op' = op
  /\ count' = count + n
  /\ IF ec = "ok" /\ op.what # "some" /\ ~Predicate(op, sr')
     THEN pc' = "next" /\ UNCHANGED told
     ELSE Told(ec, count')
  /\ UNCHANGED posted

(* An asynchronous write_some that has nothing to write posts its handler. *)
Nothing(ec, x) ==
  IF op.kind = "async"
  THEN /\ pc' = "posted" /\ posted' = ec /\ sr' = x
       /\ UNCHANGED <<op, count, told>>
  ELSE Wrote(ec, 0, x)

(* next() shows buffers, and the visitor gives them to the stream.         *)
Visit ==
  /\ pc = "next" /\ Outcome(sr) \in {"shown", "header", "piece"}
  /\ sr' = Shown(sr) /\ pc' = "writing"
  /\ UNCHANGED <<op, posted, count, told, sent, before, new, errors, messages, fail>>

(* It fails; the caller will supply the body, and operator<< gives up.     *)
NextFails ==
  /\ pc = "next" /\ Outcome(sr) = "need"
  /\ Nothing("need_buffer", [sr EXCEPT !.body = Tail(@)])
  /\ fail' = (op.kind = "ostream")
  /\ UNCHANGED <<sent, before, new, errors, messages>>

(* There is nothing left: it was complete before, or is now.               *)
NextEnds ==
  /\ pc = "next" /\ Outcome(sr) \in {"done", "end"}
  /\ Nothing("ok", IF is_done(sr) THEN sr ELSE [sr EXCEPT !.body = <<>>])
  /\ UNCHANGED <<sent, before, new, errors, messages, fail>>

Posted ==
  /\ pc = "posted"
  /\ Wrote(posted, 0, sr)
  /\ UNCHANGED <<sent, before, new, errors, messages, fail>>

(* The stream's write_some takes a part of the buffers.                    *)
StreamWrites ==
  /\ pc = "writing" /\ op.kind # "ostream"
  /\ ~(op.what = "header" /\ op.kind # "async")
  /\ \E n \in IF sr.left = 0 THEN {0} ELSE 1..sr.left :
       /\ sent' = sent \o Bytes(sr.used, n)
       /\ Wrote("ok", n, sr)
  /\ UNCHANGED <<before, new, errors, messages, fail>>

(* How many of the buffers' bytes net::write has written already.          *)
inner == Len(sent) - before - count

(* In write_header() net::write goes on until all the buffers are written. *)
NetWrite ==
  /\ pc = "writing" /\ op.what = "header" /\ op.kind # "async"
  /\ \E n \in 1..(sr.left - inner) :
       /\ sent' = sent \o Bytes(sr.used + inner, n)
       /\ IF inner + n < sr.left
          THEN UNCHANGED <<sr, op, pc, posted, count, told>>
          ELSE Wrote("ok", sr.left, sr)
  /\ UNCHANGED <<before, new, errors, messages, fail>>

(* A timeout, or would_block.  Nothing of this piece was written.          *)
StreamFails ==
  /\ pc = "writing" /\ op.kind # "ostream" /\ errors < MaxErrors
  /\ Wrote("stream", inner, sr)
  /\ errors' = errors + 1
  /\ UNCHANGED <<sent, before, new, messages, fail>>

(* The stream of operator<< takes all the buffers, or fails in the middle. *)
OstreamWrites ==
  /\ pc = "writing" /\ op.kind = "ostream"
  /\ sent' = sent \o Bytes(sr.used, sr.left)
  /\ Wrote("ok", sr.left, sr)
  /\ UNCHANGED <<before, new, errors, messages, fail>>

OstreamFails ==
  /\ pc = "writing" /\ op.kind = "ostream"
  /\ \E n \in 0..sr.left : sent' = sent \o Bytes(sr.used, n)
  /\ fail' = TRUE
  /\ Wrote("stream", 0, sr)
  /\ UNCHANGED <<before, new, errors, messages>>

Step ==
  \/ Visit \/ NextFails \/ NextEnds \/ Posted
  \/ StreamWrites \/ NetWrite \/ StreamFails
  \/ OstreamWrites \/ OstreamFails

Next == Make \/ (\E o \in Calls : Start(o) \/ StartAsync(o) \/ StartMessage(o)) \/ Step

Spec == Init /\ [][Next]_vars

------------------------------------------------------------------------------
(* What the stream takes is the message from its beginning, each byte      *)
(* once, whatever functions write it, in whatever pieces, with errors of   *)
(* the stream in between: consume() follows what was written               *)
(* (write.hpp:133, :482, :630).                                            *)
SentOnce == pc = "idle" /\ op.kind # "ostream" => sent = Bytes(0, sr.used)

(* The number that a caller is told is what the stream has taken since the *)
(* call, with an error too (write.hpp:229, :700).                          *)
Counted ==
  pc = "idle" /\ op.kind \in {"sync", "async"} /\ told.n >= 0 =>
    told.n = Len(sent) - before

(* A call that ends without an error has done what it is for: write_some   *)
(* wrote a byte or the message is complete or a piece was empty,           *)
(* write_header the header, write all (write.hpp:232, :704).               *)
Reached ==
  pc = "idle" /\ op.kind # "none" /\ told.ec = "ok" =>
    CASE op.what = "header" -> is_header_done(sr)
      [] op.what = "some" -> told.n > 0 \/ ~sr.shown
      [] OTHER -> is_done(sr)

(* write_header() of a new serializer sends no byte of the body            *)
(* (write.hpp:616, :655).                                                  *)
HeaderOnly ==
  pc = "idle" /\ op.what = "header" /\ new /\ told.ec = "ok" =>
    Len(sent) = Header

(* The handler of an asynchronous function is not called by the function   *)
(* itself, also if there is nothing to write (write.hpp:203, :120).        *)
NotInside ==
  [][pc = "idle" /\ pc' = "idle" /\ op' # op => op'.kind # "async"]_vars

(* A message that operator<< has written without a failure is whole        *)
(* (write.hpp:922, :966).                                                  *)
Printed ==
  pc = "idle" /\ op.kind = "ostream" /\ ~fail =>
    is_done(sr) /\ sent = Bytes(0, sr.used)

(* Each call ends: there is nothing to wait for but the stream, and the    *)
(* loops end with the message (write.hpp:222, :704, :972).                 *)
Ends == [](pc # "idle" => <>(pc = "idle"))
=============================================================================
