----------------------------- MODULE TimedStream -----------------------------
(***************************************************************************)
(* What the user of a basic_stream with no rate limit may rely on.  In     *)
(* each direction one operation at a time is pending; it may have a        *)
(* deadline; the socket is closed by the user or because the deadline of   *)
(* a pending operation has passed, and never by the deadline of one that   *)
(* has ended.                                                              *)
(***************************************************************************)
Dir == {"read", "write"}

VARIABLES
  open,       (* the socket is open                                        *)
  pending,    (* an operation of the direction is pending                  *)
  deadline,   (* the operations of the direction have a deadline           *)
  last        (* how the latest operation of the direction ended           *)

vars == <<open, pending, deadline, last>>

Init ==
  /\ open = TRUE
  /\ pending = [d \in Dir |-> FALSE]
  /\ deadline = [d \in Dir |-> FALSE]
  /\ last = [d \in Dir |-> "none"]

(* A deadline is given to, or taken from, what is not yet started.         *)
SetDeadline ==
  /\ \E b \in BOOLEAN : deadline' = [d \in Dir |-> IF pending[d] THEN deadline[d] ELSE b]
  /\ UNCHANGED <<open, pending, last>>

Begin(d) ==
  /\ ~pending[d]
  /\ pending' = [pending EXCEPT ![d] = TRUE]
  /\ UNCHANGED <<open, deadline, last>>

(* A connect takes both directions and opens the socket.                   *)
Connect ==
  /\ \A d \in Dir : ~pending[d]
  /\ pending' = [d \in Dir |-> TRUE]
  /\ open' = TRUE
  /\ UNCHANGED <<deadline, last>>

Close ==
  /\ open' = FALSE
  /\ UNCHANGED <<pending, deadline, last>>

(* Some operations end, one of them reports; a deadline that passed has    *)
(* closed the socket, at the latest now.                                   *)
End(d) ==
  \E ec \in {"ok", "error", "aborted", "timeout"} :
    /\ pending[d]
    /\ \/ pending' = [pending EXCEPT ![d] = FALSE]
       \/ pending' = [e \in Dir |-> FALSE]
    /\ last' = [last EXCEPT ![d] = ec]
    /\ open' \in {open, FALSE}
    /\ ec = "timeout" => deadline[d] /\ ~open'
    /\ ec # "timeout" => open' = open
    /\ UNCHANGED deadline

(* The deadline of a pending operation passes.                             *)
Expire(d) ==
  /\ pending[d]
  /\ deadline[d]
  /\ open' = FALSE
  /\ UNCHANGED <<pending, deadline, last>>

Next == SetDeadline \/ Connect \/ Close \/ \E d \in Dir : Begin(d) \/ End(d) \/ Expire(d)

Spec == Init /\ [][Next]_vars
==============================================================================
