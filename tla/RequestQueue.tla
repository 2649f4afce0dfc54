---------------------------- MODULE RequestQueue ----------------------------
(***************************************************************************)
(* What RequestBuffer promises its user: a bounded first-in first-out      *)
(* queue.  add() appends or refuses, get() takes the oldest request or     *)
(* reports that there is none.  RequestBuffer implements this module.      *)
(***************************************************************************)
EXTENDS Naturals, Sequences

CONSTANTS
  Request,    (* the requests the queue carries     *)
  Capacity,   (* how many it holds at the same time *)
  NoRequest   (* the answer of get() when empty     *)

VARIABLES
  queue,      (* the requests held, oldest first        *)
  result      (* what the latest call gave to its caller *)

vars == <<queue, result>>

Init ==
  /\ queue = <<>>
  /\ result = [call |-> "none"]

Accept(r) ==
  /\ Len(queue) < Capacity
  /\ queue' = Append(queue, r)
  /\ result' = [call |-> "add", request |-> r]

Refuse ==
  /\ Len(queue) >= Capacity
  /\ result' = [call |-> "throw"]
  /\ UNCHANGED queue

Take ==
  /\ queue # <<>>
  /\ queue' = Tail(queue)
  /\ result' = [call |-> "get", request |-> Head(queue)]

FindEmpty ==
  /\ queue = <<>>
  /\ result' = [call |-> "get", request |-> NoRequest]
  /\ UNCHANGED queue

Next ==
  \/ \E r \in Request : Accept(r)
  \/ Refuse
  \/ Take
  \/ FindEmpty

Spec == Init /\ [][Next]_vars
==============================================================================
