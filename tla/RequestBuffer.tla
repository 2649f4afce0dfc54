---------------------------- MODULE RequestBuffer ----------------------------
(***************************************************************************)
(* The class RequestBuffer on its own: one owner calls add() and get() in  *)
(* any order.  In the program both are called from handlers of the one     *)
(* thread that runs the io_context (ExecRequest and OnRead), so a call is  *)
(* one atomic step and the compare-exchange in get() never fails.          *)
(***************************************************************************)
EXTENDS RequestRing

CONSTANT MaxPos   (* bound of the model: add() calls that succeed *)

VARIABLES
  buffer,   (* the object: mRequests, mWritePos, mReadPos          *)
  result    (* what the latest call gave to its caller             *)

vars == <<buffer, result>>

Init ==
  /\ buffer = NewBuffer
  /\ result = [call |-> "none"]

(* Wrong: the reference is taken after the position has moved on.          *)
AddRequestRereads(r) ==
  /\ buffer.mWritePos < MaxPos
  /\ ~IsFull(buffer)
  /\ buffer' = Add(buffer, r)
  /\ result' = [call |-> "add", request |-> buffer'.mRequests[Slot(buffer'.mWritePos)]]

(* add(): returns a reference to the slot just written.                    *)
AddRequest(r) ==
  /\ buffer.mWritePos < MaxPos
  /\ ~IsFull(buffer)
  /\ buffer' = Add(buffer, r)
  /\ result' = [call |-> "add", request |-> buffer'.mRequests[Slot(buffer.mWritePos)]]

(* add() on a full buffer throws and changes nothing.                      *)
AddThrows ==
  /\ IsFull(buffer)
  /\ result' = [call |-> "throw"]
  /\ UNCHANGED buffer

(* get() with a request to return.                                         *)
GetRequest ==
  /\ ~IsEmpty(buffer)
  /\ buffer' = Drop(buffer)
  /\ result' = [call |-> "get", request |-> Front(buffer)]

(* get() on an empty buffer returns std::nullopt.                          *)
GetNothing ==
  /\ IsEmpty(buffer)
  /\ result' = [call |-> "get", request |-> NoRequest]
  /\ UNCHANGED buffer

Next ==
  \/ \E r \in Request : AddRequest(r)
  \/ AddThrows
  \/ GetRequest
  \/ GetNothing

Spec == Init /\ [][Next]_vars

------------------------------------------------------------------------------
(* Type invariant of the class.                                            *)
TypeOK ==
  /\ buffer \in Buffer
  /\ result \in [call : {"none", "throw"}]
             \cup [call : {"add", "get"}, request : Request \cup {NoRequest}]

(* The positions never cross and are never more than mSize apart: the      *)
(* overflow check of add() and the emptiness check of get() together keep  *)
(* a slot from being handed out before it was filled or refilled before it *)
(* was handed out (request_buffer.hpp add/get).                            *)
PositionsInv == PositionsOK(buffer)

(* The class implements the bounded FIFO queue: the queue's content is the *)
(* window between the two positions, across every wrap of the array.       *)
Queue == INSTANCE RequestQueue
           WITH Capacity <- mSize, queue <- Window(buffer)

ImplementsQueue == Queue!Spec
==============================================================================
