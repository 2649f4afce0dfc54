------------------------- MODULE RequestBufferProofs -------------------------
(***************************************************************************)
(* RequestBuffer is type correct, keeps its positions in order and         *)
(* implements RequestQueue, whatever the requests, the size of the array   *)
(* and the number of calls.                                                *)
(***************************************************************************)
EXTENDS RequestBuffer, Integers, SequenceTheorems, TLAPS

(* The inductive invariant: besides the types, that the window holds no    *)
(* value-initialised slot, without which get() could hand one out.         *)
IInv == TypeOK /\ PositionsInv

(* A new buffer satisfies the invariant.                                   *)
LEMMA IInvInit == Init => IInv
  BY NewBufferFacts DEF Init, IInv, TypeOK, PositionsInv

(* add() and get() keep the invariant.                                     *)
LEMMA IInvStep == ASSUME IInv, [Next]_vars PROVE IInv'
<1>. USE DEF IInv, TypeOK, PositionsInv
<1>1. ASSUME NEW r \in Request, AddRequest(r)
      PROVE  IInv'
  <2>1. buffer' = Add(buffer, r) /\ ~IsFull(buffer)
    BY <1>1 DEF AddRequest
  <2>2. buffer' \in Buffer /\ PositionsOK(buffer')
    BY <2>1, AddKeepsBuffer
  <2>3. result' \in [call : {"add", "get"}, request : Request \cup {NoRequest}]
    <3>1. (buffer').mRequests[Slot(buffer.mWritePos)] = r
      BY <2>1, AddKeepsBuffer
    <3>2. result' = [call |-> "add", request |-> r]
      BY <1>1, <3>1 DEF AddRequest
    <3>. QED
      BY <3>2
  <2>. QED
    BY <2>2, <2>3
<1>2. CASE AddThrows
  BY <1>2 DEF AddThrows
<1>3. CASE GetRequest
  <2>1. buffer' = Drop(buffer) /\ ~IsEmpty(buffer)
    BY <1>3 DEF GetRequest
  <2>2. buffer' \in Buffer /\ PositionsOK(buffer')
    BY <2>1, DropKeepsBuffer
  <2>3. Front(buffer) \in Request \cup {NoRequest}
    BY SlotInRange DEF Buffer, Front
  <2>4. result' \in [call : {"get"}, request : Request \cup {NoRequest}]
    BY <1>3, <2>3 DEF GetRequest
  <2>. QED
    BY <2>2, <2>4
<1>4. CASE GetNothing
  BY <1>4 DEF GetNothing
<1>5. CASE UNCHANGED vars
  BY <1>5 DEF vars
<1>. QED
  BY <1>1, <1>2, <1>3, <1>4, <1>5 DEF Next

(* The state of the class stays well formed: TypeOK for every mSize.       *)
THEOREM TypeCorrect == Spec => []TypeOK
<1>1. IInv => TypeOK
  BY DEF IInv
<1>. QED
  BY IInvInit, IInvStep, <1>1, PTL DEF Spec

(* The positions never cross and stay within one array of each other.      *)
THEOREM PositionsCorrect == Spec => []PositionsInv
<1>1. IInv => PositionsInv
  BY DEF IInv
<1>. QED
  BY IInvInit, IInvStep, <1>1, PTL DEF Spec

------------------------------------------------------------------------------
(* A new buffer is an empty queue.                                         *)
LEMMA QueueInit == Init => Queue!Init
  BY NewBufferFacts DEF Init, Queue!Init

(* Every call of the class is a call, with the same answer, of the queue.  *)
LEMMA QueueStep == ASSUME IInv, [Next]_vars PROVE [Queue!Next]_Queue!vars
<1>. USE DEF IInv, TypeOK, PositionsInv
<1>0. /\ Len(Window(buffer)) = buffer.mWritePos - buffer.mReadPos
      /\ buffer.mWritePos \in Nat
      /\ buffer.mReadPos \in Nat
      /\ mSize \in Nat
  BY WindowLength, RingAssumption DEF Buffer
<1>1. ASSUME NEW r \in Request, AddRequest(r)
      PROVE  Queue!Accept(r)
  <2>1. buffer' = Add(buffer, r) /\ ~IsFull(buffer)
    BY <1>1 DEF AddRequest
  <2>2. Window(buffer)' = Append(Window(buffer), r)
    BY <2>1, WindowAfterAdd
  <2>3. Len(Window(buffer)) < mSize
    BY <1>0, <2>1 DEF IsFull
  <2>4. result' = [call |-> "add", request |-> r]
    <3>1. (buffer').mRequests[Slot(buffer.mWritePos)] = r
      BY <2>1, AddKeepsBuffer
    <3>. QED
      BY <1>1, <3>1 DEF AddRequest
  <2>. QED
    BY <2>2, <2>3, <2>4 DEF Queue!Accept
<1>2. CASE AddThrows
  <2>1. Len(Window(buffer)) >= mSize
    BY <1>0, <1>2 DEF AddThrows, IsFull
  <2>2. Window(buffer)' = Window(buffer)
    BY <1>2 DEF AddThrows, Window
  <2>. QED
    BY <1>2, <2>1, <2>2 DEF AddThrows, Queue!Next, Queue!Refuse
<1>3. CASE GetRequest
  <2>1. buffer' = Drop(buffer) /\ ~IsEmpty(buffer)
    BY <1>3 DEF GetRequest
  <2>2. /\ Window(buffer) # <<>>
        /\ Front(buffer) = Head(Window(buffer))
        /\ Window(buffer)' = Tail(Window(buffer))
    BY <2>1, WindowAfterDrop
  <2>. QED
    BY <1>3, <2>2 DEF GetRequest, Queue!Next, Queue!Take
<1>4. CASE GetNothing
  <2>1. Window(buffer) = <<>>
    <3>1. Len(Window(buffer)) = 0
      BY <1>0, <1>4 DEF GetNothing, IsEmpty, PositionsOK
    <3>. QED
      BY <3>1, WindowLength, EmptySeq
  <2>2. Window(buffer)' = Window(buffer)
    BY <1>4 DEF GetNothing, Window
  <2>. QED
    BY <1>4, <2>1, <2>2 DEF GetNothing, Queue!Next, Queue!FindEmpty
<1>5. CASE UNCHANGED vars
  BY <1>5 DEF vars, Queue!vars, Window
<1>. QED
  BY <1>1, <1>2, <1>3, <1>4, <1>5 DEF Next, Queue!Next

(* RequestBuffer implements the bounded FIFO queue: whatever wraps of the  *)
(* array its positions go through, add() and get() answer as the queue.    *)
THEOREM RefinesQueue == Spec => ImplementsQueue
  BY IInvInit, IInvStep, QueueInit, QueueStep, PTL
     DEF Spec, ImplementsQueue, Queue!Spec
==============================================================================
