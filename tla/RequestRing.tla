----------------------------- MODULE RequestRing -----------------------------
(***************************************************************************)
(* The data structure of RequestBuffer<Callback, SIZE>: an array of mSize  *)
(* slots and two positions that only grow.  A request of this model stands *)
(* for the pair <http::request, Callback> the array stores.                *)
(*                                                                         *)
(* The operators are functions of a buffer value, so that RequestBuffer    *)
(* (the component on its own) and Session (which owns one) share them, and *)
(* the facts about them that follow the definitions, for every mSize:      *)
(* positions less than mSize apart have different slots, so add() extends  *)
(* the window by the new request and get() removes its oldest.             *)
(***************************************************************************)
EXTENDS Integers, Sequences, SequenceTheorems, TLAPS

CONSTANTS
  Request,    (* the values a slot can hold                                *)
  NoRequest,  (* the value-initialised pair a fresh slot holds             *)
  mSize       (* number of slots; RingGeometry checks how SIZE rounds      *)

ASSUME RingAssumption ==
  /\ mSize \in Nat \ {0}
  /\ NoRequest \notin Request

Buffer == [ mRequests : [0 .. mSize - 1 -> Request \cup {NoRequest}],
            mWritePos : Nat,
            mReadPos  : Nat ]

(* An operator whose comment starts with "Wrong", here and in the other     *)
(* modules, is a plausible mistake in the definition that follows it; the  *)
(* specifications do not use it, and a property refutes it (see README).   *)

NewBuffer == [ mRequests |-> [s \in 0 .. mSize - 1 |-> NoRequest],
               mWritePos |-> 0,
               mReadPos  |-> 0 ]

(* "pos & mRingMask": mSize is a power of two, so the mask is a modulus.   *)
Slot(pos) == pos % mSize

(* Wrong: off by one in either direction.                                  *)
IsFullLate(b)  == b.mWritePos - b.mReadPos > mSize
IsFullEarly(b) == b.mWritePos - b.mReadPos >= mSize - 1

IsFull(b) == b.mWritePos - b.mReadPos >= mSize

IsEmpty(b) == b.mReadPos >= b.mWritePos

(* add(), past its overflow check: fill the slot, then publish it.         *)
Add(b, r) ==
  [ mRequests |-> [b.mRequests EXCEPT ![Slot(b.mWritePos)] = r],
    mWritePos |-> b.mWritePos + 1,
    mReadPos  |-> b.mReadPos ]

(* Wrong: the newest request is handed out instead of the oldest.          *)
FrontNewest(b) == b.mRequests[Slot(b.mWritePos - 1)]

(* get(), past its emptiness check: the request returned and what is left. *)
Front(b) == b.mRequests[Slot(b.mReadPos)]

(* Wrong: the position moves on in the loop and once more after it.        *)
DropTwo(b) == [b EXCEPT !.mReadPos = @ + 2]

Drop(b)  == [b EXCEPT !.mReadPos = @ + 1]

(* The requests added and not yet taken, oldest first.                     *)
Window(b) ==
  [i \in 1 .. b.mWritePos - b.mReadPos |-> b.mRequests[Slot(b.mReadPos + i - 1)]]

(* Positions never cross and never drift further apart than the array.     *)
PositionsOK(b) ==
  /\ b.mReadPos <= b.mWritePos
  /\ b.mWritePos - b.mReadPos <= mSize

------------------------------------------------------------------------------
(* Division with remainder, the form the provers use it in.                *)
LEMMA DivisionFacts ==
  ASSUME NEW m \in Nat \ {0}, NEW a \in Nat
  PROVE  /\ a % m \in 0 .. m - 1
         /\ a \div m \in Nat
         /\ a = m * (a \div m) + (a % m)
  OBVIOUS

(* A positive multiple of m is at least m.                                 *)
LEMMA MultipleBound ==
  ASSUME NEW m \in Nat \ {0}, NEW k \in Int, k > 0
  PROVE  m * k >= m
  OBVIOUS

(* request_buffer.hpp: the mask maps every position into the array.        *)
LEMMA SlotInRange ==
  ASSUME NEW a \in Nat
  PROVE  Slot(a) \in 0 .. mSize - 1
  BY RingAssumption, DivisionFacts DEF Slot

(* request_buffer.hpp: two positions less than a whole array apart never   *)
(* share a slot.                                                           *)
LEMMA SlotsDiffer ==
  ASSUME NEW a \in Nat, NEW c \in Nat, a < c, c - a < mSize
  PROVE  Slot(a) # Slot(c)
<1> DEFINE p == a \div mSize
           q == c \div mSize
<1>1. /\ Slot(a) \in Nat
      /\ Slot(c) \in Nat
      /\ p \in Nat
      /\ q \in Nat
      /\ mSize \in Nat \ {0}
      /\ a = mSize * p + Slot(a)
      /\ c = mSize * q + Slot(c)
  BY RingAssumption, DivisionFacts DEF Slot
<1>. HIDE DEF p, q
<1>2. SUFFICES ASSUME Slot(a) = Slot(c) PROVE FALSE
  OBVIOUS
<1>3. c - a = mSize * q - mSize * p
  BY <1>1, <1>2
<1>4. c - a = mSize * (q - p)
  BY <1>1, <1>3
<1>5. q - p > 0
  <2>1. CASE q = p
    BY <1>1, <1>3, <2>1
  <2>2. CASE p - q > 0
    <3>1. mSize * (p - q) >= mSize
      BY <1>1, <2>2, MultipleBound
    <3>2. mSize * (p - q) = mSize * p - mSize * q
      BY <1>1
    <3>. QED
      BY <1>1, <1>3, <3>1, <3>2
  <2>. QED
    BY <1>1, <2>1, <2>2
<1>6. mSize * (q - p) >= mSize
  BY <1>1, <1>5, MultipleBound
<1>. QED
  BY <1>1, <1>4, <1>6

------------------------------------------------------------------------------
(* A fresh buffer is well formed and its window is empty.                  *)
LEMMA NewBufferFacts ==
  /\ NewBuffer \in Buffer
  /\ PositionsOK(NewBuffer)
  /\ Window(NewBuffer) = <<>>
  BY RingAssumption DEF NewBuffer, Buffer, PositionsOK, Window

(* The window of a well-formed buffer is a sequence as long as the         *)
(* distance of the positions.                                              *)
LEMMA WindowLength ==
  ASSUME NEW b \in Buffer, PositionsOK(b)
  PROVE  /\ Window(b) \in Seq(Request \cup {NoRequest})
         /\ Len(Window(b)) = b.mWritePos - b.mReadPos
         /\ DOMAIN Window(b) = 1 .. b.mWritePos - b.mReadPos
<1>1. /\ b.mWritePos \in Nat
      /\ b.mReadPos \in Nat
      /\ b.mWritePos - b.mReadPos \in Nat
      /\ b.mRequests \in [0 .. mSize - 1 -> Request \cup {NoRequest}]
  BY DEF Buffer, PositionsOK
<1>2. ASSUME NEW i \in 1 .. b.mWritePos - b.mReadPos
      PROVE  b.mRequests[Slot(b.mReadPos + i - 1)] \in Request \cup {NoRequest}
  <2>1. b.mReadPos + i - 1 \in Nat
    BY <1>1
  <2>. QED
    BY <1>1, <2>1, SlotInRange
<1>3. Window(b) \in [1 .. b.mWritePos - b.mReadPos -> Request \cup {NoRequest}]
  BY <1>2 DEF Window
<1>4. Window(b) \in Seq(Request \cup {NoRequest})
  BY <1>1, <1>3, SeqDef
<1>. QED
  BY <1>1, <1>3, <1>4, LenProperties

(* add() on a buffer that is not full keeps it well formed.                *)
LEMMA AddKeepsBuffer ==
  ASSUME NEW b \in Buffer, PositionsOK(b), ~IsFull(b), NEW r \in Request
  PROVE  /\ Add(b, r) \in Buffer
         /\ PositionsOK(Add(b, r))
         /\ Add(b, r).mWritePos = b.mWritePos + 1
         /\ Add(b, r).mReadPos = b.mReadPos
         /\ Add(b, r).mRequests = [b.mRequests EXCEPT ![Slot(b.mWritePos)] = r]
         /\ Add(b, r).mRequests[Slot(b.mWritePos)] = r
<1>1. Slot(b.mWritePos) \in 0 .. mSize - 1
  BY SlotInRange DEF Buffer
<1> DEFINE f == [b.mRequests EXCEPT ![Slot(b.mWritePos)] = r]
<1>2. /\ f \in [0 .. mSize - 1 -> Request \cup {NoRequest}]
      /\ f[Slot(b.mWritePos)] = r
  BY <1>1 DEF Buffer
<1>3. Add(b, r) = [mRequests |-> f, mWritePos |-> b.mWritePos + 1, mReadPos |-> b.mReadPos]
  BY DEF Buffer, Add
<1>. HIDE DEF f
<1>4. Add(b, r) \in Buffer
  BY <1>2, <1>3 DEF Buffer
<1>5. PositionsOK(Add(b, r))
  BY <1>3, RingAssumption DEF Buffer, PositionsOK, IsFull
<1>. QED
  BY <1>2, <1>3, <1>4, <1>5 DEF f

(* add() appends the request to the window: the slot it fills is not one   *)
(* of the slots that hold a request not yet taken.                         *)
LEMMA WindowAfterAdd ==
  ASSUME NEW b \in Buffer, PositionsOK(b), ~IsFull(b), NEW r \in Request
  PROVE  Window(Add(b, r)) = Append(Window(b), r)
<1> DEFINE w == b.mWritePos
           d == b.mReadPos
           c == Add(b, r)
<1>1. /\ w \in Nat
      /\ d \in Nat
      /\ w - d \in Nat
      /\ w - d < mSize
      /\ mSize \in Nat
      /\ b.mRequests \in [0 .. mSize - 1 -> Request \cup {NoRequest}]
  BY RingAssumption DEF Buffer, PositionsOK, IsFull
<1>2. /\ c \in Buffer
      /\ PositionsOK(c)
      /\ c.mWritePos = w + 1
      /\ c.mReadPos = d
      /\ c.mRequests = [b.mRequests EXCEPT ![Slot(w)] = r]
      /\ c.mRequests[Slot(w)] = r
  BY AddKeepsBuffer
<1>. HIDE DEF c
<1>3. ASSUME NEW i \in 1 .. w - d
      PROVE  c.mRequests[Slot(d + i - 1)] = b.mRequests[Slot(d + i - 1)]
  <2>1. d + i - 1 \in Nat /\ d + i - 1 < w /\ w - (d + i - 1) < mSize
    BY <1>1
  <2>2. Slot(d + i - 1) # Slot(w)
    BY <1>1, <2>1, SlotsDiffer
  <2>. QED
    BY <1>1, <1>2, <2>1, <2>2, SlotInRange
<1>4. /\ Window(b) \in Seq(Request \cup {NoRequest})
      /\ Len(Window(b)) = w - d
  BY WindowLength
<1>5. /\ Window(c) \in Seq(Request \cup {NoRequest})
      /\ Len(Window(c)) = (w - d) + 1
  BY <1>1, <1>2, WindowLength
<1>6. /\ Append(Window(b), r) \in Seq(Request \cup {NoRequest})
      /\ Len(Append(Window(b), r)) = (w - d) + 1
      /\ \A i \in 1 .. w - d : Append(Window(b), r)[i] = Window(b)[i]
      /\ Append(Window(b), r)[(w - d) + 1] = r
  BY <1>1, <1>4, AppendProperties
<1>7. ASSUME NEW i \in 1 .. (w - d) + 1
      PROVE  Window(c)[i] = Append(Window(b), r)[i]
  <2>1. Window(c)[i] = c.mRequests[Slot(d + i - 1)]
    BY <1>1, <1>2 DEF Window
  <2>2. CASE i \in 1 .. w - d
    <3>1. Window(b)[i] = b.mRequests[Slot(d + i - 1)]
      BY <1>1, <2>2 DEF Window
    <3>. QED
      BY <1>3, <1>6, <2>1, <2>2, <3>1
  <2>3. CASE i = (w - d) + 1
    <3>1. d + i - 1 = w
      BY <1>1, <2>3
    <3>. QED
      BY <1>2, <1>6, <2>1, <2>3, <3>1
  <2>4. i \in 1 .. w - d \/ i = (w - d) + 1
    BY <1>1
  <2>. QED
    BY <2>2, <2>3, <2>4
<1>8. Window(c) = Append(Window(b), r)
  BY <1>5, <1>6, <1>7, SeqEqual
<1>. QED
  BY <1>8 DEF c

(* get() on a buffer that is not empty keeps it well formed.               *)
LEMMA DropKeepsBuffer ==
  ASSUME NEW b \in Buffer, PositionsOK(b), ~IsEmpty(b)
  PROVE  /\ Drop(b) \in Buffer
         /\ PositionsOK(Drop(b))
         /\ Drop(b).mWritePos = b.mWritePos
         /\ Drop(b).mReadPos = b.mReadPos + 1
         /\ Drop(b).mRequests = b.mRequests
  BY RingAssumption DEF Buffer, PositionsOK, IsEmpty, Drop

(* get() returns the head of the window and leaves its tail.               *)
LEMMA WindowAfterDrop ==
  ASSUME NEW b \in Buffer, PositionsOK(b), ~IsEmpty(b)
  PROVE  /\ Window(b) # <<>>
         /\ Front(b) = Head(Window(b))
         /\ Window(Drop(b)) = Tail(Window(b))
<1> DEFINE w == b.mWritePos
           d == b.mReadPos
<1>1. /\ w \in Nat
      /\ d \in Nat
      /\ w - d \in Nat \ {0}
  BY DEF Buffer, PositionsOK, IsEmpty
<1>2. /\ Window(b) \in Seq(Request \cup {NoRequest})
      /\ Len(Window(b)) = w - d
  BY WindowLength
<1>3. Window(b)[1] = b.mRequests[Slot(d)]
  <2>1. d + 1 - 1 = d
    BY <1>1
  <2>. QED
    BY <1>1, <2>1 DEF Window
<1>4. Window(b) # <<>> /\ Front(b) = Head(Window(b))
  BY <1>1, <1>2, <1>3 DEF Front
<1>5. /\ Tail(Window(b)) \in Seq(Request \cup {NoRequest})
      /\ Len(Tail(Window(b))) = w - d - 1
      /\ \A i \in 1 .. w - d - 1 : Tail(Window(b))[i] = Window(b)[i + 1]
  BY <1>1, <1>2, <1>4, HeadTailProperties
<1>6. /\ Drop(b) \in Buffer
      /\ PositionsOK(Drop(b))
      /\ Drop(b).mWritePos = w
      /\ Drop(b).mReadPos = d + 1
      /\ Drop(b).mRequests = b.mRequests
  BY DropKeepsBuffer
<1>7. /\ Window(Drop(b)) \in Seq(Request \cup {NoRequest})
      /\ Len(Window(Drop(b))) = w - d - 1
  BY <1>1, <1>6, WindowLength
<1>8. ASSUME NEW i \in 1 .. w - d - 1
      PROVE  Window(Drop(b))[i] = Tail(Window(b))[i]
  <2>1. Window(Drop(b))[i] = b.mRequests[Slot((d + 1) + i - 1)]
    BY <1>1, <1>6 DEF Window
  <2>2. i + 1 \in 1 .. w - d /\ d + (i + 1) - 1 = (d + 1) + i - 1
    BY <1>1
  <2>3. Window(b)[i + 1] = b.mRequests[Slot((d + 1) + i - 1)]
    BY <2>2 DEF Window
  <2>. QED
    BY <1>5, <2>1, <2>3
<1>9. Window(Drop(b)) = Tail(Window(b))
  BY <1>5, <1>7, <1>8, SeqEqual
<1>. QED
  BY <1>4, <1>9
==============================================================================
