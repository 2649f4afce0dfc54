----------------------------- MODULE FlatBuffer -----------------------------
(***************************************************************************)
(* basic_flat_buffer: one block of memory that is moved down or replaced   *)
(* when the writable bytes do not fit behind the readable ones.  The       *)
(* pointers begin_, in_, out_, last_ and end_ are offsets from begin_; a   *)
(* null pointer is a block of no bytes.  A call that changes the buffer    *)
(* ends the life of what prepare() returned: a caller that keeps to the    *)
(* documentation commits at most once after each prepare().                *)
(***************************************************************************)
EXTENDS Naturals, Sequences

CONSTANTS
  Sizes,        (* the numbers of bytes that calls are made with           *)
  AllocMax,     (* max_size() of the allocator                             *)
  MaxFed        (* bound: bytes written by the caller                      *)

FlatBufferAssumption ==
  /\ Sizes \subseteq Nat
  /\ AllocMax \in Nat
  /\ MaxFed \in Nat

VARIABLES
  mem,          (* the block: a function on 0 .. end - 1                   *)
  end,          (* end_ - begin_, the capacity                             *)
  in, out, last,
  max,
  fed,          (* bytes the caller has written so far                     *)
  prepared,     (* prepare() was the last call that changed the buffer     *)
  result        (* how the last call ended                                 *)

block == <<mem, end, in, out, last>>
vars  == <<block, max, fed, prepared, result>>

Least(a, b) == IF a < b THEN a ELSE b
Most(a, b)  == IF a < b THEN b ELSE a

size == out - in

(* The bytes of m from offset a to offset b.                               *)
Slice(m, a, b) == [i \in 1 .. b - a |-> m[a + i - 1]]

(* n fresh bytes of the caller in m at offset a; a block of c bytes that   *)
(* starts with the readable ones, the rest not written yet.                *)
Write(m, a, n) == [i \in DOMAIN m |-> IF i \in a .. a + n - 1 THEN fed + i - a + 1 ELSE m[i]]
Moved(c)       == [i \in 0 .. c - 1 |-> IF i < size THEN mem[in + i] ELSE 0]

Init ==
  /\ mem = [i \in {} |-> 0]
  /\ end = 0
  /\ in = 0 /\ out = 0 /\ last = 0
  /\ max \in Sizes
  /\ fed = 0
  /\ prepared = FALSE
  /\ result = "ok"

Throw ==
  /\ result' = "length_error"
  /\ UNCHANGED <<block, fed>>

(* The three ways of prepare() to find n bytes.                            *)
FitsBehind(n) == n <= end - out
FitsMoved(n)  == ~FitsBehind(n) /\ n <= end - size
NewSize(n)    == Least(max, Most(2 * size, size + n))

PrepareBehind(n) ==
  /\ FitsBehind(n)
  /\ mem' = Write(mem, out, n)
  /\ last' = out + n
  /\ UNCHANGED <<end, in, out>>

(* Wrong: the readable bytes stay where they were.                         *)
PrepareMovedInPlace(n) ==
  /\ FitsMoved(n)
  /\ mem' = Write(mem, size, n)
  /\ in' = 0
  /\ out' = size
  /\ last' = size + n
  /\ UNCHANGED end

(* memmove: the bytes behind the readable ones keep their values.          *)
PrepareMoved(n) ==
  /\ FitsMoved(n)
  /\ mem' = Write([i \in DOMAIN mem |-> IF i < size THEN mem[in + i] ELSE mem[i]], size, n)
  /\ in' = 0
  /\ out' = size
  /\ last' = size + n
  /\ UNCHANGED end

PrepareNew(n) ==
  /\ ~FitsBehind(n) /\ ~FitsMoved(n)
  /\ NewSize(n) <= AllocMax
  /\ mem' = Write(Moved(NewSize(n)), size, n)
  /\ end' = NewSize(n)
  /\ in' = 0
  /\ out' = size
  /\ last' = size + n

Prepare(n) ==
  /\ fed + n <= MaxFed
  /\ size + n <= max
  /\ PrepareBehind(n) \/ PrepareMoved(n) \/ PrepareNew(n)
  /\ fed' = fed + n
  /\ prepared' = TRUE
  /\ result' = "ok"
  /\ UNCHANGED max

PrepareThrows(n) ==
  /\ \/ size + n > max
     \/ ~FitsBehind(n) /\ ~FitsMoved(n) /\ NewSize(n) > AllocMax
  /\ Throw
  /\ UNCHANGED <<max, prepared>>

Commit(n) ==
  /\ out' = out + Least(n, last - out)
  /\ prepared' = FALSE
  /\ result' = "ok"
  /\ UNCHANGED <<mem, end, in, last, max, fed>>

Consume(n) ==
  /\ IF n >= size THEN in' = 0 /\ out' = 0
                  ELSE in' = in + n /\ UNCHANGED out
  /\ prepared' = FALSE
  /\ result' = "ok"
  /\ UNCHANGED <<mem, end, last, max, fed>>

Clear ==
  /\ in' = 0 /\ out' = 0 /\ last' = 0
  /\ prepared' = FALSE
  /\ result' = "ok"
  /\ UNCHANGED <<mem, end, max, fed>>

(* reserve() of more than the capacity prepares the difference, and does   *)
(* not commit it.  The caller writes nothing.                              *)
Reserve(n) ==
  /\ max' = Most(max, n)
  /\ IF n <= end THEN UNCHANGED block
     ELSE LET c == Least(max', Most(2 * size, n))
          IN  /\ c <= AllocMax
              /\ mem' = Moved(c)
              /\ end' = c
              /\ in' = 0 /\ out' = size /\ last' = n
  /\ prepared' = FALSE
  /\ result' = "ok"
  /\ UNCHANGED fed

(* The limit is raised even if the allocator then refuses.                 *)
ReserveThrows(n) ==
  /\ n > end
  /\ max' = Most(max, n)
  /\ Least(max', Most(2 * size, n)) > AllocMax
  /\ Throw
  /\ UNCHANGED prepared

(* An allocation that fails is ignored.                                    *)
ShrinkToFit ==
  /\ size # end
  /\ mem' = Moved(size)
  /\ end' = size
  /\ in' = 0 /\ out' = size /\ last' = size
  /\ prepared' = FALSE
  /\ result' = "ok"
  /\ UNCHANGED <<max, fed>>

(* copy_from(): a block that is large enough is kept.                      *)
CopyFrom(n) ==
  /\ fed + n <= MaxFed
  /\ n <= AllocMax
  /\ LET c == IF n = 0 \/ n > end THEN n ELSE end
     IN  mem' = [i \in 0 .. c - 1 |-> IF i < n THEN fed + i + 1
                                      ELSE IF i < end THEN mem[i] ELSE 0]
         /\ end' = c
  /\ in' = 0 /\ out' = n /\ last' = n
  /\ fed' = fed + n
  /\ prepared' = FALSE
  /\ result' = "ok"

(* Assignment from a buffer of n bytes with its own limit.                 *)
CopyAssign(n, limit) ==
  /\ n <= limit
  /\ max' = limit
  /\ CopyFrom(n)

(* Move from, or swap with, a buffer whose readable bytes start at offset  *)
(* a of a block of c bytes.                                                *)
MoveAssign(a, n, c, limit) ==
  /\ fed + n <= MaxFed
  /\ a + n <= c /\ c <= Least(limit, AllocMax)
  /\ mem' = [i \in 0 .. c - 1 |-> IF i \in a .. a + n - 1 THEN fed + i - a + 1 ELSE 0]
  /\ end' = c
  /\ in' = a /\ out' = a + n /\ last' = a + n
  /\ max' = limit
  /\ fed' = fed + n
  /\ prepared' = FALSE
  /\ result' = "ok"

(* What is left of a buffer that another one was moved from.               *)
MovedFrom ==
  /\ mem' = [i \in {} |-> 0]
  /\ end' = 0
  /\ in' = 0 /\ out' = 0 /\ last' = 0
  /\ prepared' = FALSE
  /\ result' = "ok"
  /\ UNCHANGED <<max, fed>>

(* All that the buffer and a caller that keeps to the documentation do.    *)
Common ==
  \/ Clear \/ ShrinkToFit \/ MovedFrom
  \/ \E n \in Sizes :
       \/ Prepare(n) \/ PrepareThrows(n) \/ Consume(n) \/ Reserve(n) \/ ReserveThrows(n)
       \/ \E limit \in Sizes :
            \/ CopyAssign(n, limit)
            \/ \E a \in {0, 1} : MoveAssign(a, n, limit, limit)

Next      == Common \/ \E n \in Sizes : prepared /\ Commit(n)
Spec      == Init /\ [][Next]_vars
------------------------------------------------------------------------------
(* Type invariant; the block never exceeds the limits.                     *)
TypeOK ==
  /\ mem \in [0 .. end - 1 -> Nat]
  /\ {end, in, out, last, max, fed} \subseteq Nat
  /\ prepared \in BOOLEAN
  /\ result \in {"ok", "length_error"}

(* The pointers stay in order and inside of the block, whatever is         *)
(* prepared, committed, consumed, reserved, shrunk and assigned: what the  *)
(* picture at the top of flat_buffer.hpp shows.                            *)
PointersInv ==
  /\ in <= out
  /\ out <= last
  /\ last <= end
  /\ end <= AllocMax

(* No more bytes than max_size(), "the maximum number of bytes, both       *)
(* readable and writable, that can ever be held" (core/flat_buffer.hpp).   *)
MaxSizeHolds == size <= max

(* The buffer implements ByteQueue: the bytes come out as they went in,    *)
(* across every move and replacement of the block.                         *)
Queue == INSTANCE ByteQueue WITH
  readable <- Slice(mem, in, out),
  writable <- IF prepared THEN Slice(mem, out, last) ELSE <<>>

ImplementsByteQueue == Queue!Spec
==============================================================================
