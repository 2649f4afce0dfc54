---------------------------- MODULE StaticBuffer ----------------------------
(***************************************************************************)
(* static_buffer: a circular buffer in a block of fixed size.  The         *)
(* readable bytes, and those that prepare() returns behind them, may wrap  *)
(* around the end of the block and are then two buffers.                   *)
(***************************************************************************)
EXTENDS Naturals, Sequences

CONSTANTS
  Capacity,     (* capacity_                                               *)
  Sizes,        (* the numbers of bytes that calls are made with           *)
  MaxFed        (* bound: bytes written by the caller                      *)

ASSUME StaticBufferAssumption ==
  /\ Capacity \in Nat \ {0}
  /\ Sizes \subseteq Nat
  /\ Capacity \in Sizes
  /\ MaxFed \in Nat

VARIABLES
  mem,          (* the block, from begin_                                  *)
  in_off, in_size, out_size,
  fed,          (* bytes the caller has written so far                     *)
  handed,       (* bytes that prepare() returned and the caller may use    *)
  result        (* how the last call ended                                 *)

vars == <<mem, in_off, in_size, out_size, fed, handed, result>>

Block == 0 .. Capacity - 1

Least(a, b) == IF a < b THEN a ELSE b

(* Where the n bytes from offset a on are: in one buffer, or in two of     *)
(* which the second starts at begin_.                                      *)
Wrapped(a, n) ==
  IF a + n <= Capacity THEN [i \in 1 .. n |-> a + i - 1]
  ELSE [i \in 1 .. n |-> IF i <= Capacity - a THEN a + i - 1
                                              ELSE i - (Capacity - a) - 1]

(* The bytes there, and the block with n fresh ones of the caller there.   *)
Slice(a, n) == [i \in 1 .. n |-> mem[Wrapped(a, n)[i]]]
Write(a, n) ==
  [j \in Block |->
     IF \E i \in 1 .. n : Wrapped(a, n)[i] = j
       THEN fed + CHOOSE i \in 1 .. n : Wrapped(a, n)[i] = j
       ELSE mem[j]]

data == Slice(in_off, in_size)

Init ==
  /\ mem = [j \in Block |-> 0]
  /\ in_off = 0 /\ in_size = 0 /\ out_size = 0
  /\ fed = 0
  /\ handed = 0
  /\ result = "ok"

(* Wrong: begins behind the block's readable end without wrapping.         *)
OutOffEnd == Least(in_off + in_size, Capacity - 1)

OutOff == (in_off + in_size) % Capacity

Prepare(n) ==
  /\ fed + n <= MaxFed
  /\ n <= Capacity - in_size
  /\ out_size' = n
  /\ mem' = Write(OutOff, n)
  /\ fed' = fed + n
  /\ handed' = n
  /\ result' = "ok"
  /\ UNCHANGED <<in_off, in_size>>

PrepareThrows(n) ==
  /\ n > Capacity - in_size
  /\ result' = "length_error"
  /\ UNCHANGED <<mem, in_off, in_size, out_size, fed, handed>>

(* A caller that keeps to the documentation holds what prepare() returned; *)
(* the second of two commits in a row adds nothing.                        *)
Commit(n) ==
  /\ handed = out_size
  /\ in_size' = in_size + Least(n, out_size)
  /\ out_size' = 0
  /\ handed' = 0
  /\ result' = "ok"
  /\ UNCHANGED <<mem, in_off, fed>>

(* All of it: the block is used from its start again.                      *)
Consume(n) ==
  /\ IF n < in_size THEN in_off' = (in_off + n) % Capacity /\ in_size' = in_size - n
                    ELSE in_off' = 0 /\ in_size' = 0
  /\ handed' = 0
  /\ result' = "ok"
  /\ UNCHANGED <<mem, out_size, fed>>

Clear ==
  /\ in_off' = 0 /\ in_size' = 0 /\ out_size' = 0
  /\ handed' = 0
  /\ result' = "ok"
  /\ UNCHANGED <<mem, fed>>

(* A copy of a static_buffer of the same capacity: consume, prepare and    *)
(* commit.                                                                 *)
CopyAssign(n) ==
  /\ fed + n <= MaxFed
  /\ n <= Capacity
  /\ mem' = Write(0, n)
  /\ in_off' = 0 /\ in_size' = n /\ out_size' = 0
  /\ fed' = fed + n
  /\ handed' = 0
  /\ result' = "ok"

Next ==
  \/ Clear
  \/ \E n \in Sizes :
       \/ Prepare(n) \/ PrepareThrows(n) \/ Commit(n) \/ Consume(n)
       \/ CopyAssign(n)

Spec == Init /\ [][Next]_vars

------------------------------------------------------------------------------
(* Types.                                                                  *)
TypeOK ==
  /\ mem \in [Block -> Nat]
  /\ in_off \in Block
  /\ in_size \in Nat /\ out_size \in Nat /\ fed \in Nat /\ handed \in Nat
  /\ result \in {"ok", "length_error"}

(* The bytes of both kinds fit in the block, so that prepare() never hands *)
(* out bytes that are readable; the difference capacity_ - in_size_ does   *)
(* not wrap.                                                               *)
WithinCapacity == in_size + handed <= Capacity

(* The buffer implements ByteQueue: the bytes come out as they went in,    *)
(* around the end of the block any number of times.                        *)
Queue == INSTANCE ByteQueue WITH
  AllocMax <- Capacity,
  readable <- data,
  writable <- Slice(OutOff, handed),
  max <- Capacity

ImplementsByteQueue == Queue!Spec
==============================================================================
