--------------------------- MODULE MCRequestBuffer ---------------------------
(***************************************************************************)
(* The class RequestBuffer, checked in two parts.  "ring" is the module    *)
(* RequestBuffer with few slots, wrapped twice.  "geometry" is how the     *)
(* template derives the number of slots and the mask that turns a position *)
(* into a slot, for every SIZE and every position: RequestRing relies on   *)
(* the result, pos % mSize.                                                *)
(*                                                                         *)
(* In "geometry" integers have W bits (64 in the code).  SIZE = 0 and      *)
(* SIZE > 2^(W-1) are left out: there "1UL << ..." shifts by W or more,    *)
(* and as the result has to be a constant the class does not compile.      *)
(***************************************************************************)
EXTENDS RequestBuffer, Bitwise

CONSTANTS
  Parts,   (* the parts that are checked *)
  W        (* width of uint64_t          *)

VARIABLES
  part,    (* the part that runs, the other is at rest *)
  SIZE,    (* the parameter of the template            *)
  pos      (* a position, counting up                  *)

geometry_vars == <<SIZE, pos>>
class_vars == <<part, vars, geometry_vars>>

RECURSIVE LOG2(_, _)
LOG2(size, p) == IF size <= 1 THEN p ELSE LOG2(size \div 2, p + 1)

(* Wrong: a power of two is doubled.                                       *)
GetClosestExpDoubles(size) == 2 ^ (LOG2(size, 0) + 1)

GetClosestExp(size) == 2 ^ (LOG2(size - 1, 0) + 1)

mSlots == GetClosestExp(SIZE)

mRingMask == GetClosestExp(SIZE) - 1

MaskedSlot(p) == p & mRingMask

ClassInit ==
  /\ part \in Parts
  /\ Init
  /\ SIZE \in IF part = "geometry" THEN 1 .. 2 ^ (W - 1) ELSE {1}
  /\ pos = 0

(* mWritePos++ and mReadPos + 1 wrap.                                      *)
Advance == pos' = (pos + 1) % 2 ^ W /\ UNCHANGED SIZE

ClassNext ==
  \/ part = "ring" /\ Next /\ UNCHANGED <<part, geometry_vars>>
  \/ part = "geometry" /\ Advance /\ UNCHANGED <<part, vars>>

ClassSpec == ClassInit /\ [][ClassNext]_class_vars

------------------------------------------------------------------------------
(* SIZE is rounded to the least power of two, other than one, that holds   *)
(* SIZE requests, so that masking a position is taking it modulo the       *)
(* number of slots, and the next position has the next slot even where the *)
(* position wraps (request_buffer.hpp:17-24, 39, 54).                      *)
MaskIsModulus ==
  /\ \E k \in 1 .. W - 1 : mSlots = 2 ^ k
  /\ mSlots >= SIZE
  /\ SIZE > 2 => mSlots \div 2 < SIZE
  /\ MaskedSlot(pos) = pos % mSlots
  /\ MaskedSlot((pos + 1) % 2 ^ W) = (MaskedSlot(pos) + 1) % mSlots
==============================================================================
