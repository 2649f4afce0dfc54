----------------------------- MODULE ByteQueue -----------------------------
(***************************************************************************)
(* What a dynamic buffer of Beast promises, whatever its layout: readable  *)
(* bytes in the order in which they were committed, and writable bytes     *)
(* from prepare() to the next call that changes the buffer.  FlatBuffer,   *)
(* MultiBuffer and StaticBuffer implement it.                              *)
(***************************************************************************)
EXTENDS Naturals, Sequences

CONSTANTS
  Sizes,        (* the numbers of bytes that calls are made with           *)
  AllocMax      (* the most the allocator gives at once                    *)

VARIABLES
  readable,     (* the bytes data() refers to                              *)
  writable,     (* the bytes prepare() returned, as the caller wrote them  *)
  max,          (* max_size()                                              *)
  fed,          (* bytes the caller has written so far: byte n is the n-th *)
  result        (* how the last call ended                                 *)

vars == <<readable, writable, max, fed, result>>

Least(a, b) == IF a < b THEN a ELSE b

(* The caller writes to all the bytes it is given.                         *)
Fresh(n) == [i \in 1 .. n |-> fed + i]

Init(limit) ==
  /\ readable = <<>>
  /\ writable = <<>>
  /\ max = limit
  /\ fed = 0
  /\ result = "ok"

Prepare(n) ==
  /\ Len(readable) + n <= max
  /\ writable' = Fresh(n)
  /\ fed' = fed + n
  /\ result' = "ok"
  /\ UNCHANGED <<readable, max>>

(* The storage may grow by doubling: the allocator may refuse that even if *)
(* what is needed is less.                                                 *)
PrepareThrows(n) ==
  /\ \/ Len(readable) + n > max
     \/ Len(readable) + n > AllocMax
     \/ 2 * Len(readable) > AllocMax
  /\ result' = "length_error"
  /\ UNCHANGED <<readable, writable, max, fed>>

Commit(n) ==
  /\ readable' = readable \o SubSeq(writable, 1, Least(n, Len(writable)))
  /\ writable' = <<>>
  /\ result' = "ok"
  /\ UNCHANGED <<max, fed>>

Consume(n) ==
  /\ readable' = SubSeq(readable, n + 1, Len(readable))
  /\ writable' = <<>>
  /\ result' = "ok"
  /\ UNCHANGED <<max, fed>>

Clear ==
  /\ readable' = <<>>
  /\ writable' = <<>>
  /\ result' = "ok"
  /\ UNCHANGED <<max, fed>>

(* reserve() and shrink_to_fit() change the storage, not what it holds;    *)
(* reserve() may raise the limit.                                          *)
Restore(n) ==
  /\ max' \in {max, n}
  /\ max' >= max
  /\ writable' = <<>>
  /\ result' = "ok"
  /\ UNCHANGED <<readable, fed>>

RestoreThrows(n) ==
  /\ n > AllocMax \/ 2 * Len(readable) > AllocMax
  /\ max' \in {max, n}
  /\ max' >= max
  /\ result' = "length_error"
  /\ UNCHANGED <<readable, writable, fed>>

(* Copy or move from a buffer that holds n bytes and has its own limit.    *)
Assign(n, limit) ==
  /\ n <= limit
  /\ readable' = Fresh(n)
  /\ writable' = <<>>
  /\ max' = limit
  /\ fed' = fed + n
  /\ result' = "ok"

Next ==
  \/ Clear
  \/ \E n \in Sizes :
       \/ Prepare(n) \/ PrepareThrows(n) \/ Commit(n) \/ Consume(n)
       \/ Restore(n) \/ RestoreThrows(n)
       \/ \E limit \in Sizes : Assign(n, limit)

Spec == (\E limit \in Sizes : Init(limit)) /\ [][Next]_vars
==============================================================================
