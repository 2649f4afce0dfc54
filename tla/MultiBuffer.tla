---------------------------- MODULE MultiBuffer ----------------------------
(***************************************************************************)
(* basic_multi_buffer: a list of blocks that are never moved.  The         *)
(* readable bytes start in_pos_ bytes into the first block; out_ is the    *)
(* block where they end, out_pos_ bytes into it, and out_end_ is where the *)
(* writable bytes end in the last block.  The iterator out_ is a position  *)
(* in the list; list_.end() is one past its length.                        *)
(***************************************************************************)
EXTENDS Naturals, Sequences, SequencesExt

CONSTANTS
  Sizes,        (* the numbers of bytes that calls are made with           *)
  Chunk,        (* the least size of a new block, 512                      *)
  Held,         (* blocks that the target of a move assignment may hold    *)
  MaxFed        (* bound: bytes written by the caller                      *)

MultiBufferAssumption ==
  /\ Sizes \subseteq Nat
  /\ Chunk \in Nat \ {0}
  /\ MaxFed \in Nat

VARIABLES
  list,         (* the blocks, each the sequence of its bytes              *)
  out,          (* out_: a position in list, or Len(list) + 1              *)
  in_size, in_pos, out_pos, out_end,
  max,
  copying,      (* bytes that copy_from() has still to copy                *)
  fed,          (* bytes the caller has written so far                     *)
  prepared,     (* prepare() was the last call that changed the buffer     *)
  result        (* how the last call ended                                 *)

offsets == <<in_size, in_pos, out_pos, out_end>>
vars    == <<list, out, offsets, max, copying, fed, prepared, result>>

Least(a, b) == IF a < b THEN a ELSE b
Most(a, b)  == IF a < b THEN b ELSE a

(* Bytes in the blocks of l from position a to position b.                 *)
Bytes(l, a, b) == FoldFunctionOnSet(+, 0, [i \in DOMAIN l |-> Len(l[i])], a .. b)

(* All blocks of l one after the other.                                    *)
Flat(l) == FlattenSeq(l)

Blank(n) == [i \in 1 .. n |-> 0]

(* n fresh bytes of the caller in the blocks of l at offset a.             *)
Write(l, a, n) ==
  [i \in DOMAIN l |-> [j \in DOMAIN l[i] |->
     LET p == Bytes(l, 1, i - 1) + j
     IN  IF p \in a + 1 .. a + n THEN fed + p - a ELSE l[i][j]]]

Init ==
  /\ list = <<>>
  /\ out = 1
  /\ in_size = 0 /\ in_pos = 0 /\ out_pos = 0 /\ out_end = 0
  /\ max \in Sizes
  /\ copying = 0
  /\ fed = 0
  /\ prepared = FALSE
  /\ result = "ok"

Changed == prepared' = FALSE /\ result' = "ok"

AtEnd == out > Len(list)

(* Where the bytes of the last block that can be referred to end.          *)
LastEnd == IF list = <<>> THEN 0
           ELSE IF out_end = 0 THEN Len(list[Len(list)]) ELSE out_end

(* What the subrange of n bytes at pos refers to.                          *)
Subrange(pos, n) ==
  SubSeq(Flat(list), in_pos + pos + 1,
         Least(in_pos + pos + n, Bytes(list, 1, Len(list) - 1) + LastEnd))

(* Room in the block at position i for bytes after the readable ones.      *)
Room(i) == Len(list[i]) - (IF i = out THEN out_pos ELSE 0)
RoomUpTo(k) == FoldFunctionOnSet(+, 0, [i \in out .. Len(list) |-> Room(i)], out .. k)

(* prepare(): the blocks from out_ on are used again until there are n     *)
(* bytes, the rest of them is freed.  UpTo is the last block used.         *)
UpTo(n) ==
  IF AtEnd THEN Len(list)
  ELSE CHOOSE k \in out .. Len(list) :
         /\ k = Len(list) \/ n <= RoomUpTo(k)
         /\ \A j \in out .. k - 1 : n > RoomUpTo(j)

(* What is kept counts against max_ with all its room.  An unsigned        *)
(* difference that would be negative is larger than anything asked for.    *)
Total(n)      == in_size + RoomUpTo(UpTo(n))
Missing(n)    == IF n > RoomUpTo(UpTo(n)) THEN n - RoomUpTo(UpTo(n)) ELSE 0
Wanted(n)     == Most(Missing(n), Most(Chunk, 2 * in_size))
NewBlock(n)   == IF Total(n) <= max THEN Least(max - Total(n), Wanted(n)) ELSE Wanted(n)

Kept(n) == SubSeq(list, 1, UpTo(n))

(* Where n writable bytes end in the last block used.                      *)
EndIn(n) ==
  LET k == UpTo(n) IN n - RoomUpTo(k - 1) + (IF k = out THEN out_pos ELSE 0)

Storage(n) ==
  IF Missing(n) > 0
  THEN /\ list' = Write(Append(Kept(n), Blank(NewBlock(n))), in_pos + in_size, n)
       /\ out_end' = Missing(n)
  ELSE /\ list' = Write(Kept(n), in_pos + in_size, n)
       /\ out_end' = IF AtEnd THEN out_end ELSE EndIn(n)

Prepare(n) ==
  /\ fed + n <= MaxFed
  /\ in_size + n <= max
  /\ Storage(n)
  /\ fed' = fed + n
  /\ prepared' = TRUE
  /\ result' = "ok"
  /\ UNCHANGED <<out, in_size, in_pos, out_pos, max>>

PrepareThrows(n) ==
  /\ in_size + n > max
  /\ result' = "length_error"
  /\ UNCHANGED <<list, out, offsets, max, fed, prepared>>

(* The block in which a commit of n bytes ends.                            *)
CommitIn(n) ==
  CHOOSE k \in out .. Len(list) :
    /\ k = Len(list) \/ n < RoomUpTo(k)
    /\ \A j \in out .. k - 1 : n >= RoomUpTo(j)

(* The bytes committed in block k, the last of them.                       *)
Rest(n, k) ==
  LET rest == n - RoomUpTo(k - 1)
      pos  == IF k = out THEN out_pos ELSE 0
  IN  IF k = Len(list) THEN Least(rest, out_end - pos) ELSE rest

Commit(n) ==
  /\ Changed
  /\ UNCHANGED <<list, in_pos, max, fed>>
  /\ IF AtEnd THEN UNCHANGED <<out, in_size, out_pos, out_end>>
     ELSE LET k   == CommitIn(n)
              pos == Rest(n, k) + (IF k = out THEN out_pos ELSE 0)
              full == k = Len(list) /\ pos = Len(list[k])
          IN  /\ in_size' = in_size + RoomUpTo(k - 1) + Rest(n, k)
              /\ out'     = IF full THEN k + 1 ELSE k
              /\ out_pos' = IF full THEN 0 ELSE pos
              /\ out_end' = IF full THEN 0 ELSE out_end

(* Blocks before out_ that hold no byte once n bytes are consumed; in_pos_ *)
(* counts from the start of the first block.                               *)
Spent(n) == {k \in 1 .. out - 1 : Bytes(list, 1, k) <= in_pos + n}

(* All is consumed and out_ is the first block: it is used from its start  *)
(* if no writable byte is left in it, else what is left stays.             *)
ConsumeAll ==
  IF out < Len(list) \/ out_pos # out_end
  THEN in_pos' = out_pos /\ UNCHANGED <<out_pos, out_end>>
  ELSE in_pos' = 0 /\ out_pos' = 0 /\ out_end' = 0

Consume(n) ==
  LET gone  == Spent(n)
      count == FoldFunctionOnSet(LAMBDA a, b : 1 + b, 0, [k \in gone |-> 0], gone)
      first == in_pos + n - Bytes(list, 1, count)
  IN  /\ list' = SubSeq(list, count + 1, Len(list))
      /\ out' = out - count
      /\ in_size' = in_size - Least(n, in_size)
      /\ Changed
      /\ UNCHANGED <<max, fed>>
      /\ IF n >= in_size /\ count = out - 1
         THEN ConsumeAll
         ELSE in_pos' = first /\ UNCHANGED <<out_pos, out_end>>

Clear ==
  /\ out' = 1
  /\ in_size' = 0 /\ in_pos' = 0 /\ out_pos' = 0 /\ out_end' = 0
  /\ Changed
  /\ UNCHANGED <<list, max, fed>>

(* reserve() of more than there is room for prepares the difference, and   *)
(* throws if that exceeds max_; the caller writes nothing.                 *)
capacity == in_size + RoomUpTo(Len(list))

Reserve(n) ==
  /\ IF n <= capacity THEN UNCHANGED <<list, out_end>>
     ELSE LET m == n - in_size
          IN  /\ n <= max
              /\ list' = Append(Kept(m), Blank(NewBlock(m)))
              /\ out_end' = Missing(m)
  /\ Changed
  /\ UNCHANGED <<out, in_size, in_pos, out_pos, max, fed>>

ReserveThrows(n) ==
  /\ n > capacity
  /\ n > max
  /\ result' = "length_error"
  /\ UNCHANGED <<list, out, offsets, max, fed, prepared>>

(* shrink_to_fit() frees what is behind the readable bytes, then cuts the  *)
(* last and the first block.                                               *)
ReadBlocks == IF AtEnd THEN list
              ELSE IF out_pos = 0 THEN SubSeq(list, 1, out - 1)
              ELSE SubSeq(list, 1, out)

(* The only block holds bytes from in_pos_ to out_pos_.                    *)
OneCut == out = 1 /\ in_pos # 0

CutLast(l) ==
  IF ~AtEnd /\ out_pos # 0 /\ (Len(l) > 1 \/ OneCut)
  THEN [l EXCEPT ![Len(l)] = SubSeq(@, 1, out_pos)] ELSE l
CutFirst(l) == [l EXCEPT ![1] = SubSeq(@, in_pos + 1, Len(@))]

ShrinkToFit ==
  /\ list # <<>>
  /\ Changed
  /\ UNCHANGED <<max, fed>>
  /\ IF in_size = 0
     THEN /\ list' = <<>>
          /\ out' = 1
          /\ in_size' = 0 /\ in_pos' = 0 /\ out_pos' = 0 /\ out_end' = 0
     ELSE /\ list' = CutFirst(CutLast(ReadBlocks))
          /\ in_pos' = 0
          /\ UNCHANGED in_size
          /\ IF Len(ReadBlocks) = 1 /\ out = 1
             THEN /\ out' = IF OneCut THEN 2 ELSE 1
                  /\ UNCHANGED <<out_pos, out_end>>
             ELSE /\ out' = Len(ReadBlocks) + 1
                  /\ out_pos' = 0 /\ out_end' = 0

(* copy_from(): clear(), then prepare(n) and commit(n), with the limit of  *)
(* the other buffer.                                                       *)
CopyFrom(n, limit) ==
  /\ n <= limit
  /\ out' = 1
  /\ in_size' = 0 /\ in_pos' = 0 /\ out_pos' = 0 /\ out_end' = 0
  /\ max' = limit
  /\ copying' = n
  /\ Changed
  /\ UNCHANGED <<list, fed>>

CopyGoesOn ==
  /\ copying > 0
  /\ \/ ~prepared /\ Prepare(copying) /\ UNCHANGED copying
     \/ prepared  /\ Commit(copying)  /\ copying' = 0

(* Move from a buffer with n bytes in one block of c.                      *)
MoveAssign(n, c) ==
  /\ fed + n <= MaxFed
  /\ 0 < n /\ n <= c
  /\ list' = <<[i \in 1 .. c |-> IF i <= n THEN fed + i ELSE 0]>>
  /\ out' = IF n = c THEN 2 ELSE 1
  /\ in_size' = n
  /\ in_pos' = 0
  /\ out_pos' = n % c /\ out_end' = n % c
  /\ max' = c
  /\ fed' = fed + n
  /\ Changed

(* What is left of a buffer that was moved from: move assignment of the    *)
(* list swaps it for that of the target.                                   *)
MovedFrom ==
  /\ list' \in Held
  /\ out' = Len(list') + 1
  /\ in_size' = 0 /\ in_pos' = 0 /\ out_pos' = 0 /\ out_end' = 0
  /\ Changed
  /\ UNCHANGED <<max, fed>>

Call ==
  /\ copying = 0
  /\ UNCHANGED copying
  /\ \/ Clear \/ MovedFrom
     \/ \E n \in Sizes :
          \/ Prepare(n) \/ PrepareThrows(n) \/ Consume(n) \/ Reserve(n) \/ ReserveThrows(n)
          \/ prepared /\ Commit(n)
          \/ MoveAssign(n, max)

Copy ==
  \/ CopyGoesOn
  \/ copying = 0 /\ \E n, limit \in Sizes : CopyFrom(n, limit)

Shrink == copying = 0 /\ UNCHANGED copying /\ ShrinkToFit

(* The readable bytes end in the first block.                              *)
InOneBlock == out = 1 /\ in_size > 0

Next       == Call \/ Copy \/ (~InOneBlock /\ Shrink)
Spec       == Init /\ [][Next]_vars
------------------------------------------------------------------------------
(* Type invariant.                                                         *)
TypeOK ==
  /\ \A i \in DOMAIN list : list[i] \in Seq(Nat) /\ list[i] # <<>>
  /\ out \in 1 .. Len(list) + 1
  /\ {in_size, in_pos, out_pos, out_end, max, fed, copying} \subseteq Nat
  /\ prepared \in BOOLEAN
  /\ result \in {"ok", "length_error"}

(* What debug_check() in multi_buffer.hpp asserts.                         *)
DebugCheck ==
  /\ AtEnd => out_pos = 0 /\ out_end = 0
  /\ Len(Subrange(0, in_size)) = in_size
  /\ list = <<>> => in_pos = 0 /\ in_size = 0 /\ out_pos = 0 /\ out_end = 0
  /\ list # <<>> => in_pos < Len(list[1])
  /\ ~AtEnd =>
       /\ out_end <= Len(list[Len(list)])
       /\ out_pos < Len(list[out])
       /\ out = 1 => out_pos >= in_pos /\ out_pos - in_pos = in_size
       /\ out = Len(list) => out_pos <= out_end

(* The writable bytes, from out_ to the end of the last block used.        *)
Writable ==
  IF AtEnd THEN <<>>
  ELSE SubSeq(Flat(list), Bytes(list, 1, out - 1) + out_pos + 1,
              Bytes(list, 1, Len(list) - 1) + out_end)

(* BOOST_ASSERT(net::buffer_size(result) == n0) at the end of prepare() in *)
(* multi_buffer.hpp: the bytes the caller gets are those commit() counts.  *)
PreparedBytes == prepared => Subrange(in_size, Len(Writable)) = Writable

(* The buffer implements ByteQueue: readable bytes are found from in_pos_  *)
(* on and writable ones from out_ on, over every way the blocks are used   *)
(* again, freed and cut.                                                   *)
Queue == INSTANCE ByteQueue WITH
  readable <- Subrange(0, in_size),
  writable <- IF prepared THEN Writable ELSE <<>>,
  AllocMax <- MaxFed * MaxFed

ImplementsByteQueue == Queue!Spec
==============================================================================
