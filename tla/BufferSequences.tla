-------------------------- MODULE BufferSequences ---------------------------
EXTENDS Integers, SequencesExt

(***************************************************************************)
(* buffers_adaptor: a dynamic buffer over a sequence of blocks that the    *)
(* caller owns.  begin_, out_ and end_ point to blocks; in_pos_, out_pos_  *)
(* and out_end_ are offsets in the first, the current and the last block.  *)
(* Room is used once: what has been consumed does not become writable.     *)
(***************************************************************************)

CONSTANTS
  BlockSizes,  (* the sizes of the blocks, a sequence                       *)
  Sizes,       (* the numbers of bytes that calls are made with             *)
  MaxFed       (* bound: bytes written by the caller                        *)

BuffersAdaptorAssumption ==
  /\ BlockSizes \in Seq(Nat)
  /\ Sizes \subseteq Nat
  /\ FoldSeq(+, 0, BlockSizes) \in Sizes
  /\ MaxFed \in Nat

VARIABLES
  mem,      (* the blocks: a sequence of sequences of bytes                 *)
  begin, out, end,
  in_pos, in_size, out_pos, out_end,
  fed,      (* bytes the caller has written so far                          *)
  handed,   (* bytes that prepare() returned and the caller may use         *)
  result    (* how the last call ended                                      *)

positions == <<begin, out, end, in_pos, in_size, out_pos, out_end>>
adaptor_vars      == <<mem, positions, fed, handed, result>>

Least(a, b) == IF a < b THEN a ELSE b

AdaptorPastEnd     == Len(BlockSizes) + 1
max_size == FoldSeq(+, 0, BlockSizes)

(* The bytes in the blocks from a to before b, and before a.               *)
AdaptorTotal(a, b)  == FoldSeq(+, 0, SubSeq(BlockSizes, a, b - 1))

(* subrange: n bytes of the blocks from a to before b, from offset pos.    *)
Subrange(a, b, pos, n) ==
  SubSeq(FlattenSeq(SubSeq(mem, a, b - 1)), pos + 1, Least(pos + n, AdaptorTotal(a, b)))

data == Subrange(begin, end, in_pos, in_size)

AdaptorInit ==
  /\ mem = [i \in DOMAIN BlockSizes |-> [j \in 1 .. BlockSizes[i] |-> 0]]
  /\ begin = 1 /\ out = 1 /\ end = 1
  /\ in_pos = 0 /\ in_size = 0 /\ out_pos = 0 /\ out_end = 0
  /\ fed = 0
  /\ handed = 0
  /\ result = "ok"

(* The bytes that are left from out_ on, and what of n reaches block i.    *)
Room       == AdaptorTotal(out, AdaptorPastEnd) - (IF out = AdaptorPastEnd THEN 0 ELSE out_pos)
Reaches(n, i) == n - (AdaptorTotal(out, i) - (IF i = out THEN 0 ELSE out_pos))

(* The last block that prepare() goes to: the first that n does not fill,  *)
(* but the current one even if it does.                                    *)
LastBlock(n) ==
  IF n <= BlockSizes[out] - out_pos THEN out
  ELSE CHOOSE i \in out + 1 .. AdaptorPastEnd :
         /\ i < AdaptorPastEnd => Reaches(n, i) < BlockSizes[i]
         /\ \A k \in out + 1 .. i - 1 : Reaches(n, k) >= BlockSizes[k]

(* prepare() moves end_ and out_end_, whether it then throws or not.       *)
Walk(n) ==
  IF out = AdaptorPastEnd THEN end' = AdaptorPastEnd /\ UNCHANGED out_end
  ELSE LET i == LastBlock(n)
       IN  /\ end' = Least(i + 1, AdaptorPastEnd)
           /\ out_end' = CASE i = out -> out_pos + n
                           [] i > out /\ i < AdaptorPastEnd -> Reaches(n, i)
                           [] i = AdaptorPastEnd -> IF AdaptorPastEnd = out + 1 THEN out_end ELSE BlockSizes[AdaptorPastEnd - 1]

(* The caller writes to the n bytes from out_pos in the block out.         *)
Write(n) ==
  mem' = [i \in DOMAIN mem |-> [j \in DOMAIN mem[i] |->
            LET k == AdaptorTotal(out, i) + j - out_pos
            IN  IF i >= out /\ k \in 1 .. n THEN fed + k ELSE mem[i][j]]]

Prepare(n) ==
  /\ fed + n <= MaxFed
  /\ n <= Room
  /\ Walk(n)
  /\ Write(n)
  /\ fed' = fed + n
  /\ handed' = n
  /\ result' = "prepared"
  /\ UNCHANGED <<begin, out, in_pos, in_size, out_pos>>

PrepareThrows(n) ==
  /\ n > Room
  /\ Walk(n)
  /\ result' = "length_error"
  /\ UNCHANGED <<mem, begin, out, in_pos, in_size, out_pos, fed, handed>>

(* How many of the n bytes commit() takes, block by block up to the one    *)
(* before end_.                                                            *)
Taken(n) == IF out = end THEN 0 ELSE Least(n, AdaptorTotal(out, end - 1) + out_end - out_pos)

(* The block and the offset behind k bytes; a full block is left.          *)
Advance(k) ==
  LET i == CHOOSE i \in out .. end :
             /\ i < end => k < AdaptorTotal(out, i + 1) - out_pos
             /\ \A h \in out .. i - 1 : k >= AdaptorTotal(out, h + 1) - out_pos
  IN  /\ out' = i
      /\ out_pos' = IF i = out THEN out_pos + k ELSE k + out_pos - AdaptorTotal(out, i)
      /\ out_end' = IF i = end THEN 0 ELSE out_end

Commit(n) ==
  /\ IF out = end THEN UNCHANGED positions
     ELSE /\ Advance(Taken(n))
          /\ in_size' = in_size + Taken(n)
          /\ UNCHANGED <<begin, end, in_pos>>
  /\ handed' = 0
  /\ result' = "ok"
  /\ UNCHANGED <<mem, fed>>

(* Wrong: the offset of the block before is kept.                          *)
ConsumedKept(k) ==
  LET i == CHOOSE i \in begin .. out :
             /\ i < out => k < AdaptorTotal(begin, i + 1) - in_pos
             /\ \A h \in begin .. i - 1 : k >= AdaptorTotal(begin, h + 1) - in_pos
  IN  begin' = i /\ in_pos' = in_pos + (IF i = begin THEN k ELSE 0)

(* Where k of the readable bytes end.                                      *)
Consumed(k) ==
  LET i == CHOOSE i \in begin .. out :
             /\ i < out => k < AdaptorTotal(begin, i + 1) - in_pos
             /\ \A h \in begin .. i - 1 : k >= AdaptorTotal(begin, h + 1) - in_pos
  IN  begin' = i /\ in_pos' = k + in_pos - AdaptorTotal(begin, i)

AdaptorConsume(n) ==
  /\ Consumed(Least(n, in_size))
  /\ in_size' = in_size - Least(n, in_size)
  /\ handed' = 0
  /\ result' = "ok"
  /\ UNCHANGED <<mem, out, end, out_pos, out_end, fed>>

(* A caller that keeps to the documentation commits what it holds, or more *)
(* right after prepare().                                                  *)
AdaptorNext ==
  \E n \in Sizes :
    \/ Prepare(n) \/ PrepareThrows(n) \/ AdaptorConsume(n)
    \/ (n <= handed \/ result = "prepared") /\ Commit(n)

AdaptorSpec == AdaptorInit /\ [][AdaptorNext]_adaptor_vars

------------------------------------------------------------------------------
(* Types; an offset is inside of its block, but in one that is empty.      *)
TypeOK ==
  /\ begin \in 1 .. out /\ out \in 1 .. end /\ end \in 1 .. AdaptorPastEnd
  /\ in_size \in 0 .. max_size
  /\ out < AdaptorPastEnd => out_pos = 0 \/ out_pos < BlockSizes[out]
  /\ out_end <= IF end = 1 THEN 0 ELSE BlockSizes[end - 1]
  /\ result \in {"ok", "prepared", "length_error"}

(* The counter in_size_ and the positions, which are kept apart, agree.    *)
SizeAgrees ==
  /\ in_size = AdaptorTotal(begin, out) + out_pos - in_pos
  /\ in_size = Len(data)

(* The bytes come out as they went in, across the ends of the blocks.      *)
Queue == INSTANCE ByteQueue WITH
  AllocMax <- 0,
  readable <- data,
  writable <- Subrange(out, AdaptorPastEnd, out_pos, handed),
  max <- max_size,
  result <- IF result = "prepared" THEN "ok" ELSE result

ImplementsByteQueue == Queue!Spec

---------------------------------------------------------------------------
(***************************************************************************)
(* The views of buffer sequences: buffers_cat_view over several, and       *)
(* buffers_prefix_view and buffers_suffix over one.  A reader walks over a *)
(* view with its iterator, forward and back; what it may count on is that  *)
(* the buffers it meets are those of the bytes the view stands for.        *)
(***************************************************************************)

CONSTANTS
  Parts,    (* sequences of sequences of the sizes of buffers               *)
  Kinds,    (* which views                                                  *)
  W         (* the bits of a size_t                                         *)

BufferViewsAssumption ==
  /\ Kinds \subseteq {"cat", "prefix", "suffix"} /\ W \in Nat \ {0}
  /\ \A p \in Parts : Len(p) >= 2 /\ \A s \in ToSet(FlattenSeq(p)) : s \in 0..2^W - 1

VARIABLES
  kind, parts,
  size_, remain_, end_,  (* of a prefix                                     *)
  begin_, skip_,         (* of a suffix                                     *)
  it,                    (* the reader's iterator                           *)
  pos,                   (* bytes of the view it has behind it              *)
  gone                   (* bytes consumed                                  *)

view == <<kind, parts, size_, remain_, end_>>
views_vars == <<view, begin_, skip_, it, pos, gone>>

ViewsTotal(s) == FoldLeft(LAMBDA t, n : t + n, 0, s)
bs == FlattenSeq(parts)      (* of a prefix or a suffix: one sequence      *)
N == Len(parts)
Wrap(n) == n % 2^W
-----------------------------------------------------------------------------
(* An iterator of a concatenation: in which sequence, and where in it.     *)
ViewsPastEnd == <<N + 1, 1>>

(* The first buffer from there on that is not empty.                       *)
RECURSIVE next(_, _)
next(i, p) ==
  IF p > Len(parts[i]) THEN IF i = N THEN ViewsPastEnd ELSE next(i + 1, 1)
  ELSE IF parts[i][p] > 0 THEN <<i, p>> ELSE next(i, p + 1)

(* The last one before it; there is one.                                   *)
RECURSIVE decrement(_, _)
decrement(i, p) ==
  IF p = 1 THEN decrement(i - 1, Len(parts[i - 1]) + 1)
  ELSE IF parts[i][p - 1] > 0 THEN <<i, p - 1>> ELSE decrement(i, p - 1)
-----------------------------------------------------------------------------
(* A prefix of so many bytes ends with the buffer that reaches them.       *)
setup(size) ==
  LET upto == {k \in 1..Len(bs) : ViewsTotal(SubSeq(bs, 1, k)) >= size}
      k == CHOOSE j \in upto : \A m \in upto : j <= m
  IN /\ size_' = Least(size, ViewsTotal(bs))
     /\ IF upto = {} THEN end_' = Len(bs) + 1 /\ remain_' = 0
        ELSE /\ end_' = k + 1
             /\ remain_' = Wrap(size - ViewsTotal(SubSeq(bs, 1, k - 1)) - bs[k])

(* An iterator of a prefix has the bytes that remain; of a suffix only the *)
(* position.                                                               *)
Begin ==
  CASE kind = "cat"    -> next(1, 1)
    [] kind = "prefix" -> <<1, size_>>
    [] OTHER           -> <<begin_, 0>>
End ==
  CASE kind = "cat"    -> ViewsPastEnd
    [] kind = "prefix" -> <<end_, remain_>>
    [] OTHER           -> <<Len(bs) + 1, 0>>

(* Iterators of a prefix compare their positions only.                     *)
Same(a, b) == IF kind = "prefix" THEN a[1] = b[1] ELSE a = b

Increment(i) ==
  CASE kind = "cat"    -> next(i[1], i[2] + 1)
    [] kind = "prefix" -> <<i[1] + 1, Wrap(i[2] - bs[i[1]])>>
    [] OTHER           -> <<i[1] + 1, 0>>
Decrement(i) ==
  CASE kind = "cat"    -> decrement(IF i = ViewsPastEnd THEN N ELSE i[1],
                                    IF i = ViewsPastEnd THEN Len(parts[N]) + 1 ELSE i[2])
    [] kind = "prefix" -> <<i[1] - 1, Wrap(i[2] + bs[i[1] - 1])>>
    [] OTHER           -> <<i[1] - 1, 0>>

(* The bytes of the buffer: the first one's place in all, and how many.    *)
Dereference(i) ==
  CASE kind = "cat"    -> [at |-> ViewsTotal(FlattenSeq(SubSeq(parts, 1, i[1] - 1)))
                                    + ViewsTotal(SubSeq(parts[i[1]], 1, i[2] - 1)),
                           n  |-> parts[i[1]][i[2]]]
    [] kind = "prefix" -> [at |-> ViewsTotal(SubSeq(bs, 1, i[1] - 1)), n |-> Least(i[2], bs[i[1]])]
    [] OTHER           -> LET skip == IF i[1] = begin_ THEN skip_ ELSE 0
                          IN [at |-> ViewsTotal(SubSeq(bs, 1, i[1] - 1)) + skip,
                              n  |-> bs[i[1]] - skip]
-----------------------------------------------------------------------------
ViewsInit ==
  /\ kind = "none" /\ parts \in Parts
  /\ size_ = 0 /\ remain_ = 0 /\ end_ = 1 /\ begin_ = 1 /\ skip_ = 0
  /\ it = <<1, 0>> /\ pos = 0 /\ gone = 0

Reader(i, n) == it' = i /\ pos' = n

MakeView ==
  /\ kind = "none" /\ \E k \in Kinds : kind' = k
  /\ IF kind' = "prefix" THEN \E size \in 0..2^W - 1 : setup(size)
     ELSE UNCHANGED <<size_, remain_, end_>>
  /\ UNCHANGED <<parts, begin_, skip_, gone>>
  /\ Reader(Begin', 0)

Forward ==
  /\ kind # "none" /\ ~Same(it, End)
  /\ Reader(Increment(it), pos + Dereference(it).n)
  /\ UNCHANGED <<view, begin_, skip_, gone>>

Back ==
  /\ kind # "none" /\ ~Same(it, Begin)
  /\ Reader(Decrement(it), pos - Dereference(Decrement(it)).n)
  /\ UNCHANGED <<view, begin_, skip_, gone>>

(* Whole buffers while there is something to remove, then a part of one.   *)
consume(amount) ==
  LET left == ViewsTotal(SubSeq(bs, begin_, Len(bs))) - skip_
      done == {k \in begin_..Len(bs) :
                 /\ ViewsTotal(SubSeq(bs, begin_, k)) - skip_ <= amount
                 /\ k = begin_ \/ ViewsTotal(SubSeq(bs, begin_, k - 1)) - skip_ < amount}
      used == ViewsTotal(SubSeq(bs, begin_, begin_ + Cardinality(done) - 1)) - skip_
  IN /\ begin_' = begin_ + Cardinality(done)
     /\ skip_' = IF amount >= left THEN 0 ELSE amount - used

(* Iterators from before are no longer any good.                           *)
ViewsConsume ==
  /\ kind = "suffix" /\ gone < ViewsTotal(bs)
  /\ \E amount \in 1..2^W - 1 :
       /\ consume(amount)
       /\ gone' = Least(gone + amount, ViewsTotal(bs))
  /\ Reader(<<begin_', 0>>, 0)
  /\ UNCHANGED view

ViewsNext == MakeView \/ Forward \/ Back \/ ViewsConsume
ViewsSpec == ViewsInit /\ [][ViewsNext]_views_vars
-----------------------------------------------------------------------------
(* The bytes that a view stands for: from the first to before the last.    *)
First == IF kind = "suffix" THEN gone ELSE 0
Beyond == IF kind = "prefix" THEN Least(size_, ViewsTotal(bs)) ELSE ViewsTotal(bs)

(* However the reader came to a place, the buffer there has the bytes that *)
(* follow those behind it (impl/buffers_prefix.hpp:74-109,                 *)
(* impl/buffers_suffix.hpp:71, impl/buffers_cat.hpp:213-335).              *)
Follows ==
  kind # "none" /\ ~Same(it, End) =>
    LET b == Dereference(it) IN b.at = First + pos /\ b.at + b.n <= Beyond

(* The reader that comes to the end has seen every byte of the view, and   *)
(* at the beginning none (impl/buffers_prefix.hpp:145-167,                 *)
(* impl/buffers_suffix.hpp:204, impl/buffers_cat.hpp:249-265).             *)
All ==
  kind # "none" =>
    /\ Same(it, End) => First + pos = Beyond
    /\ Same(it, Begin) => pos = 0

(* A concatenation shows no empty buffer, from either side                 *)
(* (impl/buffers_cat.hpp:231, 301, 317).                                   *)
NoneEmpty == kind = "cat" /\ it # ViewsPastEnd => Dereference(it).n > 0

(* What buffer_bytes says of a prefix without walking is what a walk finds *)
(* (buffers_prefix.hpp:132).                                               *)
SizeIsWalked == kind = "prefix" /\ Same(it, End) => pos = size_
=============================================================================
