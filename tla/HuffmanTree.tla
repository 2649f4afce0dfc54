---------------------------- MODULE HuffmanTree -----------------------------
EXTENDS Integers, SequencesExt, FiniteSetsExt

(***************************************************************************)
(* deflate_stream::build_tree(): from the frequencies of a block's symbols *)
(* to the lengths and the bits of their codes.                             *)
(*                                                                         *)
(* Nodes 0 .. Elems - 1 are the symbols, the ones above are made by        *)
(* joining two.  heap_ holds the nodes still to be joined in its first     *)
(* heap_len_ places and, from heap_max_ on, the ones that were, the least  *)
(* frequent last.  dl is first a node's father and then its length, and fc *)
(* its frequency and then its code, as in the code.                        *)
(***************************************************************************)

CONSTANTS
  Elems,        (* elems: the number of symbols                             *)
  MaxLength,    (* max_length                                               *)
  Frequencies,  (* of the symbols, bound                                    *)
  Extra         (* extra_bits of each symbol                                *)

TreeAssumption ==
  /\ Elems \in Nat \ {0, 1} /\ Elems <= 2 ^ MaxLength
  /\ Frequencies \subseteq Nat /\ Extra \in [0 .. Elems - 1 -> Nat]

HEAP_SIZE == 2 * Elems + 1
kSmallest == 1
Symbols   == 0 .. Elems - 1

VARIABLES
  tree_pc,      (* the part of build_tree() that is next                    *)
  freq,         (* history: the frequencies given                           *)
  tree_fc, dl,  (* of the nodes                                             *)
  depth,        (* depth_                                                   *)
  heap, heap_len, heap_max,
  node,     (* the next node that is made                                   *)
  max_code,
  opt_len,  (* what was added to opt_len_                                   *)
  bl_count  (* symbols with a code of each length                           *)

tree_vars == <<tree_pc, freq, tree_fc, dl, depth, heap, heap_len, heap_max, node, max_code, opt_len, bl_count>>

TreeInit ==
  /\ freq \in [Symbols -> Frequencies]
  /\ tree_pc = "count"
  /\ tree_fc = [n \in 0 .. HEAP_SIZE - 1 |-> IF n \in Symbols THEN freq[n] ELSE 0]
  /\ dl = [n \in 0 .. HEAP_SIZE - 1 |-> 0]
  /\ depth = [n \in 0 .. HEAP_SIZE - 1 |-> 0]
  /\ heap = [i \in 1 .. HEAP_SIZE - 1 |-> 0] /\ heap_len = 0 /\ heap_max = HEAP_SIZE
  /\ node = Elems /\ max_code = -1 /\ opt_len = 0
  /\ bl_count = [b \in 0 .. MaxLength |-> 0]

smaller(n, m) == tree_fc[n] < tree_fc[m] \/ (tree_fc[n] = tree_fc[m] /\ depth[n] <= depth[m])

(* The symbols that occur, in their order, and how many of them.           *)
Occurring == SetToSortSeq({n \in Symbols : tree_fc[n] # 0}, <)

Filled(h, s) == [i \in DOMAIN h |-> IF i <= Len(s) THEN s[i] ELSE h[i]]

Count ==
  /\ tree_pc = "count"
  /\ heap' = Filled(heap, Occurring)
  /\ heap_len' = Len(Occurring)
  /\ max_code' = IF Occurring = <<>> THEN -1 ELSE Occurring[Len(Occurring)]
  /\ tree_pc' = "force"
  /\ UNCHANGED <<freq, tree_fc, dl, depth, heap_max, node, opt_len, bl_count>>

(* At least two codes: another symbol is given the frequency 1.            *)
Force ==
  /\ tree_pc = "force" /\ heap_len < 2
  /\ LET n == IF max_code < 2 THEN max_code + 1 ELSE 0
     IN  /\ heap' = [heap EXCEPT ![heap_len + 1] = n]
         /\ max_code' = IF max_code < 2 THEN n ELSE max_code
         /\ tree_fc' = [tree_fc EXCEPT ![n] = 1]
  /\ heap_len' = heap_len + 1
  /\ opt_len' = opt_len - 1
  /\ UNCHANGED <<tree_pc, freq, dl, depth, heap_max, node, bl_count>>

(* pqdownheap(): node v is moved down from place k.                        *)
RECURSIVE Down(_, _, _, _)
Down(h, len, k, v) ==
  LET l == 2 * k
      j == IF l < len /\ smaller(h[l + 1], h[l]) THEN l + 1 ELSE l
  IN  IF l > len \/ smaller(v, h[j]) THEN [h EXCEPT ![k] = v]
      ELSE Down([h EXCEPT ![k] = h[j]], len, j, v)

Heapify ==
  /\ tree_pc = "force" /\ heap_len >= 2
  /\ heap' = FoldLeft(LAMBDA h, k : Down(h, heap_len, k, h[k]), heap,
                      Reverse([i \in 1 .. heap_len \div 2 |-> i]))
  /\ tree_pc' = "remove"
  /\ UNCHANGED <<freq, tree_fc, dl, depth, heap_len, heap_max, node, max_code, opt_len, bl_count>>

(* pqremove(): the least node leaves the heap and is the next from the end.*)
pqremove ==
  /\ tree_pc = "remove"
  /\ LET n == heap[kSmallest]
     IN  heap' = [Down(heap, heap_len - 1, kSmallest, heap[heap_len]) EXCEPT ![heap_max - 1] = n]
  /\ heap_len' = heap_len - 1 /\ heap_max' = heap_max - 1
  /\ tree_pc' = "join"
  /\ UNCHANGED <<freq, tree_fc, dl, depth, node, max_code, opt_len, bl_count>>

Larger(a, b) == IF a >= b THEN a ELSE b

(* It and the next least one get a father, which takes the place of the    *)
(* second.                                                                 *)
Join ==
  /\ tree_pc = "join"
  /\ LET n == heap[heap_max]
         m == heap[kSmallest]
     IN  /\ tree_fc' = [tree_fc EXCEPT ![node] = tree_fc[n] + tree_fc[m]]
         /\ depth' = [depth EXCEPT ![node] = Larger(depth[n], depth[m]) + 1]
         /\ dl' = [dl EXCEPT ![n] = node, ![m] = node]
         /\ heap' = [heap EXCEPT ![heap_max - 1] = m, ![kSmallest] = node]
  /\ heap_max' = heap_max - 1
  /\ node' = node + 1
  /\ tree_pc' = "down"
  /\ UNCHANGED <<freq, heap_len, max_code, opt_len, bl_count>>

Settle ==
  /\ tree_pc = "down"
  /\ heap' = LET h == Down(heap, heap_len, kSmallest, heap[kSmallest])
             IN  IF heap_len >= 2 THEN h ELSE [h EXCEPT ![heap_max - 1] = h[kSmallest]]
  /\ heap_max' = IF heap_len >= 2 THEN heap_max ELSE heap_max - 1
  /\ tree_pc' = IF heap_len >= 2 THEN "remove" ELSE "lengths"
  /\ UNCHANGED <<freq, tree_fc, dl, depth, heap_len, node, max_code, opt_len, bl_count>>

(* gen_bitlen(), first pass: a node is one longer than its father, at most *)
(* MaxLength.  Fathers come before their sons.                             *)
IsLeaf(n) == n <= max_code
TreeLengths ==
  LET step(s, n) ==
        LET b    == s.dl[s.dl[n]] + 1
            bits == IF b > MaxLength THEN MaxLength ELSE b
        IN  [dl       |-> [s.dl EXCEPT ![n] = bits],
             overflow |-> s.overflow + IF b > MaxLength THEN 1 ELSE 0,
             count    |-> IF IsLeaf(n) THEN [s.count EXCEPT ![bits] = @ + 1] ELSE s.count,
             opt      |-> s.opt + IF IsLeaf(n) THEN tree_fc[n] * (bits + Extra[n]) ELSE 0]
  IN  FoldLeft(step,
        [dl |-> [dl EXCEPT ![heap[heap_max]] = 0], overflow |-> 0,
         count |-> [b \in 0 .. MaxLength |-> 0], opt |-> opt_len],
        SubSeq(heap, heap_max + 1, HEAP_SIZE - 1))

(* Too long ones become brothers of a leaf that goes one down.             *)
RECURSIVE Pulled(_, _)
Pulled(count, overflow) ==
  IF overflow <= 0 THEN count
  ELSE LET bits == Max({b \in 1 .. MaxLength - 1 : count[b] # 0})
       IN  Pulled([[[count EXCEPT ![bits] = @ - 1] EXCEPT ![bits + 1] = @ + 2]
                     EXCEPT ![MaxLength] = @ - 1], overflow - 2)

(* The lengths are given out again, the longest to the least frequent.     *)
Leaves == SelectSeq(Reverse(SubSeq(heap, heap_max, HEAP_SIZE - 1)), IsLeaf)
LengthAt(count, i) ==
  CHOOSE b \in 1 .. MaxLength :
    LET longer == FoldFunctionOnSet(+, 0, count, b + 1 .. MaxLength)
    IN  longer < i /\ i <= longer + count[b]

(* Wrong: the lengths that were cut are kept.                              *)
RegivenNone(s, count) == [dl |-> s.dl, opt |-> s.opt]

Regiven(s, count) ==
  LET place(n) == CHOOSE i \in DOMAIN Leaves : Leaves[i] = n
      new      == [n \in DOMAIN s.dl |->
                     IF n \in Range(Leaves) THEN LengthAt(count, place(n)) ELSE s.dl[n]]
  IN  [dl  |-> new,
       opt |-> FoldLeft(LAMBDA sum, n : sum + (new[n] - s.dl[n]) * tree_fc[n], s.opt, Leaves)]

gen_bitlen ==
  /\ tree_pc = "lengths"
  /\ LET s     == TreeLengths
         count == Pulled(s.count, s.overflow)
         r     == IF s.overflow = 0 THEN [dl |-> s.dl, opt |-> s.opt] ELSE Regiven(s, count)
     IN  dl' = r.dl /\ opt_len' = r.opt /\ bl_count' = count
  /\ tree_pc' = "codes"
  /\ UNCHANGED <<freq, tree_fc, depth, heap, heap_len, heap_max, node, max_code>>

bi_reverse(c, len) ==
  FoldLeft(LAMBDA sum, i : sum + ((c \div 2 ^ (i - 1)) % 2) * 2 ^ (len - i), 0, [i \in 1 .. len |-> i])

next_code ==
  LET first[b \in 0 .. MaxLength] == IF b = 0 THEN 0 ELSE 2 * (first[b - 1] + (IF b = 1 THEN 0 ELSE bl_count[b - 1]))
  IN  first

(* gen_codes(): counted up within a length, the first bit lowest.          *)
gen_codes ==
  /\ tree_pc = "codes"
  /\ tree_fc' = [n \in DOMAIN tree_fc |->
              IF n \in Symbols /\ IsLeaf(n) /\ dl[n] # 0
                THEN bi_reverse(next_code[dl[n]] + Cardinality({m \in 0 .. n - 1 : dl[m] = dl[n]}), dl[n])
                ELSE tree_fc[n]]
  /\ tree_pc' = "done"
  /\ UNCHANGED <<freq, dl, depth, heap, heap_len, heap_max, node, max_code, opt_len, bl_count>>

TreeNext == Count \/ Force \/ Heapify \/ pqremove \/ Join \/ Settle \/ gen_bitlen \/ gen_codes
TreeSpec == TreeInit /\ [][TreeNext]_tree_vars

------------------------------------------------------------------------------
Done  == tree_pc = "done"
Coded == {n \in Symbols : dl[n] > 0}

(* The nodes that were taken out come from the end in rising frequency, a  *)
(* father before his sons: gen_bitlen() reads a father's length where the  *)
(* father was (deflate_stream.ipp:787-792, 913-931).                       *)
TakenInOrder ==
  /\ ~Done => \A i \in heap_max .. HEAP_SIZE - 2 : tree_fc[heap[i]] >= tree_fc[heap[i + 1]]
  /\ tree_pc = "lengths" =>
       \A i \in heap_max + 1 .. HEAP_SIZE - 1 : \E j \in heap_max .. i - 1 : heap[j] = dl[heap[i]]

(* Exactly the symbols that occur have a code, and a forced one when there *)
(* are fewer than two; none is longer than it may be, and together they    *)
(* leave no bits unused (deflate_stream.ipp:131-133, 809-823).             *)
CodeIsComplete ==
  Done =>
    /\ {n \in Symbols : freq[n] > 0} \subseteq Coded
    /\ Cardinality(Coded) = Larger(2, Cardinality({n \in Symbols : freq[n] > 0}))
    /\ \A n \in Coded : dl[n] <= MaxLength /\ n <= max_code
    /\ MapThenSumSet(LAMBDA n : 2 ^ (MaxLength - dl[n]), Coded) = 2 ^ MaxLength

(* No code begins with another one, in the order the bits are sent         *)
(* (deflate_stream.ipp:126-141).                                           *)
CodesApart ==
  Done => \A n, m \in Coded : n # m /\ dl[n] <= dl[m] => tree_fc[m] % 2 ^ dl[n] # tree_fc[n]

(* What was added to opt_len_ is what the block's symbols will take with   *)
(* these codes: stored, static or own codes are chosen by it               *)
(* (deflate_stream.ipp:802, 840, 896).                                     *)
CostIsExact ==
  Done => opt_len = MapThenSumSet(LAMBDA n : freq[n] * (dl[n] + Extra[n]), Symbols)

(* A more frequent symbol has no longer code, after the lengths were cut   *)
(* too (deflate_stream.ipp:825-845).                                       *)
FrequentShorter ==
  Done => \A n, m \in Coded : freq[n] > freq[m] => dl[n] <= dl[m]

---------------------------------------------------------------------------
(***************************************************************************)
(* How the code lengths of a block's two trees are sent and received:      *)
(* deflate_stream's scan_tree() counts what send_tree() will send, equal   *)
(* lengths in a row are sent as repeats, and inflate_stream puts the       *)
(* repeats out again.  The lengths of the codes for all that go before, in *)
(* an order that has the rare ones last, as many as there are.             *)
(*                                                                         *)
(* The numbers are those of the code.  The codes themselves are left out:  *)
(* a symbol is sent as itself, with its extra bits.                        *)
(***************************************************************************)

CONSTANTS
  LitLengths, DistLengths  (* lengths of the codes of the two trees         *)

VARIABLES
  lengths_pc,
  trees,         (* the literal and the distance tree's lengths             *)
  lengths_fc,    (* bl_tree_[].fc                                           *)
  blcodes,       (* how many lengths of bit length codes are sent           *)
  lengths_sent,  (* symbols and extra bits                                  *)
  lens, read     (* the reader: lens_, and how many symbols it has read     *)

lengths_vars == <<lengths_pc, trees, lengths_fc, blcodes, lengths_sent, lens, read>>

REP_3_6      == 16
REPZ_3_10    == 17
REPZ_11_138  == 18
blCodes      == 19
bl_order     == <<16, 17, 18, 0, 8, 7, 9, 6, 10, 5, 11, 4, 12, 3, 13, 2, 14, 1, 15>>
extra_blbits == [c \in 0 .. 18 |-> IF c = 16 THEN 2 ELSE IF c = 17 THEN 3 ELSE IF c = 18 THEN 7 ELSE 0]

LengthsInit ==
  /\ lengths_pc = "scan"
  /\ trees \in LitLengths \X DistLengths
  /\ lengths_fc = [c \in 0 .. blCodes - 1 |-> 0]
  /\ blcodes = 0 /\ lengths_sent = <<>> /\ lens = <<>> /\ read = 0

(* The length after the last one is none that there is.                    *)
Guard == 65535

(* How long a run may be, and how long it must be to be sent as a repeat.  *)
Limits(cur, next) ==
  IF next = 0 THEN [max |-> 138, min |-> 3]
  ELSE IF cur = next THEN [max |-> 6, min |-> 3]
  ELSE [max |-> 7, min |-> 4]

(* The loop of scan_tree() and of send_tree(): the runs from n on, each    *)
(* with the length before it.  A run ends where the next length is another *)
(* one, or where it is as long as it may be.                               *)
At(tree, n) == IF n <= Len(tree) THEN tree[n] ELSE Guard
RECURSIVE RunsFrom(_, _, _, _)
RunsFrom(tree, n, prev, lim) ==
  IF n > Len(tree) THEN <<>>
  ELSE LET cur  == tree[n]
           last == Min({i \in n .. Len(tree) : At(tree, i + 1) # cur \/ i - n + 1 = lim.max})
       IN  <<[len |-> cur, count |-> last - n + 1, prev |-> prev,
              repeat |-> last - n + 1 >= lim.min]>>
             \o RunsFrom(tree, last + 1, cur, Limits(cur, At(tree, last + 1)))

Runs(tree) == RunsFrom(tree, 1, -1, Limits(-1, tree[1]))

Repeated(c, n) == [i \in 1 .. n |-> c]
Counted(f, c, n) == [f EXCEPT ![c] = @ + n]

scan_run(f, r) ==
  IF ~r.repeat THEN Counted(f, r.len, r.count)
  ELSE IF r.len # 0 THEN Counted(IF r.len # r.prev THEN Counted(f, r.len, 1) ELSE f, REP_3_6, 1)
  ELSE IF r.count <= 10 THEN Counted(f, REPZ_3_10, 1)
  ELSE Counted(f, REPZ_11_138, 1)

scan_tree ==
  /\ lengths_pc = "scan"
  /\ lengths_fc' = FoldLeft(scan_run, FoldLeft(scan_run, lengths_fc, Runs(trees[1])), Runs(trees[2]))
  /\ lengths_pc' = "count"
  /\ UNCHANGED <<trees, blcodes, lengths_sent, lens, read>>

(* Which bit lengths have a code: build_tree() gives one to all that occur.*)
HasCode(c) == lengths_fc[c] # 0

LastUsed == Max({3} \cup {i \in 0 .. blCodes - 1 : HasCode(bl_order[i + 1])})

build_bl_tree ==
  /\ lengths_pc = "count"
  /\ blcodes' = LastUsed + 1
  /\ lengths_pc' = "send"
  /\ UNCHANGED <<trees, lengths_fc, lengths_sent, lens, read>>

Plain(c) == [code |-> c, extra |-> 0]

(* send_tree(): what a run is sent as.                                     *)
send_run(r) ==
  IF ~r.repeat THEN Repeated(Plain(r.len), r.count)
  ELSE IF r.len # 0
    THEN IF r.len # r.prev
           THEN <<Plain(r.len), [code |-> REP_3_6, extra |-> r.count - 1 - 3]>>
           ELSE <<[code |-> REP_3_6, extra |-> r.count - 3]>>
  ELSE IF r.count <= 10 THEN <<[code |-> REPZ_3_10, extra |-> r.count - 3]>>
  ELSE <<[code |-> REPZ_11_138, extra |-> r.count - 11]>>

SentAs(tree) == FoldLeft(LAMBDA s, r : s \o send_run(r), <<>>, Runs(tree))

send_all_trees ==
  /\ lengths_pc = "send"
  /\ lengths_sent' = SentAs(trees[1]) \o SentAs(trees[2])
  /\ lengths_pc' = "read"
  /\ UNCHANGED <<trees, lengths_fc, blcodes, lens, read>>

Total == Len(trees[1]) + Len(trees[2])
Copied(c, extra) == IF c = REPZ_11_138 THEN extra + 11 ELSE extra + 3

(* The reader's CODELENS: one symbol, until there are enough lengths.      *)
CodeLens ==
  /\ lengths_pc = "read" /\ read < Len(lengths_sent)
  /\ LET s    == lengths_sent[read + 1]
         copy == Copied(s.code, s.extra)
         len  == IF s.code = REP_3_6 THEN lens[Len(lens)] ELSE 0
     IN  IF s.code < 16
           THEN lens' = Append(lens, s.code) /\ UNCHANGED lengths_pc
           ELSE IF (s.code = REP_3_6 /\ lens = <<>>) \/ Len(lens) + copy > Total
             THEN lengths_pc' = "refused" /\ UNCHANGED lens
             ELSE lens' = lens \o Repeated(len, copy) /\ UNCHANGED lengths_pc
  /\ read' = read + 1
  /\ UNCHANGED <<trees, lengths_fc, blcodes, lengths_sent>>

LengthsNext == scan_tree \/ build_bl_tree \/ send_all_trees \/ CodeLens
LengthsSpec == LengthsInit /\ [][LengthsNext]_lengths_vars

------------------------------------------------------------------------------
(* The reader never refuses what the writer sends, it has the lengths so   *)
(* far right, and all of them when it has read everything                  *)
(* (deflate_stream.ipp:1036-1090, inflate_stream.ipp:267-319).             *)
LengthsArrive ==
  /\ lengths_pc # "refused"
  /\ IsPrefix(lens, trees[1] \o trees[2])
  /\ lengths_pc = "read" /\ read = Len(lengths_sent) => Len(lens) = Total

(* Every symbol is sent as often as it was counted: the codes are made for *)
(* the counts, and a symbol that was not counted has none                  *)
(* (deflate_stream.ipp:968-1009, 1036-1090).                               *)
CountedIsSent ==
  lengths_pc = "read" /\ read = 0 => \A c \in 0 .. blCodes - 1 : lengths_fc[c] = Cardinality({i \in DOMAIN lengths_sent : lengths_sent[i].code = c})

(* The extra bits have room for every repeat (deflate_stream.ipp:1059).    *)
RepeatsFit == read = 0 => \A i \in DOMAIN lengths_sent : lengths_sent[i].extra \in 0 .. 2 ^ extra_blbits[lengths_sent[i].code] - 1

(* The code length of every symbol that is sent is among the ones that go  *)
(* before, of which there are no fewer than four                           *)
(* (deflate_stream.ipp:1112-1120, inflate_stream.ipp:240-248).             *)
CodesGoBefore ==
  lengths_pc = "read" /\ read = 0 =>
    /\ blcodes \in 4 .. blCodes
    /\ \A i \in DOMAIN lengths_sent : \E rank \in 1 .. blcodes : bl_order[rank] = lengths_sent[i].code

---------------------------------------------------------------------------
(***************************************************************************)
(* The bits of a compressed stream: deflate_stream collects them in 16     *)
(* bits and puts them out as bytes, inflate_stream's bitstream takes the   *)
(* bytes into 32 bits and takes the values off, as far as the bytes reach. *)
(* The writer may be told to put out its whole bytes or to end at a byte,  *)
(* and the caller may put in bits of its own; the reader gives back the    *)
(* whole bytes it did not use when a call ends.                            *)
(*                                                                         *)
(* The widths are those of the code; bits that do not overlap are added.   *)
(***************************************************************************)

CONSTANTS
  BitsLengths,  (* of the values sent                                       *)
  Primes,       (* of the values put in by the caller                       *)
  MaxSends      (* bound                                                    *)

VARIABLES
  bi,             (* the writer: bi_buf_ and bi_valid_, and the bytes put out *)
  v, n, taken,    (* the reader: v_ and n_, and how many bytes it has taken *)
  bits_sent, got  (* history: what was sent, and what was read              *)

bits_vars == <<bi, v, n, taken, bits_sent, got>>

Buf_size == 16
BitsAssumption ==
  BitsLengths \subseteq 1 .. Buf_size /\ Primes \subseteq 1 .. Buf_size /\ MaxSends \in Nat

Low(x, b)    == x % 2 ^ b
put_short(w) == <<w % 256, w \div 256>>
UpToByte     == "byte"

(* Values that show a bit at the wrong place.                              *)
ValuesOf(l) == {1, 2 ^ (l - 1), 2 ^ l - 1}

BitsInit ==
  /\ bi = [buf |-> 0, valid |-> 0, out |-> <<>>]
  /\ v = 0 /\ n = 0 /\ taken = 0
  /\ bits_sent = <<>> /\ got = <<>>

send_bits(w, x, l) ==
  IF w.valid > Buf_size - l
    THEN [buf   |-> x \div 2 ^ (Buf_size - w.valid),
          valid |-> w.valid + l - Buf_size,
          out   |-> w.out \o put_short(w.buf + Low(x, Buf_size - w.valid) * 2 ^ w.valid)]
    ELSE [w EXCEPT !.buf = @ + x * 2 ^ w.valid, !.valid = @ + l]

bi_flush(w) ==
  IF w.valid = Buf_size
    THEN [buf |-> 0, valid |-> 0, out |-> w.out \o put_short(w.buf)]
  ELSE IF w.valid >= 8
    THEN [buf |-> w.buf \div 256, valid |-> w.valid - 8, out |-> Append(w.out, w.buf % 256)]
  ELSE w

bi_windup(w) ==
  [buf |-> 0, valid |-> 0,
   out |-> w.out \o (IF w.valid > 8 THEN put_short(w.buf)
                     ELSE IF w.valid > 0 THEN <<w.buf>> ELSE <<>>)]

(* doPrime(): as many bits at a time as there is room for.                 *)
RECURSIVE doPrime(_, _, _)
doPrime(w, x, l) ==
  LET put  == IF Buf_size - w.valid > l THEN l ELSE Buf_size - w.valid
      next == bi_flush([w EXCEPT !.buf = @ + Low(x, put) * 2 ^ w.valid, !.valid = @ + put])
  IN  IF put = l THEN next ELSE doPrime(next, x \div 2 ^ put, l - put)

(* What the writer is told to do.                                          *)
Writes(next, what) ==
  /\ Len(bits_sent) < MaxSends
  /\ bi' = next
  /\ bits_sent' = Append(bits_sent, what)
  /\ UNCHANGED <<v, n, taken, got>>

Send   == \E l \in BitsLengths : \E x \in ValuesOf(l) : Writes(send_bits(bi, x, l), <<l, x>>)
Prime  == \E l \in Primes : \E x \in ValuesOf(l) : Writes(doPrime(bi, x, l), <<l, x>>)
Windup == Writes(bi_windup(bi), <<UpToByte>>)

(* bi_flush() for a flush: nothing is added.                               *)
Flush ==
  /\ bi_flush(bi) # bi
  /\ bi' = bi_flush(bi)
  /\ UNCHANGED <<v, n, taken, bits_sent, got>>

(* Wrong: a byte is taken while the value is there.                        *)
FillsGreedy(l) ==
  LET need == (l - n + 8) \div 8
      has  == Len(bi.out) - taken
  IN  IF need < has THEN need ELSE has

(* fill(): how many bytes are taken for a value of l bits.                 *)
Fills(l) ==
  LET need == IF l <= n THEN 0 ELSE (l - n + 7) \div 8
      has  == Len(bi.out) - taken
  IN  IF need < has THEN need ELSE has

Bytes(k) ==
  FoldLeft(LAMBDA sum, i : sum + bi.out[taken + i] * 2 ^ (8 * (i - 1)), 0, [i \in 1 .. k |-> i])

(* The next value is one of bits: fill(), and read() when there is enough. *)
Take ==
  /\ Len(got) < Len(bits_sent) /\ bits_sent[Len(got) + 1] # <<UpToByte>>
  /\ LET l == bits_sent[Len(got) + 1][1]
         k == Fills(l)
         w == v + Bytes(k) * 2 ^ n
     IN  /\ taken' = taken + k
         /\ IF n + 8 * k >= l
              THEN /\ v' = w \div 2 ^ l
                   /\ n' = n + 8 * k - l
                   /\ got' = Append(got, <<l, Low(w, l)>>)
              ELSE v' = w /\ n' = n + 8 * k /\ UNCHANGED got
  /\ UNCHANGED <<bi, bits_sent>>

(* The next thing is at a byte: flush_byte().                              *)
flush_byte ==
  /\ Len(got) < Len(bits_sent) /\ bits_sent[Len(got) + 1] = <<UpToByte>>
  /\ v' = v \div 2 ^ (n % 8) /\ n' = n - (n % 8)
  /\ got' = Append(got, <<UpToByte>>)
  /\ UNCHANGED <<bi, taken, bits_sent>>

(* rewind(): whole bytes go back to the input.                             *)
rewind ==
  /\ n >= 8
  /\ taken' = taken - n \div 8
  /\ n' = n % 8 /\ v' = Low(v, n % 8)
  /\ UNCHANGED <<bi, bits_sent, got>>

BitsNext == Send \/ Prime \/ Windup \/ Flush \/ Take \/ flush_byte \/ rewind
BitsSpec == BitsInit /\ [][BitsNext]_bits_vars

------------------------------------------------------------------------------
(* No bit is set beyond the ones that count, on either side: what is put   *)
(* next does not overlap what is there (deflate_stream.hpp:456-471,        *)
(* bitstream.hpp:126-139), and 32 bits hold what fill() takes for a value. *)
NoBitsBeyond ==
  /\ bi.valid \in 0 .. Buf_size /\ bi.buf \in 0 .. 2 ^ bi.valid - 1
  /\ n \in 0 .. 31 /\ v \in 0 .. 2 ^ n - 1

(* What is read is what was sent, in its order and at its length, with the *)
(* caller's bits in their place, however far the bytes had come when the   *)
(* reader asked (deflate_stream.ipp:558-580, bitstream.hpp:170-196).       *)
ReadIsSent == IsPrefix(got, bits_sent)

(* Everything but the last seven bits can be read after a flush, and all   *)
(* of it after the stream went to a byte: nothing stays with the writer    *)
(* (deflate_stream.ipp:1250-1282).                                         *)
SentBits ==
  FoldLeft(LAMBDA sum, e : IF e = <<UpToByte>> THEN 8 * ((sum + 7) \div 8) ELSE sum + e[1], 0, bits_sent)
NothingHeld ==
  [][ /\ Flush => SentBits - 8 * Len(bi'.out) \in 0 .. 7
      /\ Windup => 8 * Len(bi'.out) = SentBits' ]_bits_vars

(* The reader takes no byte that the value it is asked for does not need   *)
(* (bitstream.hpp:126-139): fewer than eight bits are left over.           *)
TakesNeeded == [][ Take /\ Len(got') > Len(got) => n' < 8 \/ n' < n ]_bits_vars

---------------------------------------------------------------------------
(***************************************************************************)
(* inflate_stream::inflate_table(): from the lengths of the codes of a     *)
(* block to a table that is looked up with the next bits of the input: a   *)
(* root table for the first bits, and tables under it for longer codes.    *)
(*                                                                         *)
(* Codes are at most MaxBits long (15 in the code) and the root table is   *)
(* asked for RootBits (7, 9 or 6).  What a symbol stands for is left out.  *)
(***************************************************************************)

CONSTANTS Codes, MaxBits, RootBits
TableAssumption == Codes \in Nat \ {0} /\ MaxBits \in Nat \ {0} /\ RootBits \in 1 .. MaxBits

VARIABLES
  pc,
  type,              (* "codes", or "lens" and "dists"                      *)
  table_lens,        (* of the codes of all symbols                         *)
  count,             (* of codes of each length that are left               *)
  sym,               (* of the sorted symbols the one that is next          *)
  huff, len,         (* its code, first bit lowest, and length              *)
  root, curr, drop,  (* bits of the root table, of this table, above it     *)
  next,              (* where this table begins                             *)
  low,               (* the root entry this table hangs at                  *)
  used,              (* entries taken so far                                *)
  table

table_vars == <<pc, type, table_lens, count, sym, huff, len, root, curr, drop, next, low, used, table>>

TableSymbols == 0 .. Codes - 1
Lengths == 1 .. MaxBits
Unset   == [op |-> "unset", bits |-> 0, val |-> 0]
Invalid == [op |-> "invalid", bits |-> 1, val |-> 0]
Most(f)  == IF \A l \in Lengths : f[l] = 0 THEN 0 ELSE Max({l \in Lengths : f[l] # 0})
Least(f) == Min({l \in Lengths : f[l] # 0})

(* The symbols that have a code, the short ones first.                     *)
work ==
  SetToSortSeq({s \in TableSymbols : table_lens[s] # 0},
               LAMBDA a, b : table_lens[a] < table_lens[b] \/ (table_lens[a] = table_lens[b] /\ a < b))

TableInit ==
  /\ pc = "begin"
  /\ type \in {"codes", "lens"}
  /\ table_lens \in [TableSymbols -> 0 .. MaxBits]
  /\ count = [l \in Lengths |-> Cardinality({s \in TableSymbols : table_lens[s] = l})]
  /\ sym = 1 /\ huff = 0 /\ len = 0 /\ root = RootBits /\ curr = 0 /\ drop = 0
  /\ next = 0 /\ low = -1 /\ used = 0 /\ table = <<>>

(* What is left of the codes of each length when the shorter ones are      *)
(* taken out.                                                              *)
left ==
  LET f[l \in 0 .. MaxBits] == IF l = 0 THEN 1 ELSE 2 * f[l - 1] - count[l]
  IN  f

Refuses ==
  \/ \E l \in Lengths : left[l] < 0
  \/ left[MaxBits] > 0 /\ (type = "codes" \/ Most(count) # 1)

Begin ==
  /\ pc = "begin"
  /\ IF Most(count) = 0
       THEN /\ table' = <<Invalid, Invalid>> /\ root' = 1 /\ pc' = "done"
            /\ UNCHANGED <<len, curr, used>>
     ELSE IF Refuses
       THEN pc' = "refused" /\ UNCHANGED <<len, root, curr, used, table>>
     ELSE LET most  == IF RootBits > Most(count) THEN Most(count) ELSE RootBits
              r     == IF most < Least(count) THEN Least(count) ELSE most
          IN  /\ root' = r /\ curr' = r /\ used' = 2 ^ r
              /\ len' = Least(count)
              /\ table' = [i \in 1 .. 2 ^ r |-> Unset]
              /\ pc' = "enter"
  /\ UNCHANGED <<type, table_lens, count, sym, huff, drop, next, low>>

(* The code is put in wherever its bits are the lower ones of the index.   *)
Entered ==
  [i \in DOMAIN table |->
     IF /\ i - 1 \in next .. next + 2 ^ curr - 1
        /\ (i - 1 - next) % 2 ^ (len - drop) = huff \div 2 ^ drop
       THEN [op |-> "symbol", bits |-> len - drop, val |-> work[sym]]
       ELSE table[i]]

(* The next code: counted up from the first bit, which is the lowest.      *)
Incremented(h, l) ==
  LET zeros == {b \in 0 .. l - 1 : (h \div 2 ^ b) % 2 = 0}
  IN  IF zeros = {} THEN 0 ELSE (h % 2 ^ Max(zeros)) + 2 ^ Max(zeros)

(* How many bits a table under the root needs for the codes that are left. *)
SubBits(c, l, d) ==
  LET free[b \in l - d - 1 .. MaxBits] ==
        IF b = l - d - 1 THEN 2 ^ b ELSE 2 * free[b - 1] - (IF b + d \in Lengths THEN c[b + d] ELSE 0)
  IN  Min({b \in l - d .. MaxBits : b + d >= Most(c) \/ free[b] <= 0})

LastOf(c) == c[len] = 0 /\ len = Most([l \in Lengths |-> IF \E s \in TableSymbols : table_lens[s] = l THEN 1 ELSE 0])

Enter ==
  /\ pc = "enter"
  /\ LET h   == Incremented(huff, len)
         c   == [count EXCEPT ![len] = @ - 1]
         l   == IF c[len] = 0 THEN table_lens[work[sym + 1]] ELSE len
         sub == l > root /\ h % 2 ^ root # low
         d   == IF drop = 0 THEN root ELSE drop
         b   == SubBits(c, l, d)
     IN  /\ huff' = h /\ count' = c
         /\ IF LastOf(c)
              THEN /\ pc' = "finish" /\ table' = Entered
                   /\ UNCHANGED <<sym, len, curr, drop, next, low, used>>
            ELSE IF sub
              THEN /\ drop' = d /\ next' = next + 2 ^ curr /\ curr' = b
                   /\ used' = used + 2 ^ b
                   /\ low' = h % 2 ^ root
                   /\ table' = [ Entered \o [i \in 1 .. 2 ^ b |-> Unset]
                                   EXCEPT ![(h % 2 ^ root) + 1] =
                                     [op |-> "link", bits |-> root, val |-> next + 2 ^ curr, more |-> b] ]
                   /\ len' = l /\ sym' = sym + 1 /\ UNCHANGED pc
            ELSE /\ table' = Entered /\ len' = l /\ sym' = sym + 1
                 /\ UNCHANGED <<pc, curr, drop, next, low, used>>
  /\ UNCHANGED <<type, table_lens, root>>

(* Only one code of one bit may be incomplete: the other bit is invalid.   *)
Finish ==
  /\ pc = "finish"
  /\ table' = IF huff # 0 THEN [table EXCEPT ![next + huff + 1] = [Invalid EXCEPT !.bits = len - drop]]
              ELSE table
  /\ pc' = "done"
  /\ UNCHANGED <<type, table_lens, count, sym, huff, len, root, curr, drop, next, low, used>>

Next == Begin \/ Enter \/ Finish
TableSpec == TableInit /\ [][Next]_table_vars

------------------------------------------------------------------------------
(* The code of each symbol as RFC 1951 has it, its first bit lowest: the   *)
(* sum over the codes before it of what they take of the whole.            *)
Before(s) == {t \in TableSymbols : table_lens[t] # 0 /\ (table_lens[t] < table_lens[s] \/ (table_lens[t] = table_lens[s] /\ t < s))}
Reversed(c, l) == MapThenSumSet(LAMBDA b : ((c \div 2 ^ b) % 2) * 2 ^ (l - 1 - b), 0 .. l - 1)
CodeOf(s) ==
  Reversed(MapThenSumSet(LAMBDA t : 2 ^ (MaxBits - table_lens[t]), Before(s)) \div 2 ^ (MaxBits - table_lens[s]), table_lens[s])

(* What the reader finds for the next bits of the input                    *)
(* (inflate_stream.ipp:373-388).                                           *)
Lookup(bits) ==
  LET here == table[(bits % 2 ^ root) + 1]
  IN  IF here.op = "link"
        THEN LET more == table[here.val + ((bits \div 2 ^ root) % 2 ^ here.more) + 1]
             IN  [op |-> more.op, val |-> more.val, bits |-> here.bits + more.bits]
        ELSE [op |-> here.op, val |-> here.val, bits |-> here.bits]

Inputs == 0 .. 2 ^ MaxBits - 1
StartsWith(bits, s) == bits % 2 ^ table_lens[s] = CodeOf(s)

(* Whatever the input, what is found is the symbol whose code it begins    *)
(* with, and the length of that code; when it begins with none, an invalid *)
(* code, and never an entry nobody wrote                                   *)
(* (inflate_stream.ipp:760-843).                                           *)
FindsSymbol ==
  pc = "done" =>
    \A bits \in Inputs :
      LET found == Lookup(bits)
      IN  IF \E s \in TableSymbols : table_lens[s] # 0 /\ StartsWith(bits, s)
            THEN /\ found.op = "symbol"
                 /\ StartsWith(bits, found.val) /\ found.bits = table_lens[found.val]
            ELSE found.op = "invalid" /\ found.bits = 1

(* Lengths are refused when some input begins with two codes, or with none *)
(* where that is not allowed (inflate_stream.ipp:661-677).                 *)
Taken == MapThenSumSet(LAMBDA s : IF table_lens[s] = 0 THEN 0 ELSE 2 ^ (MaxBits - table_lens[s]), TableSymbols)
RefusedIsBad ==
  /\ pc = "refused" => Taken # 2 ^ MaxBits
  /\ pc = "done" =>
       \/ Taken = 2 ^ MaxBits
       \/ Taken = 0
       \/ type = "lens" /\ \A s \in TableSymbols : table_lens[s] \in {0, 1}

(* No entry is written behind what was taken, and none that was taken is   *)
(* left over: the space is what kEnough was computed for                   *)
(* (inflate_stream.ipp:811-837).                                           *)
AllUsed ==
  pc = "done" /\ used > 0 =>
    /\ Len(table) = used
    /\ \A i \in DOMAIN table : table[i].op # "unset"

---------------------------------------------------------------------------
(***************************************************************************)
(* The tables that turn the length and the distance of a match into a code *)
(* and extra bits, and back: deflate_stream::get_lut() makes the ones,     *)
(* inflate_stream::inflate_table() has the others written down.            *)
(*                                                                         *)
(* A state is a length or a distance that is coded; the next one is coded  *)
(* after it.  The numbers are those of the code.                           *)
(***************************************************************************)

CONSTANT Distances  (* that are coded                                      *)
DistancesAssumption == Distances \subseteq 1 .. 32768 /\ 1 \in Distances

VARIABLES kind, value

tables_vars == <<kind, value>>

MinMatch    == 3
MaxMatch    == 258
LengthCodes == 29
DCodes      == 30

extra_lbits == <<0,0,0,0,0,0,0,0,1,1,1,1,2,2,2,2,3,3,3,3,4,4,4,4,5,5,5,5,0>>
extra_dbits == <<0,0,0,0,1,1,2,2,3,3,4,4,5,5,6,6,7,7,8,8,9,9,10,10,11,11,12,12,13,13>>

(* base_length: codes from 0 on, each for a run of lengths; the last code  *)
(* is left out.                                                            *)
base_length ==
  LET base[c \in 0 .. LengthCodes - 1] ==
        IF c = 0 \/ c = LengthCodes - 1 THEN 0 ELSE base[c - 1] + 2 ^ extra_lbits[c]
  IN  base

length_code ==
  [length \in 0 .. 255 |->
     IF length = 255 THEN LengthCodes - 1
     ELSE CHOOSE c \in 0 .. LengthCodes - 2 : base_length[c] <= length /\ length < base_length[c] + 2 ^ extra_lbits[c + 1]]

base_dist ==
  LET base[c \in 0 .. DCodes - 1] == IF c = 0 THEN 0 ELSE base[c - 1] + 2 ^ extra_dbits[c]
  IN  base

(* dist_code: one entry for each distance below 256, one for each 128 of   *)
(* the others.                                                             *)
dist_code ==
  [i \in 0 .. 511 |->
     IF i < 256
       THEN CHOOSE c \in 0 .. 15 : base_dist[c] <= i /\ i < base_dist[c] + 2 ^ extra_dbits[c + 1]
       ELSE IF i < 258 THEN 0
       ELSE CHOOSE c \in 16 .. DCodes - 1 :
              LET first == base_dist[c] \div 128
              IN  first <= i - 256 /\ i - 256 < first + 2 ^ (extra_dbits[c + 1] - 7)]

d_code(dist) == IF dist < 256 THEN dist_code[dist] ELSE dist_code[256 + dist \div 128]

(* compress_block(): the code and the extra bits of a match.               *)
SentLength(length) ==
  LET lc   == length - MinMatch
      code == length_code[lc]
      x    == extra_lbits[code + 1]
  IN  [code |-> code, extra |-> x, bits |-> IF x = 0 THEN 0 ELSE lc - base_length[code]]

SentDistance(d) ==
  LET code == d_code(d - 1)
      x    == extra_dbits[code + 1]
  IN  [code |-> code, extra |-> x, bits |-> IF x = 0 THEN 0 ELSE d - 1 - base_dist[code]]

(* inflate_table(): the base of each code, and how many bits are added.    *)
lbase == <<3, 4, 5, 6, 7, 8, 9, 10, 11, 13, 15, 17, 19, 23, 27, 31,
           35, 43, 51, 59, 67, 83, 99, 115, 131, 163, 195, 227, 258, 0, 0>>
lext  == <<16, 16, 16, 16, 16, 16, 16, 16, 17, 17, 17, 17, 18, 18, 18, 18,
           19, 19, 19, 19, 20, 20, 20, 20, 21, 21, 21, 21, 16, 77, 202>>
dbase == <<1, 2, 3, 4, 5, 7, 9, 13, 17, 25, 33, 49, 65, 97, 129, 193,
           257, 385, 513, 769, 1025, 1537, 2049, 3073, 4097, 6145,
           8193, 12289, 16385, 24577, 0, 0>>
dext  == <<16, 16, 16, 16, 17, 17, 18, 18, 19, 19, 20, 20, 21, 21, 22, 22,
           23, 23, 24, 24, 25, 25, 26, 26, 27, 27,
           28, 28, 29, 29, 64, 64>>

Read(base, ext, s) == [value |-> base[s.code + 1] + s.bits, extra |-> ext[s.code + 1] % 16,
                       valid |-> (ext[s.code + 1] \div 16) % 2 = 1 /\ ext[s.code + 1] < 64]

TablesInit == kind \in {"length", "distance"} /\ value = IF kind = "length" THEN MinMatch ELSE 1

CodeNext ==
  /\ LET rest == {x \in IF kind = "length" THEN MinMatch .. MaxMatch ELSE Distances : x > value}
     IN  rest # {} /\ value' = Min(rest)
  /\ UNCHANGED kind

TablesSpec == TablesInit /\ [][CodeNext]_tables_vars

------------------------------------------------------------------------------
Sent == IF kind = "length" THEN SentLength(value) ELSE SentDistance(value)
Got  == IF kind = "length" THEN Read(lbase, lext, Sent) ELSE Read(dbase, dext, Sent)

(* Each length and each distance has a code, its extra bits have room for  *)
(* the rest, and the reader's tables give the same number back             *)
(* (deflate_stream.ipp:156-193, inflate_stream.ipp:579-598).               *)
CodesAgree ==
  /\ Sent.bits \in 0 .. 2 ^ Sent.extra - 1
  /\ Got = [value |-> value, extra |-> Sent.extra, valid |-> TRUE]

(* Of the codes for a number the one with the fewest bits is taken: the    *)
(* longest match has a code of its own.                                    *)
FewestBits ==
  kind = "length" =>
    \A c \in 1 .. LengthCodes :
      lbase[c] <= value /\ value < lbase[c] + 2 ^ (lext[c] % 16) => Sent.extra <= lext[c] % 16
=============================================================================
