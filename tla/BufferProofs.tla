---------------------------- MODULE BufferProofs ----------------------------
(***************************************************************************)
(* static_buffer and flat_buffer implement ByteQueue, for every capacity,  *)
(* limit of the allocator and set of sizes.  Of static_buffer the offsets  *)
(* are turned into the circular order first; after that each call is an    *)
(* equation of sequences.  flat_buffer, further down, moves or replaces    *)
(* its block: what that leaves readable comes first.                       *)
(***************************************************************************)
EXTENDS StaticBuffer, SequenceTheorems, TLAPS

(* The place of the i-th byte from offset a.                               *)
At(a, i) == IF a + i - 1 < Capacity THEN a + i - 1 ELSE a + i - 1 - Capacity

(* A sum of two offsets wraps at most once.                                *)
LEMMA ModIsWrap ==
  ASSUME NEW c \in Nat \ {0}, NEW a \in Nat, a < 2 * c
  PROVE  a % c = IF a < c THEN a ELSE a - c
OBVIOUS

LEMMA Cap == Capacity \in Nat \ {0} /\ Sizes \subseteq Nat
BY StaticBufferAssumption

LEMMA ModCap ==
  \A a \in Nat : a < 2 * Capacity => a % Capacity = IF a < Capacity THEN a ELSE a - Capacity
BY Cap, ModIsWrap

LEMMA InBlock == \A a : a \in Block <=> a \in Nat /\ a < Capacity
BY Cap DEF Block

LEMMA WrappedIsAt ==
  ASSUME NEW a \in Block, NEW n \in Nat, n <= Capacity
  PROVE  Wrapped(a, n) = [i \in 1 .. n |-> At(a, i)]
BY StaticBufferAssumption DEF Block, Wrapped, At

LEMMA AtInBlock ==
  ASSUME NEW a \in Block, NEW i \in 1 .. Capacity
  PROVE  At(a, i) \in Block
BY Cap, InBlock DEF At

LEMMA AtInjective ==
  ASSUME NEW a \in Block, NEW i \in 1 .. Capacity, NEW k \in 1 .. Capacity,
         At(a, i) = At(a, k)
  PROVE  i = k
BY Cap, InBlock DEF At

(* The invariant: no byte is outside of the block or both readable and     *)
(* writable.                                                               *)
IInv == TypeOK /\ WithinCapacity

LEMMA SliceIsAt ==
  ASSUME NEW a \in Block, NEW n \in Nat, n <= Capacity
  PROVE  Slice(a, n) = [i \in 1 .. n |-> mem[At(a, i)]]
<1>1. Wrapped(a, n) = [i \in 1 .. n |-> At(a, i)]
  BY WrappedIsAt
<1> QED BY <1>1 DEF Slice

(* The caller's bytes are where prepare() said, the others as they were.   *)
LEMMA WriteThere ==
  ASSUME NEW a \in Block, NEW n \in Nat, n <= Capacity,
         NEW i \in 1 .. n
  PROVE  Write(a, n)[At(a, i)] = fed + i
<1>1. Wrapped(a, n) = [k \in 1 .. n |-> At(a, k)]
  BY WrappedIsAt
<1>2. At(a, i) \in Block
  BY Cap, AtInBlock
<1>3. \A k \in 1 .. n : Wrapped(a, n)[k] = At(a, i) => k = i
  BY <1>1, Cap, AtInjective
<1>4. Wrapped(a, n)[i] = At(a, i)
  BY <1>1
<1>5. (CHOOSE k \in 1 .. n : Wrapped(a, n)[k] = At(a, i)) = i
  BY <1>3, <1>4
<1> QED BY <1>2, <1>4, <1>5 DEF Write

LEMMA WriteElsewhere ==
  ASSUME NEW a \in Block, NEW n \in Nat, n <= Capacity,
         NEW j \in Block, \A i \in 1 .. n : At(a, i) # j
  PROVE  Write(a, n)[j] = mem[j]
<1>1. Wrapped(a, n) = [k \in 1 .. n |-> At(a, k)]
  BY WrappedIsAt
<1> QED BY <1>1 DEF Write

LEMMA WriteType ==
  ASSUME TypeOK, NEW a \in Block, NEW n \in Nat, n <= Capacity
  PROVE  Write(a, n) \in [Block -> Nat]
<1>1. \A j \in Block : Write(a, n)[j] \in Nat
  <2> SUFFICES ASSUME NEW j \in Block PROVE Write(a, n)[j] \in Nat
    OBVIOUS
  <2>1. CASE \E i \in 1 .. n : At(a, i) = j
    BY <2>1, WriteThere DEF TypeOK
  <2>2. CASE \A i \in 1 .. n : At(a, i) # j
    BY <2>2, WriteElsewhere DEF TypeOK
  <2> QED BY <2>1, <2>2
<1> QED BY <1>1 DEF Write

LEMMA OutOffInBlock ==
  ASSUME TypeOK, in_size <= Capacity
  PROVE  OutOff \in Block /\ OutOff = At(in_off, in_size + 1)
<1>1. in_off + in_size < 2 * Capacity /\ in_off + in_size \in Nat
  BY Cap, InBlock DEF TypeOK
<1>2. PICK s \in Nat : s = in_off + in_size
  BY <1>1
<1>3. OutOff = s % Capacity
  BY <1>2 DEF OutOff
<1>4. s % Capacity = IF s < Capacity THEN s ELSE s - Capacity
  BY <1>1, <1>2, ModCap
<1> QED BY <1>1, <1>2, <1>3, <1>4, Cap, InBlock DEF TypeOK, At

(* What is behind the readable bytes is in the circular order from in_off. *)
LEMMA OutOffFollows ==
  ASSUME TypeOK, in_size <= Capacity, NEW i \in Nat \ {0}, in_size + i <= Capacity
  PROVE  At(OutOff, i) = At(in_off, in_size + i)
BY OutOffInBlock, Cap, InBlock DEF At, TypeOK

LEMMA WrappedOff ==
  ASSUME TypeOK, in_size <= Capacity, NEW n \in Nat, n < in_size
  PROVE  /\ (in_off + n) % Capacity \in Block
         /\ \A i \in Nat \ {0} : n + i <= in_size => At((in_off + n) % Capacity, i) = At(in_off, n + i)
<1>1. in_off + n < 2 * Capacity /\ in_off + n \in Nat
  BY Cap, InBlock DEF TypeOK
<1>2. PICK s \in Nat : s = in_off + n
  BY <1>1
<1>3. (in_off + n) % Capacity = s % Capacity
  BY <1>2
<1>4. s % Capacity = IF s < Capacity THEN s ELSE s - Capacity
  BY <1>1, <1>2, ModCap
<1> QED BY <1>1, <1>2, <1>3, <1>4, Cap, InBlock DEF TypeOK, At

------------------------------------------------------------------------------
LEMMA InitInv == Init => IInv
BY Cap, InBlock DEF Init, IInv, TypeOK, WithinCapacity

LEMMA StepInv == IInv /\ [Next]_vars => IInv'
<1> SUFFICES ASSUME IInv, [Next]_vars PROVE IInv'
  OBVIOUS
<1> USE Cap, InBlock
<1>1. CASE Clear
  BY <1>1 DEF Clear, IInv, TypeOK, WithinCapacity
<1>2. ASSUME NEW n \in Sizes, Prepare(n) PROVE IInv'
  <2>1. n \in Nat /\ n <= Capacity
    BY <1>2 DEF Prepare, IInv, TypeOK, WithinCapacity
  <2>2. OutOff \in Block
    BY OutOffInBlock DEF IInv, TypeOK, WithinCapacity
  <2>3. Write(OutOff, n) \in [Block -> Nat]
    BY <2>1, <2>2, WriteType DEF IInv
  <2>4. mem' \in [Block -> Nat]
    BY <1>2, <2>3 DEF Prepare
  <2> QED BY <1>2, <2>1, <2>4 DEF Prepare, IInv, TypeOK, WithinCapacity
<1>3. ASSUME NEW n \in Sizes, PrepareThrows(n) PROVE IInv'
  BY <1>3 DEF PrepareThrows, IInv, TypeOK, WithinCapacity
<1>4. ASSUME NEW n \in Sizes, Commit(n) PROVE IInv'
  BY <1>4 DEF Commit, Least, IInv, TypeOK, WithinCapacity
<1>5. ASSUME NEW n \in Sizes, Consume(n) PROVE IInv'
  <2>1. CASE n < in_size
    BY <1>5, <2>1, WrappedOff DEF Consume, IInv, TypeOK, WithinCapacity
  <2>2. CASE ~(n < in_size)
    BY <1>5, <2>2 DEF Consume, IInv, TypeOK, WithinCapacity
  <2> QED BY <2>1, <2>2
<1>6. ASSUME NEW n \in Sizes, CopyAssign(n) PROVE IInv'
  <2>1. n \in Nat /\ mem' \in [Block -> Nat]
    BY <1>6, WriteType DEF CopyAssign, IInv
  <2> QED BY <1>6, <2>1 DEF CopyAssign, IInv, TypeOK, WithinCapacity
<1>7. CASE UNCHANGED vars
  BY <1>7 DEF vars, IInv, TypeOK, WithinCapacity
<1> QED BY <1>1, <1>2, <1>3, <1>4, <1>5, <1>6, <1>7 DEF Next

(* The block keeps its size and the counters their range, whatever the     *)
(* caller asks for (static_buffer_base).                                   *)
THEOREM TypeCorrect == Spec => []TypeOK
<1>1. IInv => TypeOK
  BY DEF IInv
<1> QED BY InitInv, StepInv, <1>1, PTL DEF Spec

(* prepare() never hands out bytes that are readable, and the difference   *)
(* it compares with does not wrap.                                         *)
THEOREM CapacityHolds == Spec => []WithinCapacity
<1>1. IInv => WithinCapacity
  BY DEF IInv
<1> QED BY InitInv, StepInv, <1>1, PTL DEF Spec

------------------------------------------------------------------------------
(* The bytes of a block m, so that they can be spoken of before and after  *)
(* a step.                                                                 *)
SliceOf(m, a, n) == [i \in 1 .. n |-> m[Wrapped(a, n)[i]]]

LEMMA SliceOfIsSeq ==
  ASSUME NEW m \in [Block -> Nat], NEW a \in Block, NEW n \in Nat, n <= Capacity
  PROVE  /\ SliceOf(m, a, n) \in Seq(Nat)
         /\ Len(SliceOf(m, a, n)) = n
         /\ \A i \in 1 .. n : SliceOf(m, a, n)[i] = m[At(a, i)]
<1>1. SliceOf(m, a, n) = [i \in 1 .. n |-> m[At(a, i)]]
  BY WrappedIsAt DEF SliceOf
<1>2. \A i \in 1 .. n : m[At(a, i)] \in Nat
  BY Cap, AtInBlock
<1> QED BY <1>1, <1>2

LEMMA FreshIsSeq ==
  ASSUME NEW n \in Nat, fed \in Nat
  PROVE  /\ Queue!Fresh(n) \in Seq(Nat)
         /\ Len(Queue!Fresh(n)) = n
         /\ \A i \in 1 .. n : Queue!Fresh(n)[i] = fed + i
BY DEF Queue!Fresh

LEMMA SameBytes ==
  ASSUME NEW s \in Seq(Nat), NEW t \in Seq(Nat), NEW n, Len(s) = n, Len(t) = n,
         \A i \in 1 .. n : s[i] = t[i]
  PROVE  s = t
BY SeqEqual

LEMMA NothingIsEmpty ==
  ASSUME NEW m, NEW a
  PROVE  SliceOf(m, a, 0) = <<>>
BY DEF SliceOf

(* What the invariant says of the sequences of a state.                    *)
LEMMA DataIsSeq ==
  ASSUME IInv
  PROVE  /\ data = SliceOf(mem, in_off, in_size)
         /\ data \in Seq(Nat)
         /\ Len(data) = in_size
         /\ \A i \in 1 .. in_size : data[i] = mem[At(in_off, i)]
<1>1. data = SliceOf(mem, in_off, in_size)
  BY DEF data, Slice, SliceOf
<1>2. in_size <= Capacity
  BY Cap DEF IInv, TypeOK, WithinCapacity
<1> QED BY <1>1, <1>2, SliceOfIsSeq DEF IInv, TypeOK

LEMMA WritableIsSeq ==
  ASSUME IInv
  PROVE  /\ Slice(OutOff, handed) \in Seq(Nat)
         /\ Len(Slice(OutOff, handed)) = handed
         /\ \A i \in 1 .. handed : Slice(OutOff, handed)[i] = mem[At(in_off, in_size + i)]
<1>1. Slice(OutOff, handed) = SliceOf(mem, OutOff, handed)
  BY DEF Slice, SliceOf
<1>2. in_size <= Capacity /\ handed <= Capacity
  BY Cap DEF IInv, TypeOK, WithinCapacity
<1>3. OutOff \in Block
  BY <1>2, OutOffInBlock DEF IInv
<1>4. \A i \in 1 .. handed : At(OutOff, i) = At(in_off, in_size + i)
  BY <1>2, OutOffFollows, Cap DEF IInv, TypeOK, WithinCapacity
<1> QED BY <1>1, <1>2, <1>3, <1>4, SliceOfIsSeq DEF IInv, TypeOK

LEMMA ClearRefines == IInv /\ Clear => Queue!Clear
<1> SUFFICES ASSUME IInv, Clear PROVE Queue!Clear
  OBVIOUS
<1>1. data' = <<>>
  BY NothingIsEmpty DEF Clear, data, Slice, SliceOf
<1>2. Slice(OutOff, handed)' = <<>>
  BY NothingIsEmpty DEF Clear, Slice, SliceOf
<1> QED BY <1>1, <1>2 DEF Clear, Queue!Clear

LEMMA PrepareRefines ==
  ASSUME IInv, NEW n \in Sizes, Prepare(n)
  PROVE  Queue!Prepare(n)
<1>1. /\ n \in Nat /\ n <= Capacity
      /\ in_size \in Nat /\ in_size + n <= Capacity /\ in_size <= Capacity
      /\ fed \in Nat /\ in_off \in Block
  BY Cap DEF Prepare, IInv, TypeOK, WithinCapacity
<1>2. OutOff \in Block /\ \A k \in 1 .. n : At(OutOff, k) = At(in_off, in_size + k)
  BY <1>1, OutOffInBlock, OutOffFollows, Cap DEF IInv
<1>3. mem' = Write(OutOff, n) /\ mem' \in [Block -> Nat]
  BY <1>1, <1>2, WriteType DEF Prepare, IInv
<1>4. /\ data' = SliceOf(mem', in_off, in_size)
      /\ Slice(OutOff, handed)' = SliceOf(mem', OutOff, n)
  BY DEF Prepare, data, Slice, SliceOf, OutOff
<1>5. data' = data
  <2>1. \A i \in 1 .. in_size : mem'[At(in_off, i)] = mem[At(in_off, i)]
    <3> SUFFICES ASSUME NEW i \in 1 .. in_size PROVE mem'[At(in_off, i)] = mem[At(in_off, i)]
      OBVIOUS
    <3>1. i \in 1 .. Capacity /\ At(in_off, i) \in Block
      BY <1>1, AtInBlock, Cap
    <3>2. \A k \in 1 .. n : At(OutOff, k) # At(in_off, i)
      <4> SUFFICES ASSUME NEW k \in 1 .. n, At(OutOff, k) = At(in_off, i) PROVE FALSE
        OBVIOUS
      <4>1. in_size + k \in 1 .. Capacity /\ in_size + k # i
        BY <1>1, Cap
      <4> QED BY <1>1, <1>2, <3>1, <4>1, AtInjective
    <3> QED BY <1>1, <1>2, <1>3, <3>1, <3>2, WriteElsewhere
  <2>2. /\ data' \in Seq(Nat) /\ Len(data') = in_size
        /\ \A i \in 1 .. in_size : data'[i] = mem'[At(in_off, i)]
    BY <1>1, <1>3, <1>4, SliceOfIsSeq
  <2>3. \A i \in 1 .. in_size : data'[i] = data[i]
    BY <2>1, <2>2, DataIsSeq
  <2> QED BY <2>2, <2>3, DataIsSeq, SameBytes
<1>6. Slice(OutOff, handed)' = Queue!Fresh(n)
  <2>1. \A i \in 1 .. n : mem'[At(OutOff, i)] = fed + i
    BY <1>1, <1>2, <1>3, WriteThere
  <2>2. /\ Slice(OutOff, handed)' \in Seq(Nat) /\ Len(Slice(OutOff, handed)') = n
        /\ \A i \in 1 .. n : (Slice(OutOff, handed)')[i] = mem'[At(OutOff, i)]
    BY <1>1, <1>2, <1>3, <1>4, SliceOfIsSeq
  <2>3. \A i \in 1 .. n : (Slice(OutOff, handed)')[i] = Queue!Fresh(n)[i]
    BY <1>1, <2>1, <2>2, FreshIsSeq
  <2> QED BY <1>1, <2>2, <2>3, FreshIsSeq, SameBytes
<1>7. Len(data) + n <= Capacity
  BY <1>1, DataIsSeq
<1> QED BY <1>5, <1>6, <1>7 DEF Prepare, Queue!Prepare

LEMMA PrepareThrowsRefines ==
  ASSUME IInv, NEW n \in Sizes, PrepareThrows(n)
  PROVE  Queue!PrepareThrows(n)
<1>1. Len(data) + n > Capacity
  BY DataIsSeq, Cap DEF PrepareThrows, IInv, TypeOK
<1>2. data' = data /\ Slice(OutOff, handed)' = Slice(OutOff, handed)
  BY DEF PrepareThrows, data, Slice, OutOff
<1> QED BY <1>1, <1>2 DEF PrepareThrows, Queue!PrepareThrows

LEMMA CommitRefines ==
  ASSUME IInv, NEW n \in Sizes, Commit(n)
  PROVE  Queue!Commit(n)
<1> DEFINE W == Slice(OutOff, handed)
           k == Least(n, handed)
<1>1. /\ in_size \in Nat /\ handed \in Nat /\ k \in Nat /\ k <= handed
      /\ in_size + k <= Capacity /\ in_off \in Block /\ mem \in [Block -> Nat]
  BY Cap DEF IInv, TypeOK, WithinCapacity, Least
<1>2. W \in Seq(Nat) /\ Len(W) = handed
      /\ \A i \in 1 .. handed : W[i] = mem[At(in_off, in_size + i)]
  BY WritableIsSeq
<1>3. Queue!Least(n, Len(W)) = k
  BY <1>2 DEF Queue!Least, Least
<1> HIDE DEF W, k
<1>4. /\ SubSeq(W, 1, k) \in Seq(Nat) /\ Len(SubSeq(W, 1, k)) = k
      /\ \A i \in 1 .. k : SubSeq(W, 1, k)[i] = W[i]
  BY <1>1, <1>2
<1>5. data' = SliceOf(mem, in_off, in_size + k)
  BY DEF Commit, data, Slice, SliceOf, k
<1>6. /\ data' \in Seq(Nat) /\ Len(data') = in_size + k
      /\ \A i \in 1 .. in_size + k : data'[i] = mem[At(in_off, i)]
  BY <1>1, <1>5, SliceOfIsSeq
<1>7. data' = data \o SubSeq(W, 1, k)
  <2>1. /\ data \o SubSeq(W, 1, k) \in Seq(Nat)
        /\ Len(data \o SubSeq(W, 1, k)) = in_size + k
        /\ \A i \in 1 .. in_size + k : (data \o SubSeq(W, 1, k))[i] =
              IF i <= in_size THEN data[i] ELSE SubSeq(W, 1, k)[i - in_size]
    BY <1>4, DataIsSeq, ConcatProperties
  <2>2. \A i \in 1 .. in_size + k : (data \o SubSeq(W, 1, k))[i] = mem[At(in_off, i)]
    <3> SUFFICES ASSUME NEW i \in 1 .. in_size + k
                 PROVE  (data \o SubSeq(W, 1, k))[i] = mem[At(in_off, i)]
      OBVIOUS
    <3>1. CASE i <= in_size
      BY <3>1, <2>1, <1>1, DataIsSeq
    <3>2. CASE ~(i <= in_size)
      <4>1. i - in_size \in 1 .. k /\ i - in_size \in 1 .. handed /\ in_size + (i - in_size) = i
        BY <3>2, <1>1
      <4> QED BY <3>2, <4>1, <2>1, <1>2, <1>4
    <3> QED BY <3>1, <3>2
  <2>3. \A i \in 1 .. in_size + k : data'[i] = (data \o SubSeq(W, 1, k))[i]
    BY <1>6, <2>2
  <2> QED BY <1>6, <2>1, <2>3, SameBytes
<1>8. Slice(OutOff, handed)' = <<>>
  BY NothingIsEmpty DEF Commit, Slice, SliceOf
<1>9. data' = data \o SubSeq(W, 1, Queue!Least(n, Len(W)))
  BY <1>3, <1>7
<1> QED BY <1>8, <1>9 DEF Commit, Queue!Commit, W

LEMMA ConsumeRefines ==
  ASSUME IInv, NEW n \in Sizes, Consume(n)
  PROVE  Queue!Consume(n)
<1>1. /\ n \in Nat /\ in_size \in Nat /\ in_size <= Capacity
      /\ in_off \in Block /\ mem \in [Block -> Nat]
  BY Cap DEF IInv, TypeOK, WithinCapacity
<1>2. data' = SubSeq(data, n + 1, Len(data))
  <2>1. CASE n < in_size
    <3> DEFINE o == (in_off + n) % Capacity
    <3>1. /\ o \in Block
          /\ \A i \in Nat \ {0} : n + i <= in_size => At(o, i) = At(in_off, n + i)
      BY <1>1, <2>1, WrappedOff DEF IInv
    <3>2. data' = SliceOf(mem, o, in_size - n)
      BY <2>1 DEF Consume, data, Slice, SliceOf
    <3> HIDE DEF o
    <3>3. /\ in_size - n \in Nat /\ in_size - n <= Capacity
      BY <1>1, <2>1, Cap
    <3>4. /\ data' \in Seq(Nat) /\ Len(data') = in_size - n
          /\ \A i \in 1 .. in_size - n : data'[i] = mem[At(o, i)]
      BY <1>1, <3>1, <3>2, <3>3, SliceOfIsSeq
    <3>5. /\ SubSeq(data, n + 1, in_size) \in Seq(Nat)
          /\ Len(SubSeq(data, n + 1, in_size)) = in_size - n
          /\ \A i \in 1 .. in_size - n : SubSeq(data, n + 1, in_size)[i] = data[n + i]
      BY <1>1, <2>1, DataIsSeq
    <3>6. \A i \in 1 .. in_size - n : data'[i] = SubSeq(data, n + 1, in_size)[i]
      <4> SUFFICES ASSUME NEW i \in 1 .. in_size - n
                   PROVE  data'[i] = SubSeq(data, n + 1, in_size)[i]
        OBVIOUS
      <4>1. i \in Nat \ {0} /\ n + i <= in_size /\ n + i \in 1 .. in_size
        BY <1>1, <2>1
      <4>2. data[n + i] = mem[At(in_off, n + i)]
        BY <4>1, DataIsSeq
      <4> QED BY <3>1, <3>4, <3>5, <4>1, <4>2
    <3>7. data' = SubSeq(data, n + 1, in_size)
      BY <3>4, <3>5, <3>6, SameBytes
    <3> QED BY <3>7, DataIsSeq
  <2>2. CASE ~(n < in_size)
    <3>1. data' = <<>>
      BY <2>2, NothingIsEmpty DEF Consume, data, Slice, SliceOf
    <3>2. Len(data) < n + 1 /\ Len(data) \in Int /\ n + 1 \in Int
      BY <1>1, <2>2, DataIsSeq
    <3> QED BY <3>1, <3>2, SubSeqEmpty
  <2> QED BY <2>1, <2>2
<1>3. Slice(OutOff, handed)' = <<>>
  BY NothingIsEmpty DEF Consume, Slice, SliceOf
<1> QED BY <1>2, <1>3 DEF Consume, Queue!Consume

LEMMA CopyAssignRefines ==
  ASSUME IInv, NEW n \in Sizes, CopyAssign(n)
  PROVE  Queue!Assign(n, Capacity)
<1>1. n \in Nat /\ n <= Capacity /\ fed \in Nat /\ 0 \in Block
  BY Cap, InBlock DEF CopyAssign, IInv, TypeOK
<1>2. mem' = Write(0, n) /\ mem' \in [Block -> Nat]
  BY <1>1, WriteType DEF CopyAssign, IInv
<1>3. data' = SliceOf(mem', 0, n)
  BY DEF CopyAssign, data, Slice, SliceOf
<1>4. /\ data' \in Seq(Nat) /\ Len(data') = n
      /\ \A i \in 1 .. n : data'[i] = mem'[At(0, i)]
  BY <1>1, <1>2, <1>3, SliceOfIsSeq
<1>5. \A i \in 1 .. n : mem'[At(0, i)] = fed + i
  BY <1>1, <1>2, WriteThere
<1>6. data' = Queue!Fresh(n)
  <2>1. \A i \in 1 .. n : data'[i] = Queue!Fresh(n)[i]
    BY <1>1, <1>4, <1>5, FreshIsSeq
  <2> QED BY <1>1, <1>4, <2>1, FreshIsSeq, SameBytes
<1>7. Slice(OutOff, handed)' = <<>>
  BY NothingIsEmpty DEF CopyAssign, Slice, SliceOf
<1> QED BY <1>1, <1>6, <1>7 DEF CopyAssign, Queue!Assign

LEMMA InitRefines == Init => \E limit \in Sizes : Queue!Init(limit)
<1> SUFFICES ASSUME Init PROVE Queue!Init(Capacity)
  BY StaticBufferAssumption
<1>1. data = <<>> /\ Slice(OutOff, handed) = <<>>
  BY NothingIsEmpty DEF Init, data, Slice, SliceOf
<1> QED BY <1>1 DEF Init, Queue!Init

LEMMA StepRefines == IInv /\ [Next]_vars => [Queue!Next]_(Queue!vars)
<1> SUFFICES ASSUME IInv, [Next]_vars PROVE [Queue!Next]_(Queue!vars)
  OBVIOUS
<1>1. CASE Clear
  BY <1>1, ClearRefines DEF Queue!Next
<1>2. ASSUME NEW n \in Sizes, Prepare(n) PROVE Queue!Next
  BY <1>2, PrepareRefines DEF Queue!Next
<1>3. ASSUME NEW n \in Sizes, PrepareThrows(n) PROVE Queue!Next
  BY <1>3, PrepareThrowsRefines DEF Queue!Next
<1>4. ASSUME NEW n \in Sizes, Commit(n) PROVE Queue!Next
  BY <1>4, CommitRefines DEF Queue!Next
<1>5. ASSUME NEW n \in Sizes, Consume(n) PROVE Queue!Next
  BY <1>5, ConsumeRefines DEF Queue!Next
<1>6. ASSUME NEW n \in Sizes, CopyAssign(n) PROVE Queue!Next
  BY <1>6, CopyAssignRefines, StaticBufferAssumption DEF Queue!Next
<1>7. CASE UNCHANGED vars
  BY <1>7 DEF vars, Queue!vars, data, Slice, OutOff
<1> QED BY <1>1, <1>2, <1>3, <1>4, <1>5, <1>6, <1>7 DEF Next

(* static_buffer is a ByteQueue: bytes come out as they went in, however   *)
(* often the offsets go around the block.                                  *)
THEOREM Implements == Spec => ImplementsByteQueue
<1>1. Spec => []IInv
  BY InitInv, StepInv, PTL DEF Spec
<1> QED BY <1>1, InitRefines, StepRefines, PTL DEF Spec, ImplementsByteQueue, Queue!Spec

------------------------------------------------------------------------------
(* flat_buffer.  Its variables that static_buffer has too have other names. *)
CONSTANTS AllocMax
VARIABLES flat_mem, flat_end, in, out, last, flat_max, flat_fed, flat_prepared,
          flat_result
Flat == INSTANCE FlatBuffer WITH
  mem <- flat_mem, end <- flat_end, max <- flat_max, fed <- flat_fed,
  prepared <- flat_prepared, result <- flat_result

(* A block of c bytes.                                                    *)
BlocksOf(c) == [0 .. c - 1 -> Nat]

(* The invariant: the pointers are in order and in the block, and what     *)
(* prepare() handed out keeps within max_size() as well as what is         *)
(* readable, so that commit() may take all of it.                          *)
FlatInv ==
  /\ flat_mem \in BlocksOf(flat_end)
  /\ flat_end \in Nat /\ in \in Nat /\ out \in Nat /\ last \in Nat
  /\ flat_fed \in Nat
  /\ flat_prepared \in BOOLEAN
  /\ flat_result \in {"ok", "length_error"}
  /\ flat_max \in Sizes
  /\ Flat!PointersInv
  /\ Flat!MaxSizeHolds
  /\ flat_prepared => last - in <= flat_max

LEMMA BlocksType ==
  \A c, m : m \in BlocksOf(c) => DOMAIN m = 0 .. c - 1 /\ \A i \in 0 .. c - 1 : m[i] \in Nat
BY DEF BlocksOf

LEMMA FlatInitInv ==
  ASSUME Flat!FlatBufferAssumption, Flat!Init
  PROVE  FlatInv
<1>1. /\ flat_mem = [i \in {} |-> 0] /\ flat_end = 0 /\ in = 0 /\ out = 0 /\ last = 0
      /\ flat_max \in Sizes /\ flat_fed = 0 /\ flat_prepared = FALSE /\ flat_result = "ok"
  BY DEF Flat!Init
<1>2. AllocMax \in Nat /\ Sizes \subseteq Nat
  BY DEF Flat!FlatBufferAssumption
<1>3. 0 .. flat_end - 1 = {}
  BY <1>1
<1>4. flat_mem \in BlocksOf(flat_end)
  BY <1>1, <1>3 DEF BlocksOf
<1>5. Flat!PointersInv /\ Flat!MaxSizeHolds
  BY <1>1, <1>2 DEF Flat!PointersInv, Flat!MaxSizeHolds, Flat!size
<1> QED BY <1>1, <1>4, <1>5 DEF FlatInv

(* w is m, a block of c bytes, with n fresh bytes of the caller at a; and  *)
(* s is the n bytes of m from offset a on.                                 *)
Fed(w, c, m, a, n) ==
  /\ w \in BlocksOf(c)
  /\ \A i \in 0 .. c - 1 :
       w[i] = IF i >= a /\ i < a + n THEN flat_fed + (i - a) + 1 ELSE m[i]
BytesAt(s, m, a, n) ==
  /\ s \in Seq(Nat)
  /\ Len(s) = n
  /\ \A i \in 1 .. n : s[i] = m[a + i - 1]

LEMMA FlatWrite ==
  ASSUME NEW c \in Nat, NEW m \in BlocksOf(c), NEW a \in Nat, NEW n \in Nat,
         flat_fed \in Nat
  PROVE  Fed(Flat!Write(m, a, n), c, m, a, n)
<1>1. DOMAIN m = 0 .. c - 1 /\ \A i \in 0 .. c - 1 : m[i] \in Nat
  BY BlocksType
<1>2. Flat!Write(m, a, n) =
        [i \in 0 .. c - 1 |-> IF i \in a .. a + n - 1 THEN flat_fed + i - a + 1 ELSE m[i]]
  BY <1>1 DEF Flat!Write
<1>3. \A i \in 0 .. c - 1 :
        (IF i \in a .. a + n - 1 THEN flat_fed + i - a + 1 ELSE m[i])
          = (IF i >= a /\ i < a + n THEN flat_fed + (i - a) + 1 ELSE m[i])
  OBVIOUS
<1>4. \A i \in 0 .. c - 1 : (IF i >= a /\ i < a + n THEN flat_fed + (i - a) + 1 ELSE m[i]) \in Nat
  BY <1>1
<1> QED BY <1>2, <1>3, <1>4 DEF Fed, BlocksOf

LEMMA FlatMoved ==
  ASSUME FlatInv, NEW c \in Nat
  PROVE  /\ Flat!Moved(c) \in BlocksOf(c)
         /\ \A i \in 0 .. c - 1 : i < out - in => Flat!Moved(c)[i] = flat_mem[in + i]
<1>1. \A i \in 0 .. c - 1 : i < out - in => in + i \in 0 .. flat_end - 1
  BY DEF FlatInv, Flat!PointersInv
<1>2. \A i \in 0 .. c - 1 : i < out - in => flat_mem[in + i] \in Nat
  BY <1>1, BlocksType DEF FlatInv
<1> QED BY <1>2 DEF Flat!Moved, Flat!size, BlocksOf

LEMMA FlatSlice ==
  ASSUME NEW c \in Nat, NEW m \in BlocksOf(c), NEW a \in Nat, NEW b \in Nat,
         a <= b, b <= c
  PROVE  BytesAt(Flat!Slice(m, a, b), m, a, b - a)
<1>1. \A i \in 1 .. b - a : a + i - 1 \in 0 .. c - 1
  OBVIOUS
<1>2. \A i \in 1 .. b - a : m[a + i - 1] \in Nat
  BY <1>1, BlocksType
<1>3. b - a \in Nat
  OBVIOUS
<1> QED BY <1>2, <1>3 DEF Flat!Slice, BytesAt

LEMMA SameBytesAt ==
  ASSUME NEW s, NEW t, NEW m, NEW w, NEW a \in Nat, NEW e \in Nat, NEW n \in Nat,
         BytesAt(s, m, a, n), BytesAt(t, w, e, n),
         \A i \in 0 .. n - 1 : m[a + i] = w[e + i]
  PROVE  s = t
<1>1. \A i \in 1 .. n : s[i] = t[i]
  <2> SUFFICES ASSUME NEW i \in 1 .. n PROVE s[i] = t[i]
    OBVIOUS
  <2>1. i - 1 \in 0 .. n - 1 /\ a + (i - 1) = a + i - 1 /\ e + (i - 1) = e + i - 1
    OBVIOUS
  <2>2. m[a + i - 1] = w[e + i - 1]
    BY <2>1
  <2> QED BY <2>2 DEF BytesAt
<1> QED BY <1>1, SameBytes DEF BytesAt

(* Bytes that are the same in two blocks, at any offsets.                  *)
LEMMA FlatSame ==
  ASSUME NEW c \in Nat, NEW m \in BlocksOf(c), NEW a \in Nat, NEW b \in Nat,
         a <= b, b <= c,
         NEW d \in Nat, NEW w \in BlocksOf(d), NEW e \in Nat, NEW f \in Nat,
         e <= f, f <= d, b - a = f - e,
         \A i \in 0 .. b - a - 1 : m[a + i] = w[e + i]
  PROVE  Flat!Slice(m, a, b) = Flat!Slice(w, e, f)
<1>1. BytesAt(Flat!Slice(m, a, b), m, a, b - a)
  BY FlatSlice
<1>2. BytesAt(Flat!Slice(w, e, f), w, e, f - e)
  BY FlatSlice
<1>3. b - a \in Nat
  OBVIOUS
<1> QED BY <1>1, <1>2, <1>3, SameBytesAt

LEMMA FlatFresh ==
  ASSUME NEW c \in Nat, NEW m \in BlocksOf(c), NEW a \in Nat, NEW n \in Nat,
         a + n <= c, flat_fed \in Nat,
         \A i \in 0 .. n - 1 : m[a + i] = flat_fed + i + 1
  PROVE  Flat!Slice(m, a, a + n) = Flat!Queue!Fresh(n)
<1>1. /\ Flat!Queue!Fresh(n) \in Seq(Nat) /\ Len(Flat!Queue!Fresh(n)) = n
      /\ \A i \in 1 .. n : Flat!Queue!Fresh(n)[i] = flat_fed + i
  BY DEF Flat!Queue!Fresh
<1>2. \A i \in 1 .. n : m[a + i - 1] = flat_fed + i
  <2> SUFFICES ASSUME NEW i \in 1 .. n PROVE m[a + i - 1] = flat_fed + i
    OBVIOUS
  <2>1. i - 1 \in 0 .. n - 1 /\ a + (i - 1) = a + i - 1 /\ flat_fed + (i - 1) + 1 = flat_fed + i
    OBVIOUS
  <2> QED BY <2>1
<1>3. BytesAt(Flat!Slice(m, a, a + n), m, a, n)
  <2>1. PICK b \in Nat : b = a + n
    OBVIOUS
  <2>2. a <= b /\ b <= c /\ b - a = n
    BY <2>1
  <2>3. BytesAt(Flat!Slice(m, a, b), m, a, b - a)
    BY <2>2, FlatSlice
  <2> QED BY <2>1, <2>2, <2>3
<1>4. \A i \in 1 .. n : Flat!Slice(m, a, a + n)[i] = Flat!Queue!Fresh(n)[i]
  BY <1>1, <1>2, <1>3 DEF BytesAt
<1> QED BY <1>1, <1>3, <1>4, SameBytes DEF BytesAt

LEMMA FlatNone == \A m, a : a \in Nat => Flat!Slice(m, a, a) = <<>>
<1> SUFFICES ASSUME NEW m, NEW a \in Nat PROVE Flat!Slice(m, a, a) = <<>>
  OBVIOUS
<1>1. a - a = 0
  OBVIOUS
<1> QED BY <1>1 DEF Flat!Slice

(* prepare() where it finds n bytes: what it leaves is a block with the    *)
(* readable bytes as they were and n fresh ones behind them.               *)
Found(n) ==
  /\ flat_end' \in Nat /\ in' \in Nat /\ out' \in Nat
  /\ flat_mem' \in BlocksOf(flat_end')
  /\ out' - in' = out - in /\ last' = out' + n /\ last' <= flat_end' /\ flat_end' <= AllocMax
  /\ \A i \in 0 .. out - in - 1 : flat_mem'[in' + i] = flat_mem[in + i]
  /\ \A i \in 0 .. n - 1 : flat_mem'[out' + i] = flat_fed + i + 1

LEMMA FlatFound ==
  ASSUME Flat!FlatBufferAssumption, FlatInv, NEW n \in Sizes, Flat!Prepare(n)
  PROVE  Found(n)
<1>0. /\ flat_mem \in BlocksOf(flat_end)
      /\ flat_end \in Nat /\ in \in Nat /\ out \in Nat /\ last \in Nat
      /\ flat_fed \in Nat /\ n \in Nat /\ flat_max \in Nat
      /\ in <= out /\ out <= last /\ last <= flat_end /\ flat_end <= AllocMax
      /\ AllocMax \in Nat /\ out - in + n <= flat_max
  BY DEF Flat!FlatBufferAssumption, FlatInv, Flat!PointersInv, Flat!Prepare, Flat!size
<1>s. PICK s \in Nat : s = out - in
  BY <1>0
<1>1. CASE Flat!PrepareBehind(n)
  <2>1. /\ flat_mem' = Flat!Write(flat_mem, out, n)
        /\ last' = out + n /\ flat_end' = flat_end /\ in' = in /\ out' = out
        /\ n <= flat_end - out
    BY <1>1 DEF Flat!PrepareBehind, Flat!FitsBehind
  <2>a. Fed(flat_mem', flat_end, flat_mem, out, n)
    BY <1>0, <2>1, FlatWrite
  <2>2. /\ flat_mem' \in BlocksOf(flat_end)
        /\ \A i \in 0 .. flat_end - 1 : flat_mem'[i] =
              IF i >= out /\ i < out + n THEN flat_fed + (i - out) + 1 ELSE flat_mem[i]
    BY <2>a DEF Fed
  <2>3. \A i \in 0 .. out - in - 1 : flat_mem'[in' + i] = flat_mem[in + i]
    BY <1>0, <2>1, <2>2
  <2>4. \A i \in 0 .. n - 1 : flat_mem'[out' + i] = flat_fed + i + 1
    BY <1>0, <2>1, <2>2
  <2> QED BY <1>0, <2>1, <2>2, <2>3, <2>4 DEF Found
<1>2. CASE Flat!PrepareMoved(n)
  <2> DEFINE w == [i \in DOMAIN flat_mem |-> IF i < s THEN flat_mem[in + i] ELSE flat_mem[i]]
  <2>1. /\ flat_mem' = Flat!Write(w, s, n)
        /\ last' = s + n /\ flat_end' = flat_end /\ in' = 0 /\ out' = s
        /\ n <= flat_end - s
    BY <1>2, <1>s DEF Flat!PrepareMoved, Flat!FitsMoved, Flat!size
  <2>2. /\ w \in BlocksOf(flat_end)
        /\ \A i \in 0 .. s - 1 : w[i] = flat_mem[in + i]
    <3>1. DOMAIN flat_mem = 0 .. flat_end - 1 /\ \A i \in 0 .. flat_end - 1 : flat_mem[i] \in Nat
      BY <1>0, BlocksType
    <3>2. \A i \in 0 .. flat_end - 1 : i < s => in + i \in 0 .. flat_end - 1
      BY <1>0, <1>s
    <3>3. \A i \in 0 .. s - 1 : i \in 0 .. flat_end - 1 /\ i < s
      BY <1>0, <1>s
    <3> QED BY <3>1, <3>2, <3>3, <1>s DEF BlocksOf
  <2> HIDE DEF w
  <2>a. Fed(flat_mem', flat_end, w, s, n)
    BY <1>0, <2>1, <2>2, FlatWrite
  <2>3. /\ flat_mem' \in BlocksOf(flat_end)
        /\ \A i \in 0 .. flat_end - 1 : flat_mem'[i] =
              IF i >= s /\ i < s + n THEN flat_fed + (i - s) + 1 ELSE w[i]
    BY <2>a DEF Fed
  <2>4. \A i \in 0 .. s - 1 : flat_mem'[in' + i] = flat_mem[in + i]
    BY <1>0, <1>s, <2>1, <2>2, <2>3
  <2>5. \A i \in 0 .. n - 1 : flat_mem'[out' + i] = flat_fed + i + 1
    BY <1>0, <1>s, <2>1, <2>3
  <2> QED BY <1>0, <1>s, <2>1, <2>3, <2>4, <2>5 DEF Found
<1>3. CASE Flat!PrepareNew(n)
  <2> DEFINE c == Flat!NewSize(n)
  <2>1. /\ flat_mem' = Flat!Write(Flat!Moved(c), s, n)
        /\ last' = s + n /\ flat_end' = c /\ in' = 0 /\ out' = s
        /\ c <= AllocMax
    BY <1>3, <1>s DEF Flat!PrepareNew, Flat!size
  <2>2. c \in Nat /\ s + n <= c
    BY <1>0, <1>s DEF Flat!NewSize, Flat!Least, Flat!Most, Flat!size
  <2> HIDE DEF c
  <2>3. /\ Flat!Moved(c) \in BlocksOf(c)
        /\ \A i \in 0 .. c - 1 : i < s => Flat!Moved(c)[i] = flat_mem[in + i]
    BY <2>2, <1>s, FlatMoved
  <2>a. Fed(flat_mem', c, Flat!Moved(c), s, n)
    BY <1>0, <2>1, <2>2, <2>3, FlatWrite
  <2>4. /\ flat_mem' \in BlocksOf(c)
        /\ \A i \in 0 .. c - 1 : flat_mem'[i] =
              IF i >= s /\ i < s + n THEN flat_fed + (i - s) + 1
              ELSE Flat!Moved(c)[i]
    BY <2>a DEF Fed
  <2>5. \A i \in 0 .. s - 1 : flat_mem'[in' + i] = flat_mem[in + i]
    BY <1>0, <1>s, <2>1, <2>2, <2>3, <2>4
  <2>6. \A i \in 0 .. n - 1 : flat_mem'[out' + i] = flat_fed + i + 1
    BY <1>0, <1>s, <2>1, <2>2, <2>4
  <2> QED BY <1>0, <1>s, <2>1, <2>2, <2>4, <2>5, <2>6 DEF Found
<1> QED BY <1>1, <1>2, <1>3 DEF Flat!Prepare

LEMMA FlatNats ==
  ASSUME Flat!FlatBufferAssumption, FlatInv
  PROVE  /\ flat_mem \in BlocksOf(flat_end)
         /\ flat_end \in Nat /\ in \in Nat /\ out \in Nat /\ last \in Nat
         /\ flat_fed \in Nat /\ flat_max \in Nat /\ flat_max \in Sizes
         /\ in <= out /\ out <= last /\ last <= flat_end /\ flat_end <= AllocMax
         /\ AllocMax \in Nat /\ out - in <= flat_max
         /\ Sizes \subseteq Nat
BY DEF Flat!FlatBufferAssumption, FlatInv, Flat!PointersInv, Flat!MaxSizeHolds, Flat!size

(* reserve() and shrink_to_fit(): the readable bytes, in a block of c.     *)
LEMMA FlatStored ==
  ASSUME Flat!FlatBufferAssumption, FlatInv, NEW c \in Nat, out - in <= c,
         flat_mem' = Flat!Moved(c), flat_end' = c, in' = 0, out' = out - in
  PROVE  /\ flat_mem' \in BlocksOf(flat_end')
         /\ Flat!Slice(flat_mem', in', out') = Flat!Slice(flat_mem, in, out)
<1>1. /\ Flat!Moved(c) \in BlocksOf(c)
      /\ \A i \in 0 .. c - 1 : i < out - in => Flat!Moved(c)[i] = flat_mem[in + i]
  BY FlatMoved
<1>2. PICK n \in Nat : n = out - in
  BY FlatNats
<1>3. \A i \in 0 .. n - 0 - 1 : Flat!Moved(c)[0 + i] = flat_mem[in + i]
  BY <1>1, <1>2
<1>4. Flat!Slice(Flat!Moved(c), 0, n) = Flat!Slice(flat_mem, in, out)
  <2>1. 0 <= n /\ n <= c /\ n - 0 = out - in /\ in <= out /\ out <= flat_end
    BY <1>2, FlatNats
  <2>2. flat_mem \in BlocksOf(flat_end) /\ flat_end \in Nat /\ in \in Nat /\ out \in Nat /\ 0 \in Nat
    BY FlatNats
  <2>3. PICK w : w = Flat!Moved(c)
    OBVIOUS
  <2>4. w \in BlocksOf(c) /\ \A i \in 0 .. n - 0 - 1 : w[0 + i] = flat_mem[in + i]
    BY <1>1, <1>3, <2>3
  <2>5. Flat!Slice(w, 0, n) = Flat!Slice(flat_mem, in, out)
    <3>1. BytesAt(Flat!Slice(w, 0, n), w, 0, n - 0)
      BY <2>1, <2>2, <2>4, FlatSlice
    <3>2. BytesAt(Flat!Slice(flat_mem, in, out), flat_mem, in, out - in)
      BY <2>1, <2>2, FlatSlice
    <3>3. BytesAt(Flat!Slice(w, 0, n), w, 0, n) /\ BytesAt(Flat!Slice(flat_mem, in, out), flat_mem, in, n)
      BY <1>2, <2>1, <3>1, <3>2
    <3>4. \A i \in 0 .. n - 1 : w[0 + i] = flat_mem[in + i]
      BY <2>4
    <3> QED BY <2>2, <3>3, <3>4, SameBytesAt
  <2> QED BY <2>3, <2>5
<1> QED BY <1>1, <1>2, <1>4

LEMMA FlatCopied ==
  ASSUME Flat!FlatBufferAssumption, FlatInv, NEW n \in Nat, Flat!CopyFrom(n)
  PROVE  /\ flat_end' \in Nat /\ n <= flat_end' /\ flat_end' <= AllocMax
         /\ flat_mem' \in BlocksOf(flat_end')
         /\ \A i \in 0 .. n - 1 : flat_mem'[0 + i] = flat_fed + i + 1
<1> DEFINE c == IF n = 0 \/ n > flat_end THEN n ELSE flat_end
<1>1. c \in Nat /\ n <= c /\ c <= AllocMax
  BY FlatNats DEF Flat!CopyFrom
<1>2. /\ flat_end' = c
      /\ flat_mem' = [i \in 0 .. c - 1 |-> IF i < n THEN flat_fed + i + 1
                                           ELSE IF i < flat_end THEN flat_mem[i] ELSE 0]
  BY DEF Flat!CopyFrom
<1> HIDE DEF c
<1>3. \A i \in 0 .. c - 1 : i < flat_end => flat_mem[i] \in Nat
  BY <1>1, FlatNats, BlocksType
<1>4. \A i \in 0 .. c - 1 : flat_fed + i + 1 \in Nat
  BY <1>1, FlatNats
<1>5. flat_mem' \in BlocksOf(c)
  BY <1>2, <1>3, <1>4 DEF BlocksOf
<1>6. \A i \in 0 .. n - 1 : 0 + i = i /\ i \in 0 .. c - 1 /\ i < n
  BY <1>1
<1>7. \A i \in 0 .. n - 1 : flat_mem'[0 + i] = flat_fed + i + 1
  BY <1>2, <1>6
<1> QED BY <1>1, <1>2, <1>5, <1>7

LEMMA FlatTaken ==
  ASSUME Flat!FlatBufferAssumption, FlatInv, NEW a \in Nat, NEW n \in Nat, NEW c \in Nat,
         NEW limit \in Nat, Flat!MoveAssign(a, n, c, limit)
  PROVE  /\ flat_mem' \in BlocksOf(c)
         /\ \A i \in 0 .. n - 1 : flat_mem'[a + i] = flat_fed + i + 1
<1>1. /\ flat_mem' = [i \in 0 .. c - 1 |-> IF i \in a .. a + n - 1 THEN flat_fed + i - a + 1 ELSE 0]
      /\ a + n <= c
  BY DEF Flat!MoveAssign
<1>2. \A i \in 0 .. c - 1 : i \in a .. a + n - 1 => flat_fed + i - a + 1 \in Nat
  BY FlatNats
<1>3. flat_mem' \in BlocksOf(c)
  BY <1>1, <1>2 DEF BlocksOf
<1>4. \A i \in 0 .. n - 1 : flat_mem'[a + i] = flat_fed + i + 1
  <2> SUFFICES ASSUME NEW i \in 0 .. n - 1 PROVE flat_mem'[a + i] = flat_fed + i + 1
    OBVIOUS
  <2>1. a + i \in 0 .. c - 1 /\ a + i \in a .. a + n - 1 /\ flat_fed + (a + i) - a + 1 = flat_fed + i + 1
    BY <1>1, FlatNats
  <2> QED BY <1>1, <2>1
<1> QED BY <1>3, <1>4

(* In every step the block is one, and the pointers and limits stay in     *)
(* order.                                                                  *)
LEMMA FlatSteps ==
  ASSUME Flat!FlatBufferAssumption, FlatInv, [Flat!Next]_(Flat!vars)
  PROVE  FlatInv'
<1>0. /\ flat_mem \in BlocksOf(flat_end)
      /\ flat_end \in Nat /\ in \in Nat /\ out \in Nat /\ last \in Nat
      /\ flat_fed \in Nat /\ flat_max \in Nat /\ flat_max \in Sizes
      /\ in <= out /\ out <= last /\ last <= flat_end /\ flat_end <= AllocMax
      /\ AllocMax \in Nat /\ out - in <= flat_max
      /\ Sizes \subseteq Nat
  BY FlatNats
<1>i. ASSUME flat_mem' \in BlocksOf(flat_end'),
             flat_end' \in Nat, in' \in Nat, out' \in Nat, last' \in Nat,
             flat_fed' \in Nat, flat_prepared' \in BOOLEAN,
             flat_result' \in {"ok", "length_error"}, flat_max' \in Sizes,
             in' <= out', out' <= last', last' <= flat_end', flat_end' <= AllocMax,
             out' - in' <= flat_max', flat_prepared' => last' - in' <= flat_max'
      PROVE  FlatInv'
  BY <1>i DEF FlatInv, Flat!PointersInv, Flat!MaxSizeHolds, Flat!size
<1>p. /\ flat_prepared \in BOOLEAN /\ flat_result \in {"ok", "length_error"}
      /\ flat_prepared => last - in <= flat_max
  BY DEF FlatInv
<1>e. [i \in {} |-> 0] \in BlocksOf(0)
  BY DEF BlocksOf
<1>1. CASE UNCHANGED Flat!vars
  BY <1>0, <1>1, <1>i, <1>p DEF Flat!vars, Flat!block
<1>2. CASE Flat!Clear
  <2>1. /\ flat_mem' = flat_mem /\ flat_end' = flat_end /\ in' = 0 /\ out' = 0 /\ last' = 0
        /\ flat_max' = flat_max /\ flat_fed' = flat_fed /\ flat_prepared' = FALSE
        /\ flat_result' = "ok"
    BY <1>2 DEF Flat!Clear
  <2>2. flat_mem' \in BlocksOf(flat_end')
    BY <1>0, <2>1
  <2>3. /\ flat_end' \in Nat /\ in' \in Nat /\ out' \in Nat /\ last' \in Nat /\ flat_fed' \in Nat
    BY <1>0, <2>1
  <2>4. /\ flat_prepared' \in BOOLEAN /\ flat_result' \in {"ok", "length_error"} /\ flat_max' \in Sizes
    BY <1>0, <2>1
  <2>5. /\ in' <= out' /\ out' <= last' /\ last' <= flat_end' /\ flat_end' <= AllocMax
    BY <1>0, <2>1
  <2>6. out' - in' <= flat_max'
    BY <1>0, <2>1
  <2>7. flat_prepared' => last' - in' <= flat_max'
    BY <1>0, <2>1
  <2> QED BY <2>2, <2>3, <2>4, <2>5, <2>6, <2>7, <1>i
<1>3. CASE Flat!MovedFrom
  <2>1. /\ flat_mem' = [i \in {} |-> 0] /\ flat_end' = 0 /\ in' = 0 /\ out' = 0 /\ last' = 0
        /\ flat_max' = flat_max /\ flat_fed' = flat_fed /\ flat_prepared' = FALSE
        /\ flat_result' = "ok"
    BY <1>3 DEF Flat!MovedFrom
  <2>a. flat_mem' \in BlocksOf(flat_end')
    BY <1>0, <1>e, <2>1
  <2>b. flat_end' \in Nat /\ in' \in Nat /\ out' \in Nat /\ last' \in Nat /\ flat_fed' \in Nat
    BY <1>0, <1>e, <2>1
  <2>c. flat_prepared' \in BOOLEAN /\ flat_result' \in {"ok", "length_error"} /\ flat_max' \in Sizes
    BY <1>0, <1>e, <2>1
  <2>d. in' <= out' /\ out' <= last' /\ last' <= flat_end' /\ flat_end' <= AllocMax
    BY <1>0, <1>e, <2>1
  <2>e. out' - in' <= flat_max'
    BY <1>0, <1>e, <2>1
  <2>f. flat_prepared' => last' - in' <= flat_max'
    BY <1>0, <1>e, <2>1
  <2> QED BY <1>i, <2>a, <2>b, <2>c, <2>d, <2>e, <2>f
<1>4. CASE Flat!ShrinkToFit
  <2>1. PICK c \in Nat : c = out - in
    BY <1>0
  <2>2. flat_mem' = Flat!Moved(c) /\ flat_end' = c /\ in' = 0 /\ out' = out - in /\ last' = c
        /\ flat_prepared' = FALSE /\ flat_result' = "ok" /\ flat_max' = flat_max /\ flat_fed' = flat_fed
    BY <1>0, <1>4, <2>1 DEF Flat!ShrinkToFit, Flat!size
  <2>3. flat_mem' \in BlocksOf(flat_end')
    BY <1>0, <2>1, <2>2, FlatStored
  <2>a. flat_mem' \in BlocksOf(flat_end')
    BY <1>0, <2>1, <2>2, <2>3
  <2>b. flat_end' \in Nat /\ in' \in Nat /\ out' \in Nat /\ last' \in Nat /\ flat_fed' \in Nat
    BY <1>0, <2>1, <2>2, <2>3
  <2>c. flat_prepared' \in BOOLEAN /\ flat_result' \in {"ok", "length_error"} /\ flat_max' \in Sizes
    BY <1>0, <2>1, <2>2, <2>3
  <2>d. in' <= out' /\ out' <= last' /\ last' <= flat_end' /\ flat_end' <= AllocMax
    BY <1>0, <2>1, <2>2, <2>3
  <2>e. out' - in' <= flat_max'
    BY <1>0, <2>1, <2>2, <2>3
  <2>f. flat_prepared' => last' - in' <= flat_max'
    BY <1>0, <2>1, <2>2, <2>3
  <2> QED BY <1>i, <2>a, <2>b, <2>c, <2>d, <2>e, <2>f
<1>5. ASSUME NEW n \in Sizes, Flat!Prepare(n) PROVE FlatInv'
  <2>1. Found(n)
    BY <1>0, <1>5, FlatFound
  <2>2. /\ n \in Nat /\ out - in + n <= flat_max /\ flat_max' = flat_max
        /\ flat_fed' = flat_fed + n /\ flat_prepared' = TRUE /\ flat_result' = "ok"
    BY <1>0, <1>5 DEF Flat!Prepare, Flat!size
  <2>3. /\ flat_end' \in Nat /\ in' \in Nat /\ out' \in Nat
        /\ flat_mem' \in BlocksOf(flat_end')
        /\ out' - in' = out - in /\ last' = out' + n /\ last' <= flat_end' /\ flat_end' <= AllocMax
    BY <2>1 DEF Found
  <2>4. last' \in Nat /\ in' <= out' /\ out' <= last' /\ last' - in' <= flat_max
    <3>1. in \in Nat /\ out \in Nat /\ n \in Nat /\ flat_max \in Nat /\ in <= out /\ out - in + n <= flat_max
      BY <1>0, <2>2
    <3>2. in' \in Nat /\ out' \in Nat /\ out' - in' = out - in /\ last' = out' + n
      BY <2>3
    <3>3. PICK j \in Nat, p \in Nat : j = in' /\ p = out'
      BY <3>2
    <3>4. p - j = out - in /\ last' = p + n
      BY <3>2, <3>3
    <3>5. p + n \in Nat /\ j <= p /\ p <= p + n /\ (p + n) - j <= flat_max
      BY <3>1, <3>4
    <3> QED BY <3>3, <3>4, <3>5
  <2>a. flat_mem' \in BlocksOf(flat_end')
    BY <1>0, <2>2, <2>3, <2>4
  <2>5. flat_fed' \in Nat
    BY <1>0, <2>2
  <2>b. flat_end' \in Nat /\ in' \in Nat /\ out' \in Nat /\ last' \in Nat /\ flat_fed' \in Nat
    BY <2>3, <2>4, <2>5
  <2>c. flat_prepared' \in BOOLEAN /\ flat_result' \in {"ok", "length_error"} /\ flat_max' \in Sizes
    BY <1>0, <2>2, <2>3, <2>4
  <2>d. in' <= out' /\ out' <= last' /\ last' <= flat_end' /\ flat_end' <= AllocMax
    BY <1>0, <2>2, <2>3, <2>4
  <2>e. out' - in' <= flat_max'
    BY <1>0, <2>2, <2>3, <2>4
  <2>f. flat_prepared' => last' - in' <= flat_max'
    BY <1>0, <2>2, <2>3, <2>4
  <2> QED BY <1>i, <2>a, <2>b, <2>c, <2>d, <2>e, <2>f
<1>6. ASSUME NEW n \in Sizes, Flat!PrepareThrows(n) PROVE FlatInv'
  BY <1>0, <1>6, <1>i, <1>p DEF Flat!PrepareThrows, Flat!Throw, Flat!block
<1>7. ASSUME NEW n \in Sizes, Flat!Consume(n) PROVE FlatInv'
  <2>1. n \in Nat /\ flat_mem' = flat_mem /\ flat_end' = flat_end /\ last' = last
        /\ flat_max' = flat_max /\ flat_fed' = flat_fed /\ flat_prepared' = FALSE /\ flat_result' = "ok"
    BY <1>0, <1>7 DEF Flat!Consume
  <2>2. \/ in' = 0 /\ out' = 0
        \/ in' = in + n /\ out' = out /\ n < out - in
    BY <1>0, <1>7, <2>1 DEF Flat!Consume, Flat!size
  <2>a. flat_mem' \in BlocksOf(flat_end')
    BY <1>0, <2>1, <2>2
  <2>b. flat_end' \in Nat /\ in' \in Nat /\ out' \in Nat /\ last' \in Nat /\ flat_fed' \in Nat
    BY <1>0, <2>1, <2>2
  <2>c. flat_prepared' \in BOOLEAN /\ flat_result' \in {"ok", "length_error"} /\ flat_max' \in Sizes
    BY <1>0, <2>1, <2>2
  <2>d. in' <= out' /\ out' <= last' /\ last' <= flat_end' /\ flat_end' <= AllocMax
    BY <1>0, <2>1, <2>2
  <2>e. out' - in' <= flat_max'
    BY <1>0, <2>1, <2>2
  <2>f. flat_prepared' => last' - in' <= flat_max'
    BY <1>0, <2>1, <2>2
  <2> QED BY <1>i, <2>a, <2>b, <2>c, <2>d, <2>e, <2>f
<1>8. ASSUME NEW n \in Sizes, Flat!Reserve(n) PROVE FlatInv'
  <2>1. n \in Nat /\ flat_prepared' = FALSE /\ flat_result' = "ok" /\ flat_fed' = flat_fed
        /\ flat_max' = Flat!Most(flat_max, n)
    BY <1>0, <1>8 DEF Flat!Reserve
  <2>2. flat_max' \in Sizes /\ flat_max' >= flat_max /\ flat_max' >= n /\ flat_max' \in Nat
    BY <1>0, <2>1 DEF Flat!Most
  <2>3. CASE n <= flat_end
    <3>1. /\ flat_mem' = flat_mem /\ flat_end' = flat_end /\ in' = in /\ out' = out /\ last' = last
      BY <1>8, <2>3 DEF Flat!Reserve, Flat!block
    <3>a. flat_mem' \in BlocksOf(flat_end')
      BY <1>0, <2>1, <2>2, <3>1
    <3>b. flat_end' \in Nat /\ in' \in Nat /\ out' \in Nat /\ last' \in Nat /\ flat_fed' \in Nat
      BY <1>0, <2>1, <2>2, <3>1
    <3>c. flat_prepared' \in BOOLEAN /\ flat_result' \in {"ok", "length_error"} /\ flat_max' \in Sizes
      BY <1>0, <2>1, <2>2, <3>1
    <3>d. in' <= out' /\ out' <= last' /\ last' <= flat_end' /\ flat_end' <= AllocMax
      BY <1>0, <2>1, <2>2, <3>1
    <3>e. out' - in' <= flat_max'
      BY <1>0, <2>1, <2>2, <3>1
    <3>f. flat_prepared' => last' - in' <= flat_max'
      BY <1>0, <2>1, <2>2, <3>1
    <3> QED BY <1>i, <3>a, <3>b, <3>c, <3>d, <3>e, <3>f
  <2>4. CASE ~(n <= flat_end)
    <3> DEFINE c == Flat!Least(flat_max', Flat!Most(2 * (out - in), n))
    <3>1. c \in Nat /\ out - in <= c /\ n <= c
      BY <1>0, <2>1, <2>2, <2>4 DEF Flat!Least, Flat!Most
    <3>2. c <= AllocMax /\ flat_mem' = Flat!Moved(c) /\ flat_end' = c /\ in' = 0
          /\ out' = out - in /\ last' = n
      BY <1>0, <1>8, <2>4 DEF Flat!Reserve, Flat!size
    <3> HIDE DEF c
    <3>3. flat_mem' \in BlocksOf(flat_end')
      BY <1>0, <3>1, <3>2, FlatStored
    <3>a. flat_mem' \in BlocksOf(flat_end')
      BY <1>0, <2>1, <2>2, <2>4, <3>1, <3>2, <3>3
    <3>b. flat_end' \in Nat /\ in' \in Nat /\ out' \in Nat /\ last' \in Nat /\ flat_fed' \in Nat
      BY <1>0, <2>1, <2>2, <2>4, <3>1, <3>2, <3>3
    <3>c. flat_prepared' \in BOOLEAN /\ flat_result' \in {"ok", "length_error"} /\ flat_max' \in Sizes
      BY <1>0, <2>1, <2>2, <2>4, <3>1, <3>2, <3>3
    <3>d. in' <= out' /\ out' <= last' /\ last' <= flat_end' /\ flat_end' <= AllocMax
      BY <1>0, <2>1, <2>2, <2>4, <3>1, <3>2, <3>3
    <3>e. out' - in' <= flat_max'
      BY <1>0, <2>1, <2>2, <2>4, <3>1, <3>2, <3>3
    <3>f. flat_prepared' => last' - in' <= flat_max'
      BY <1>0, <2>1, <2>2, <2>4, <3>1, <3>2, <3>3
    <3> QED BY <1>i, <3>a, <3>b, <3>c, <3>d, <3>e, <3>f
  <2> QED BY <1>0, <2>3, <2>4
<1>9. ASSUME NEW n \in Sizes, Flat!ReserveThrows(n) PROVE FlatInv'
  <2>1. /\ flat_mem' = flat_mem /\ flat_end' = flat_end /\ in' = in /\ out' = out /\ last' = last
        /\ flat_fed' = flat_fed /\ flat_prepared' = flat_prepared /\ flat_result' = "length_error"
        /\ flat_max' = Flat!Most(flat_max, n)
    BY <1>0, <1>9 DEF Flat!ReserveThrows, Flat!Throw, Flat!block
  <2>2. flat_max' \in Sizes /\ flat_max' >= flat_max /\ flat_max' \in Nat
    BY <1>0, <2>1 DEF Flat!Most
  <2>a. flat_mem' \in BlocksOf(flat_end')
    BY <1>0, <1>p, <2>1, <2>2
  <2>b. flat_end' \in Nat /\ in' \in Nat /\ out' \in Nat /\ last' \in Nat /\ flat_fed' \in Nat
    BY <1>0, <1>p, <2>1, <2>2
  <2>c. flat_prepared' \in BOOLEAN /\ flat_result' \in {"ok", "length_error"} /\ flat_max' \in Sizes
    BY <1>0, <1>p, <2>1, <2>2
  <2>d. in' <= out' /\ out' <= last' /\ last' <= flat_end' /\ flat_end' <= AllocMax
    BY <1>0, <1>p, <2>1, <2>2
  <2>e. out' - in' <= flat_max'
    BY <1>0, <1>p, <2>1, <2>2
  <2>f. flat_prepared' => last' - in' <= flat_max'
    BY <1>0, <1>p, <2>1, <2>2
  <2> QED BY <1>i, <2>a, <2>b, <2>c, <2>d, <2>e, <2>f
<1>10. ASSUME NEW n \in Sizes, NEW limit \in Sizes, Flat!CopyAssign(n, limit) PROVE FlatInv'
  <2>1. /\ n \in Nat /\ limit \in Nat /\ n <= limit /\ flat_max' = limit
        /\ in' = 0 /\ out' = n /\ last' = n /\ flat_fed' = flat_fed + n
        /\ flat_prepared' = FALSE /\ flat_result' = "ok"
    BY <1>0, <1>10 DEF Flat!CopyAssign, Flat!CopyFrom
  <2>2. /\ flat_end' \in Nat /\ n <= flat_end' /\ flat_end' <= AllocMax
        /\ flat_mem' \in BlocksOf(flat_end')
    BY <1>0, <1>10, <2>1, FlatCopied DEF Flat!CopyAssign
  <2>a. flat_mem' \in BlocksOf(flat_end')
    BY <1>0, <2>1, <2>2
  <2>b. flat_end' \in Nat /\ in' \in Nat /\ out' \in Nat /\ last' \in Nat /\ flat_fed' \in Nat
    BY <1>0, <2>1, <2>2
  <2>c. flat_prepared' \in BOOLEAN /\ flat_result' \in {"ok", "length_error"} /\ flat_max' \in Sizes
    BY <1>0, <2>1, <2>2
  <2>d. in' <= out' /\ out' <= last' /\ last' <= flat_end' /\ flat_end' <= AllocMax
    BY <1>0, <2>1, <2>2
  <2>e. out' - in' <= flat_max'
    BY <1>0, <2>1, <2>2
  <2>f. flat_prepared' => last' - in' <= flat_max'
    BY <1>0, <2>1, <2>2
  <2> QED BY <1>i, <2>a, <2>b, <2>c, <2>d, <2>e, <2>f
<1>11. ASSUME NEW n \in Sizes, NEW limit \in Sizes, NEW a \in {0, 1},
              Flat!MoveAssign(a, n, limit, limit)
       PROVE  FlatInv'
  <2>1. /\ n \in Nat /\ limit \in Nat /\ a \in Nat /\ a + n <= limit /\ limit <= AllocMax
        /\ flat_max' = limit /\ flat_end' = limit
        /\ in' = a /\ out' = a + n /\ last' = a + n /\ flat_fed' = flat_fed + n
        /\ flat_prepared' = FALSE /\ flat_result' = "ok"
    BY <1>0, <1>11 DEF Flat!MoveAssign, Flat!Least
  <2>2. flat_mem' \in BlocksOf(flat_end')
    BY <1>0, <1>11, <2>1, FlatTaken
  <2>a. flat_mem' \in BlocksOf(flat_end')
    BY <1>0, <2>1, <2>2
  <2>b. flat_end' \in Nat /\ in' \in Nat /\ out' \in Nat /\ last' \in Nat /\ flat_fed' \in Nat
    BY <1>0, <2>1, <2>2
  <2>c. flat_prepared' \in BOOLEAN /\ flat_result' \in {"ok", "length_error"} /\ flat_max' \in Sizes
    BY <1>0, <2>1, <2>2
  <2>d. in' <= out' /\ out' <= last' /\ last' <= flat_end' /\ flat_end' <= AllocMax
    BY <1>0, <2>1, <2>2
  <2>e. out' - in' <= flat_max'
    BY <1>0, <2>1, <2>2
  <2>f. flat_prepared' => last' - in' <= flat_max'
    BY <1>0, <2>1, <2>2
  <2> QED BY <1>i, <2>a, <2>b, <2>c, <2>d, <2>e, <2>f
<1>12. ASSUME NEW n \in Sizes, flat_prepared, Flat!Commit(n) PROVE FlatInv'
  <2>1. /\ n \in Nat /\ flat_mem' = flat_mem /\ flat_end' = flat_end /\ in' = in /\ last' = last
        /\ flat_max' = flat_max /\ flat_fed' = flat_fed /\ flat_prepared' = FALSE /\ flat_result' = "ok"
        /\ out' = out + Flat!Least(n, last - out)
    BY <1>0, <1>12 DEF Flat!Commit
  <2>2. out' \in Nat /\ out <= out' /\ out' <= last
    BY <1>0, <2>1 DEF Flat!Least
  <2>3. last - in <= flat_max
    BY <1>0, <1>12, <1>p
  <2>a. flat_mem' \in BlocksOf(flat_end')
    BY <1>0, <2>1, <2>2, <2>3
  <2>b. flat_end' \in Nat /\ in' \in Nat /\ out' \in Nat /\ last' \in Nat /\ flat_fed' \in Nat
    BY <1>0, <2>1, <2>2, <2>3
  <2>c. flat_prepared' \in BOOLEAN /\ flat_result' \in {"ok", "length_error"} /\ flat_max' \in Sizes
    BY <1>0, <2>1, <2>2, <2>3
  <2>d. in' <= out' /\ out' <= last' /\ last' <= flat_end' /\ flat_end' <= AllocMax
    BY <1>0, <2>1, <2>2, <2>3
  <2>e. out' - in' <= flat_max'
    BY <1>0, <2>1, <2>2, <2>3
  <2>f. flat_prepared' => last' - in' <= flat_max'
    BY <1>0, <2>1, <2>2, <2>3
  <2> QED BY <1>i, <2>a, <2>b, <2>c, <2>d, <2>e, <2>f
<1> QED BY <1>1, <1>2, <1>3, <1>4, <1>5, <1>6, <1>7, <1>8, <1>9, <1>10, <1>11, <1>12
        DEF Flat!Next, Flat!Common

(* The sequences of a state: what data() and prepare() refer to.           *)
Readable == Flat!Slice(flat_mem, in, out)
Writable == IF flat_prepared THEN Flat!Slice(flat_mem, out, last) ELSE <<>>

LEMMA ReadableBytes ==
  ASSUME Flat!FlatBufferAssumption, FlatInv
  PROVE  /\ BytesAt(Readable, flat_mem, in, out - in)
         /\ Len(Readable) = out - in
<1>1. BytesAt(Flat!Slice(flat_mem, in, out), flat_mem, in, out - in)
  <2>1. /\ flat_mem \in BlocksOf(flat_end) /\ flat_end \in Nat
        /\ in \in Nat /\ out \in Nat /\ in <= out /\ out <= flat_end
    BY FlatNats
  <2> QED BY <2>1, FlatSlice
<1> QED BY <1>1 DEF Readable, BytesAt

LEMMA FreshBehind ==
  ASSUME NEW n \in Nat, flat_fed \in Nat, flat_end' \in Nat, out' \in Nat,
         flat_mem' \in BlocksOf(flat_end'), out' + n <= flat_end',
         \A i \in 0 .. n - 1 : flat_mem'[out' + i] = flat_fed + i + 1
  PROVE  Flat!Slice(flat_mem', out', out' + n) = Flat!Queue!Fresh(n)
BY FlatFresh

LEMMA FlatPrepareRefines ==
  ASSUME Flat!FlatBufferAssumption, FlatInv, NEW n \in Sizes, Flat!Prepare(n)
  PROVE  Flat!Queue!Prepare(n)
<1>1. /\ n \in Nat /\ out - in + n <= flat_max /\ flat_max' = flat_max
      /\ flat_fed' = flat_fed + n /\ flat_prepared' = TRUE /\ flat_result' = "ok"
  BY FlatNats DEF Flat!Prepare, Flat!size
<1>2. Found(n)
  BY FlatFound
<1>3. /\ flat_end' \in Nat /\ in' \in Nat /\ out' \in Nat /\ flat_mem' \in BlocksOf(flat_end')
      /\ out' - in' = out - in /\ last' = out' + n /\ last' <= flat_end'
  BY <1>2 DEF Found
<1>4. /\ flat_mem \in BlocksOf(flat_end) /\ flat_end \in Nat /\ in \in Nat /\ out \in Nat
      /\ in <= out /\ out <= flat_end /\ flat_fed \in Nat
  BY FlatNats
<1>5. PICK s \in Nat : s = out - in
  BY <1>4
<1>6. in' <= out' /\ out' <= flat_end' /\ out' - in' = s
  <2>1. PICK j \in Nat, p \in Nat, e \in Nat : j = in' /\ p = out' /\ e = flat_end'
    BY <1>3
  <2>2. p - j = out - in /\ p + n <= e
    BY <1>3, <2>1
  <2>3. j <= p /\ p <= e /\ p - j = s
    BY <1>1, <1>4, <1>5, <2>2
  <2> QED BY <2>1, <2>3
<1>7. Readable' = Readable
  <2>1. BytesAt(Flat!Slice(flat_mem', in', out'), flat_mem', in', out' - in')
    BY <1>3, <1>6, FlatSlice
  <2>2. BytesAt(Readable', flat_mem', in', s)
    BY <1>6, <2>1 DEF Readable
  <2>3. BytesAt(Readable, flat_mem, in, s)
    BY <1>5, ReadableBytes
  <2>4. \A i \in 0 .. s - 1 : flat_mem'[in' + i] = flat_mem[in + i]
    BY <1>2, <1>5 DEF Found
  <2> QED BY <1>3, <1>4, <2>2, <2>3, <2>4, SameBytesAt
<1>8. Writable' = Flat!Queue!Fresh(n)
  <2>1. \A i \in 0 .. n - 1 : flat_mem'[out' + i] = flat_fed + i + 1
    BY <1>2 DEF Found
  <2>2. Flat!Slice(flat_mem', out', out' + n) = Flat!Queue!Fresh(n)
    <3>1. out' + n <= flat_end'
      BY <1>3
    <3>2. flat_fed \in Nat /\ flat_end' \in Nat /\ out' \in Nat /\ flat_mem' \in BlocksOf(flat_end')
      BY <1>3, <1>4
    <3> QED BY <1>1, <2>1, <3>1, <3>2, FreshBehind
  <2> QED BY <1>1, <1>3, <2>2 DEF Writable
<1>9. Len(Readable) + n <= flat_max
  BY <1>1, ReadableBytes
<1> QED BY <1>1, <1>7, <1>8, <1>9 DEF Flat!Queue!Prepare, Readable, Writable

LEMMA FlatCommitRefines ==
  ASSUME Flat!FlatBufferAssumption, FlatInv, NEW n \in Sizes, flat_prepared, Flat!Commit(n)
  PROVE  Flat!Queue!Commit(n)
<1>1. /\ flat_mem \in BlocksOf(flat_end) /\ flat_end \in Nat /\ in \in Nat /\ out \in Nat
      /\ last \in Nat /\ in <= out /\ out <= last /\ last <= flat_end /\ n \in Nat
  BY FlatNats
<1>2. PICK s \in Nat, w \in Nat : s = out - in /\ w = last - out
  BY <1>1
<1>3. PICK k \in Nat : k = Flat!Least(n, w)
  BY <1>1, <1>2 DEF Flat!Least
<1>4. k <= w /\ out + k <= flat_end /\ out + k - in = s + k
  BY <1>1, <1>2, <1>3 DEF Flat!Least
<1>5. /\ flat_mem' = flat_mem /\ in' = in /\ out' = out + k
      /\ flat_prepared' = FALSE /\ flat_result' = "ok"
      /\ flat_max' = flat_max /\ flat_fed' = flat_fed
  BY <1>2, <1>3 DEF Flat!Commit
<1>6. BytesAt(Readable, flat_mem, in, s)
  BY <1>2, ReadableBytes
<1>7. BytesAt(Writable, flat_mem, out, w)
  <2>1. BytesAt(Flat!Slice(flat_mem, out, last), flat_mem, out, last - out)
    BY <1>1, FlatSlice
  <2> QED BY <1>2, <2>1 DEF Writable
<1>8. BytesAt(Readable', flat_mem, in, s + k)
  <2>1. PICK o \in Nat : o = out + k
    BY <1>1
  <2>2. o <= flat_end /\ in <= o /\ o - in = s + k
    BY <1>1, <1>4, <2>1
  <2>3. BytesAt(Flat!Slice(flat_mem, in, o), flat_mem, in, o - in)
    BY <1>1, <2>2, FlatSlice
  <2> QED BY <1>5, <2>1, <2>2, <2>3 DEF Readable
<1>9. Readable' = Readable \o SubSeq(Writable, 1, k)
  <2> DEFINE c == SubSeq(Writable, 1, k)
  <2>1. c \in Seq(Nat) /\ Len(c) = k /\ \A i \in 1 .. k : c[i] = Writable[i]
    BY <1>2, <1>4, <1>7 DEF BytesAt
  <2>2. \A i \in 1 .. k : c[i] = flat_mem[out + i - 1]
    BY <1>2, <1>4, <1>7, <2>1 DEF BytesAt
  <2> HIDE DEF c
  <2>3. /\ Readable \o c \in Seq(Nat)
        /\ Len(Readable \o c) = s + k
        /\ \A i \in 1 .. s + k : (Readable \o c)[i] = IF i <= s THEN Readable[i] ELSE c[i - s]
    BY <1>6, <2>1, ConcatProperties, ZenonT(60) DEF BytesAt
  <2>4. \A i \in 1 .. s + k : (Readable \o c)[i] = flat_mem[in + i - 1]
    <3> SUFFICES ASSUME NEW i \in 1 .. s + k PROVE (Readable \o c)[i] = flat_mem[in + i - 1]
      OBVIOUS
    <3>1. CASE i <= s
      BY <3>1, <2>3, <1>6, <1>2 DEF BytesAt
    <3>2. CASE ~(i <= s)
      <4>1. i - s \in 1 .. k /\ out + (i - s) - 1 = in + i - 1
        BY <3>2, <1>1, <1>2
      <4>2. c[i - s] = flat_mem[out + (i - s) - 1]
        BY <2>2, <4>1
      <4> QED BY <3>2, <2>3, <4>1, <4>2
    <3> QED BY <3>1, <3>2
  <2>5. Readable' \in Seq(Nat) /\ Len(Readable') = s + k
        /\ \A i \in 1 .. s + k : Readable'[i] = flat_mem[in + i - 1]
    BY <1>8 DEF BytesAt
  <2>6. \A i \in 1 .. s + k : Readable'[i] = (Readable \o c)[i]
    BY <2>4, <2>5
  <2>7. Readable' = Readable \o c
    BY <2>3, <2>5, <2>6, SameBytes
  <2> QED BY <2>7 DEF c
<1>10. Flat!Queue!Least(n, Len(Writable)) = k
  BY <1>3, <1>7 DEF BytesAt, Flat!Queue!Least, Flat!Least
<1>11. Readable' = Readable \o SubSeq(Writable, 1, Flat!Queue!Least(n, Len(Writable)))
  BY <1>9, <1>10
<1>12. Writable' = <<>>
  BY <1>5 DEF Writable
<1> QED BY <1>5, <1>11, <1>12 DEF Flat!Queue!Commit, Readable, Writable

LEMMA FlatConsumeRefines ==
  ASSUME Flat!FlatBufferAssumption, FlatInv, NEW n \in Sizes, Flat!Consume(n)
  PROVE  Flat!Queue!Consume(n)
<1>1. /\ flat_mem \in BlocksOf(flat_end) /\ flat_end \in Nat /\ in \in Nat /\ out \in Nat
      /\ in <= out /\ out <= flat_end /\ n \in Nat
  BY FlatNats
<1>2. PICK s \in Nat : s = out - in
  BY <1>1
<1>3. BytesAt(Readable, flat_mem, in, s)
  BY <1>2, ReadableBytes
<1>4. /\ flat_mem' = flat_mem /\ flat_prepared' = FALSE /\ flat_result' = "ok"
      /\ flat_max' = flat_max /\ flat_fed' = flat_fed
  BY DEF Flat!Consume
<1>5. Readable' = SubSeq(Readable, n + 1, s)
  <2>1. CASE n >= s
    <3>1. in' = 0 /\ out' = 0
      BY <1>2, <2>1 DEF Flat!Consume, Flat!size
    <3>2. Readable' = <<>>
      BY <3>1, FlatNone DEF Readable
    <3>3. SubSeq(Readable, n + 1, s) = <<>>
      BY <1>1, <2>1, SubSeqEmpty
    <3> QED BY <3>2, <3>3
  <2>2. CASE ~(n >= s)
    <3>1. in' = in + n /\ out' = out
      BY <1>2, <2>2 DEF Flat!Consume, Flat!size
    <3>2. PICK j \in Nat, t \in Nat : j = in + n /\ t = s - n
      BY <1>1, <2>2
    <3>3. j <= out /\ out - j = t
      BY <1>1, <1>2, <2>2, <3>2
    <3>4. BytesAt(Flat!Slice(flat_mem, j, out), flat_mem, j, out - j)
      BY <1>1, <3>3, FlatSlice
    <3>5. BytesAt(Readable', flat_mem, j, t)
      BY <1>4, <3>1, <3>2, <3>3, <3>4 DEF Readable
    <3>6. /\ SubSeq(Readable, n + 1, s) \in Seq(Nat)
          /\ Len(SubSeq(Readable, n + 1, s)) = t
          /\ \A i \in 1 .. t : SubSeq(Readable, n + 1, s)[i] = Readable[n + i]
      <4>1. \A i \in n + 1 .. s : Readable[i] \in Nat
        BY <1>1, <1>3 DEF BytesAt
      <4>2. /\ SubSeq(Readable, n + 1, s) \in Seq(Nat)
            /\ Len(SubSeq(Readable, n + 1, s)) = IF n + 1 <= s THEN s - (n + 1) + 1 ELSE 0
            /\ \A i \in 1 .. s - (n + 1) + 1 : SubSeq(Readable, n + 1, s)[i] = Readable[n + 1 + i - 1]
        BY <1>1, <4>1, SubSeqProperties
      <4>3. n + 1 <= s /\ s - (n + 1) + 1 = t /\ \A i \in 1 .. t : n + 1 + i - 1 = n + i
        BY <1>1, <2>2, <3>2
      <4> QED BY <4>2, <4>3
    <3>7. \A i \in 1 .. t : SubSeq(Readable, n + 1, s)[i] = flat_mem[j + i - 1]
      <4> SUFFICES ASSUME NEW i \in 1 .. t PROVE SubSeq(Readable, n + 1, s)[i] = flat_mem[j + i - 1]
        OBVIOUS
      <4>1. n + i \in 1 .. s /\ in + (n + i) - 1 = j + i - 1
        BY <1>1, <2>2, <3>2
      <4>2. Readable[n + i] = flat_mem[in + (n + i) - 1]
        BY <1>3, <4>1 DEF BytesAt
      <4> QED BY <3>6, <4>1, <4>2
    <3>8. \A i \in 1 .. t : Readable'[i] = SubSeq(Readable, n + 1, s)[i]
      BY <3>5, <3>7 DEF BytesAt
    <3>9. Readable' \in Seq(Nat) /\ Len(Readable') = t
      BY <3>5 DEF BytesAt
    <3> QED BY <3>6, <3>8, <3>9, SameBytes
  <2> QED BY <2>1, <2>2
<1>6. Readable' = SubSeq(Readable, n + 1, Len(Readable))
  BY <1>2, <1>5, ReadableBytes
<1>7. Writable' = <<>>
  BY <1>4 DEF Writable
<1> QED BY <1>4, <1>6, <1>7 DEF Flat!Queue!Consume, Readable, Writable

(* Assignments: the bytes of the other buffer, and no writable ones.       *)
LEMMA FlatAssigned ==
  ASSUME Flat!FlatBufferAssumption, FlatInv, NEW n \in Nat, NEW a \in Nat, NEW limit \in Nat,
         n <= limit, flat_end' \in Nat, flat_mem' \in BlocksOf(flat_end'), a + n <= flat_end',
         in' = a, out' = a + n, flat_max' = limit, flat_fed' = flat_fed + n,
         flat_prepared' = FALSE, flat_result' = "ok",
         \A i \in 0 .. n - 1 : flat_mem'[a + i] = flat_fed + i + 1
  PROVE  Flat!Queue!Assign(n, limit)
<1>1. flat_fed \in Nat
  BY FlatNats
<1>2. Flat!Slice(flat_mem', a, a + n) = Flat!Queue!Fresh(n)
  BY <1>1, FlatFresh, ZenonT(60)
<1>3. Readable' = Flat!Queue!Fresh(n) /\ Writable' = <<>>
  BY <1>2 DEF Readable, Writable
<1> QED BY <1>3 DEF Flat!Queue!Assign, Readable, Writable

(* A step that stores the bytes anew, or not at all.                       *)
LEMMA FlatRestored ==
  ASSUME NEW n \in Sizes, Readable' = Readable, flat_prepared' = FALSE, flat_result' = "ok",
         flat_fed' = flat_fed, flat_max' \in {flat_max, n}, flat_max' >= flat_max
  PROVE  Flat!Queue!Restore(n)
<1>1. Writable' = <<>>
  BY DEF Writable
<1> QED BY <1>1 DEF Flat!Queue!Restore, Readable, Writable

LEMMA FlatReserveRefines ==
  ASSUME Flat!FlatBufferAssumption, FlatInv, NEW n \in Sizes, Flat!Reserve(n)
  PROVE  Flat!Queue!Restore(n)
<1>1. /\ n \in Nat /\ flat_prepared' = FALSE /\ flat_result' = "ok" /\ flat_fed' = flat_fed
      /\ flat_max' = Flat!Most(flat_max, n) /\ flat_max \in Nat
  BY FlatNats DEF Flat!Reserve
<1>2. flat_max' \in {flat_max, n} /\ flat_max' >= flat_max /\ flat_max' >= n /\ flat_max' \in Nat
  BY <1>1 DEF Flat!Most
<1>3. Readable' = Readable
  <2>1. CASE n <= flat_end
    BY <2>1 DEF Flat!Reserve, Flat!block, Readable
  <2>2. CASE ~(n <= flat_end)
    <3> DEFINE c == Flat!Least(flat_max', Flat!Most(2 * (out - in), n))
    <3>0. in \in Nat /\ out \in Nat /\ in <= out /\ out - in <= flat_max /\ flat_end \in Nat /\ out <= flat_end
      BY FlatNats
    <3>1. c \in Nat /\ out - in <= c
      BY <1>1, <1>2, <2>2, <3>0 DEF Flat!Least, Flat!Most
    <3>2. flat_mem' = Flat!Moved(c) /\ flat_end' = c /\ in' = 0 /\ out' = out - in
      BY <2>2 DEF Flat!Reserve, Flat!size
    <3> HIDE DEF c
    <3>3. Flat!Slice(flat_mem', in', out') = Flat!Slice(flat_mem, in, out)
      BY <3>1, <3>2, FlatStored
    <3> QED BY <3>3 DEF Readable
  <2> QED BY <2>1, <2>2
<1> QED BY <1>1, <1>2, <1>3, FlatRestored

LEMMA FlatShrinkRefines ==
  ASSUME Flat!FlatBufferAssumption, FlatInv, Flat!ShrinkToFit
  PROVE  Flat!Queue!Restore(flat_max)
<1>1. flat_max \in Sizes /\ flat_max \in Nat
  BY FlatNats
<1>2. PICK c \in Nat : c = out - in
  BY FlatNats
<1>3. /\ flat_mem' = Flat!Moved(c) /\ flat_end' = c /\ in' = 0 /\ out' = out - in
      /\ flat_prepared' = FALSE /\ flat_result' = "ok" /\ flat_max' = flat_max /\ flat_fed' = flat_fed
  BY <1>2 DEF Flat!ShrinkToFit, Flat!size
<1>4. Flat!Slice(flat_mem', in', out') = Flat!Slice(flat_mem, in, out)
  BY <1>2, <1>3, FlatStored
<1>5. Readable' = Readable
  BY <1>4 DEF Readable
<1>6. flat_max' \in {flat_max, flat_max} /\ flat_max' >= flat_max
  BY <1>1, <1>3
<1> QED BY <1>1, <1>3, <1>5, <1>6, FlatRestored

LEMMA FlatEmptied ==
  ASSUME in' = 0, out' = 0, flat_prepared' = FALSE, flat_result' = "ok",
         flat_max' = flat_max, flat_fed' = flat_fed
  PROVE  Flat!Queue!Clear
<1>1. Readable' = <<>> /\ Writable' = <<>>
  BY FlatNone DEF Readable, Writable
<1> QED BY <1>1 DEF Flat!Queue!Clear, Readable, Writable

LEMMA FlatThrows ==
  ASSUME Flat!FlatBufferAssumption, FlatInv, NEW n \in Sizes
  PROVE  /\ Flat!PrepareThrows(n) => Flat!Queue!PrepareThrows(n)
         /\ Flat!ReserveThrows(n) => Flat!Queue!RestoreThrows(n)
<1>1. /\ in \in Nat /\ out \in Nat /\ in <= out /\ flat_max \in Nat /\ n \in Nat /\ AllocMax \in Nat
      /\ Len(Readable) = out - in
  BY FlatNats, ReadableBytes
<1>2. PICK s \in Nat : s = out - in
  BY <1>1
<1>3. ASSUME UNCHANGED Flat!block, flat_prepared' = flat_prepared
      PROVE  Readable' = Readable /\ Writable' = Writable
  BY <1>3 DEF Flat!block, Readable, Writable
<1>4. ASSUME Flat!PrepareThrows(n) PROVE Flat!Queue!PrepareThrows(n)
  <2>1. s + n > flat_max \/ s + n > AllocMax \/ 2 * s > AllocMax
    BY <1>1, <1>2, <1>4 DEF Flat!PrepareThrows, Flat!NewSize, Flat!Least, Flat!Most, Flat!size
  <2>2. Readable' = Readable /\ Writable' = Writable
    BY <1>3, <1>4 DEF Flat!PrepareThrows, Flat!Throw
  <2>3. flat_result' = "length_error" /\ flat_max' = flat_max /\ flat_fed' = flat_fed
    BY <1>4 DEF Flat!PrepareThrows, Flat!Throw
  <2>4. Len(Readable) = s
    BY <1>1, <1>2
  <2> QED BY <2>1, <2>2, <2>3, <2>4 DEF Flat!Queue!PrepareThrows, Readable, Writable
<1>5. ASSUME Flat!ReserveThrows(n) PROVE Flat!Queue!RestoreThrows(n)
  <2>0. /\ flat_max' = Flat!Most(flat_max, n)
        /\ Flat!Least(flat_max', Flat!Most(2 * s, n)) > AllocMax
    BY <1>2, <1>5 DEF Flat!ReserveThrows, Flat!size
  <2>1. n > AllocMax \/ 2 * s > AllocMax
    BY <1>1, <2>0 DEF Flat!Least, Flat!Most
  <2>2. Readable' = Readable /\ Writable' = Writable
    BY <1>3, <1>5 DEF Flat!ReserveThrows, Flat!Throw
  <2>3. flat_result' = "length_error" /\ flat_fed' = flat_fed
    BY <1>5 DEF Flat!ReserveThrows, Flat!Throw
  <2>4. flat_max' \in {flat_max, n} /\ flat_max' >= flat_max
    BY <1>1, <2>0 DEF Flat!Most
  <2>5. Len(Readable) = s
    BY <1>1, <1>2
  <2> QED BY <2>1, <2>2, <2>3, <2>4, <2>5 DEF Flat!Queue!RestoreThrows, Readable, Writable
<1> QED BY <1>4, <1>5

LEMMA FlatStepRefines ==
  ASSUME Flat!FlatBufferAssumption, FlatInv, [Flat!Next]_(Flat!vars)
  PROVE  [Flat!Queue!Next]_(Flat!Queue!vars)
<1>1. CASE UNCHANGED Flat!vars
  <2>1. Readable' = Readable /\ Writable' = Writable
    BY <1>1 DEF Flat!vars, Flat!block, Readable, Writable
  <2> QED BY <1>1, <2>1 DEF Flat!vars, Flat!Queue!vars, Readable, Writable
<1>2. CASE Flat!Clear \/ Flat!MovedFrom
  <2>1. Flat!Queue!Clear
    BY <1>2, FlatEmptied DEF Flat!Clear, Flat!MovedFrom
  <2> QED BY <2>1 DEF Flat!Queue!Next
<1>3. CASE Flat!ShrinkToFit
  BY <1>3, FlatNats, FlatShrinkRefines DEF Flat!Queue!Next
<1>4. ASSUME NEW n \in Sizes, Flat!Prepare(n) PROVE Flat!Queue!Next
  BY <1>4, FlatPrepareRefines DEF Flat!Queue!Next
<1>5. ASSUME NEW n \in Sizes, Flat!PrepareThrows(n) PROVE Flat!Queue!Next
  BY <1>5, FlatThrows DEF Flat!Queue!Next
<1>6. ASSUME NEW n \in Sizes, Flat!Consume(n) PROVE Flat!Queue!Next
  BY <1>6, FlatConsumeRefines DEF Flat!Queue!Next
<1>7. ASSUME NEW n \in Sizes, Flat!Reserve(n) PROVE Flat!Queue!Next
  BY <1>7, FlatReserveRefines DEF Flat!Queue!Next
<1>8. ASSUME NEW n \in Sizes, Flat!ReserveThrows(n) PROVE Flat!Queue!Next
  BY <1>8, FlatThrows DEF Flat!Queue!Next
<1>9. ASSUME NEW n \in Sizes, NEW limit \in Sizes, Flat!CopyAssign(n, limit)
      PROVE  Flat!Queue!Next
  <2>1. /\ n \in Nat /\ limit \in Nat /\ n <= limit /\ flat_max' = limit
        /\ in' = 0 /\ out' = 0 + n /\ flat_fed' = flat_fed + n
        /\ flat_prepared' = FALSE /\ flat_result' = "ok"
    BY <1>9, FlatNats DEF Flat!CopyAssign, Flat!CopyFrom
  <2>2. /\ flat_end' \in Nat /\ n <= flat_end' /\ flat_mem' \in BlocksOf(flat_end')
        /\ \A i \in 0 .. n - 1 : flat_mem'[0 + i] = flat_fed + i + 1
    BY <1>9, <2>1, FlatCopied DEF Flat!CopyAssign
  <2>3. 0 + n <= flat_end'
    BY <2>1, <2>2
  <2>4. Flat!Queue!Assign(n, limit)
    BY <2>1, <2>2, <2>3, FlatAssigned
  <2> QED BY <2>4 DEF Flat!Queue!Next
<1>10. ASSUME NEW n \in Sizes, NEW limit \in Sizes, NEW a \in {0, 1},
              Flat!MoveAssign(a, n, limit, limit)
       PROVE  Flat!Queue!Next
  <2>1. /\ n \in Nat /\ limit \in Nat /\ a \in Nat /\ a + n <= limit /\ n <= limit
        /\ flat_max' = limit /\ flat_end' = limit
        /\ in' = a /\ out' = a + n /\ flat_fed' = flat_fed + n
        /\ flat_prepared' = FALSE /\ flat_result' = "ok"
    BY <1>10, FlatNats, SMTT(120) DEF Flat!MoveAssign
  <2>2. /\ flat_mem' \in BlocksOf(limit)
        /\ \A i \in 0 .. n - 1 : flat_mem'[a + i] = flat_fed + i + 1
    BY <1>10, <2>1, FlatTaken
  <2>3. flat_end' \in Nat /\ flat_mem' \in BlocksOf(flat_end') /\ a + n <= flat_end'
    BY <2>1, <2>2
  <2>4. Flat!Queue!Assign(n, limit)
    BY <2>1, <2>2, <2>3, FlatAssigned
  <2> QED BY <2>4 DEF Flat!Queue!Next
<1>11. ASSUME NEW n \in Sizes, flat_prepared, Flat!Commit(n) PROVE Flat!Queue!Next
  BY <1>11, FlatCommitRefines DEF Flat!Queue!Next
<1> QED BY <1>1, <1>2, <1>3, <1>4, <1>5, <1>6, <1>7, <1>8, <1>9, <1>10, <1>11
        DEF Flat!Next, Flat!Common

LEMMA FlatInitRefines ==
  ASSUME Flat!FlatBufferAssumption, Flat!Init
  PROVE  \E limit \in Sizes : Flat!Queue!Init(limit)
<1>1. /\ in = 0 /\ out = 0 /\ flat_prepared = FALSE /\ flat_max \in Sizes /\ flat_fed = 0
      /\ flat_result = "ok"
  BY DEF Flat!Init
<1>2. Readable = <<>> /\ Writable = <<>>
  BY <1>1, FlatNone DEF Readable, Writable
<1>3. Flat!Queue!Init(flat_max)
  BY <1>1, <1>2 DEF Flat!Queue!Init, Readable, Writable
<1> QED BY <1>1, <1>3

(* The pointers of flat_buffer stay in order and inside of its block, and  *)
(* it never holds more than max_size(), whatever is prepared, committed,   *)
(* consumed, reserved, shrunk and assigned.                                *)
THEOREM FlatPositions ==
  ASSUME Flat!FlatBufferAssumption
  PROVE  Flat!Spec => [](Flat!PointersInv /\ Flat!MaxSizeHolds)
<1>1. Flat!Init => FlatInv
  BY FlatInitInv
<1>2. FlatInv /\ [Flat!Next]_(Flat!vars) => FlatInv'
  BY FlatSteps
<1>3. FlatInv => Flat!PointersInv /\ Flat!MaxSizeHolds
  BY DEF FlatInv
<1> QED BY <1>1, <1>2, <1>3, PTL DEF Flat!Spec

(* flat_buffer, the buffer Handler reads responses into, is a ByteQueue:   *)
(* bytes come out as they went in, across every move and replacement of    *)
(* its block, and a call that throws loses none.                           *)
THEOREM FlatImplements ==
  ASSUME Flat!FlatBufferAssumption
  PROVE  Flat!Spec => Flat!ImplementsByteQueue
<1>1. Flat!Init => FlatInv
  BY FlatInitInv
<1>2. FlatInv /\ [Flat!Next]_(Flat!vars) => FlatInv'
  BY FlatSteps
<1>3. Flat!Init => \E limit \in Sizes : Flat!Queue!Init(limit)
  BY FlatInitRefines
<1>4. FlatInv /\ [Flat!Next]_(Flat!vars) => [Flat!Queue!Next]_(Flat!Queue!vars)
  BY FlatStepRefines
<1> QED BY <1>1, <1>2, <1>3, <1>4, PTL DEF Flat!Spec, Flat!ImplementsByteQueue, Flat!Queue!Spec

=============================================================================
