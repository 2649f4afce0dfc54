----------------------------- MODULE HttpProofs -----------------------------
(***************************************************************************)
(* Proofs about messages of HTTP.  Writing: the functions that write a     *)
(* serializer, for any bodies, any mixture of calls, any pieces the stream *)
(* takes and any number of its errors.  Reading: the parser and the        *)
(* functions that fill it, for any bytes, malformed ones too, arriving in  *)
(* any pieces, and any limits.                                             *)
(***************************************************************************)
EXTENDS WriteOps, FiniteSetTheorems, WellFoundedInduction, TLAPS

CONSTANTS Messages, HeaderLimits, BodyLimits, Unlimited, BufferMaxes, Rooms

VARIABLES
  msg, headerLimit, bodyMax, base, got, at, p, read_first, state, flags, len,
  len0, skip, bodyLimit, room, read_ec, out, read_seen, bufferMax, read_op,
  result, cut

Read == INSTANCE HttpRead WITH
  first <- read_first, ec <- read_ec, seen <- read_seen, op <- read_op

Piece == Nat \cup {Need, End}

(* write_header() without a handler writes with net::write, which does not *)
(* tell the serializer of what it wrote before an error; all others go on  *)
(* where the stream stopped.                                               *)
Blocking(o) == o.what = "header" /\ o.kind # "async"
NoErrorInHeader == MaxErrors = 0 \/ \A c \in Calls : ~Blocking(c)

(* A serializer: what is shown has been started, and a body is not at its  *)
(* end before, nor does it end with a piece that the caller owes.          *)
SerializerOK(x) ==
  /\ x \in [body : Seq(Piece), used : Nat, left : Nat, shown : BOOLEAN, alone : BOOLEAN,
            split : BOOLEAN, header : BOOLEAN, started : BOOLEAN]
  /\ x.shown => x.started
  /\ x.body = <<>> => x.started
  /\ x.body # <<>> => x.body[Len(x.body)] # Need

SrInv ==
  /\ SerializerOK(sr)
  /\ pc \in {"idle", "next", "writing", "posted"}
  /\ op \in Calls \cup {NoCall}
  /\ pc = "writing" => sr.shown
  /\ pc # "idle" => op \in Calls

(* What the stream took since the call is what was counted, but for what   *)
(* net::write is about to tell.                                            *)
InNetWrite == pc = "writing" /\ Blocking(op)

CountInv ==
  /\ sent \in Seq(Nat) /\ before \in Nat /\ count \in Nat
  /\ op.kind # "ostream" =>
       /\ pc # "idle" /\ ~InNetWrite => Len(sent) = before + count
       /\ InNetWrite => before + count <= Len(sent)
       /\ pc = "idle" /\ op.kind # "none" /\ told.n >= 0 => told.n = Len(sent) - before

(* And it is the message up to where the serializer is.                    *)
SentInv ==
  op.kind # "ostream" =>
    /\ sent = Bytes(0, Len(sent))
    /\ IF InNetWrite THEN before + count = sr.used ELSE Len(sent) = sr.used

------------------------------------------------------------------------------
(* Bytes that follow one another.                                          *)
LEMMA Joined ==
  ASSUME NEW s \in Seq(Nat), NEW t \in Seq(Nat)
  PROVE  s \o t \in Seq(Nat) /\ Len(s \o t) = Len(s) + Len(t)
OBVIOUS

LEMMA Same ==
  ASSUME NEW s \in Seq(Nat), NEW t \in Seq(Nat), Len(s) = Len(t), \A i \in 1 .. Len(s) : s[i] = t[i]
  PROVE  s = t
OBVIOUS

LEMMA BytesFollow ==
  ASSUME NEW a \in Nat, NEW n \in Nat
  PROVE  /\ Bytes(a, n) \in Seq(Nat) /\ Len(Bytes(a, n)) = n
         /\ Bytes(0, a) \o Bytes(a, n) = Bytes(0, a + n)
<1>1. /\ Bytes(a, n) \in Seq(Nat) /\ Len(Bytes(a, n)) = n
      /\ Bytes(0, a) \in Seq(Nat) /\ Len(Bytes(0, a)) = a
      /\ Bytes(0, a + n) \in Seq(Nat) /\ Len(Bytes(0, a + n)) = a + n
  BY DEF Bytes
<1>2. \A i \in 1 .. a + n : (Bytes(0, a) \o Bytes(a, n))[i] = i
  BY <1>1 DEF Bytes
<1>3. \A i \in 1 .. a + n : Bytes(0, a + n)[i] = i
  BY DEF Bytes
<1> DEFINE b == Bytes(0, a)
           c == Bytes(a, n)
           d == Bytes(0, a + n)
<1> HIDE DEF b, c, d
<1>4. b \o c \in Seq(Nat) /\ Len(b \o c) = a + n
  <2>1. b \in Seq(Nat) /\ c \in Seq(Nat) /\ Len(b) = a /\ Len(c) = n
    BY <1>1 DEF b, c
  <2> QED BY <2>1, Joined
<1>5. d \in Seq(Nat) /\ Len(d) = a + n
  BY <1>1 DEF d
<1>6. \A i \in 1 .. a + n : (b \o c)[i] = d[i]
  BY <1>2, <1>3 DEF b, c, d
<1>7. b \o c = d
  BY <1>4, <1>5, <1>6, Same
<1> QED BY <1>1, <1>7 DEF b, c, d

(* A new serializer.                                                       *)
LEMMA FreshOK ==
  ASSUME WriteOpsAssumption, NEW b \in Bodies
  PROVE  SerializerOK(Fresh(b)) /\ Fresh(b).used = 0
BY DEF WriteOpsAssumption, SerializerOK, Fresh, Piece

(* The serializer goes on.                                                 *)
LEMMA ConsumedKeeps ==
  ASSUME NEW x, SerializerOK(x), x.shown, NEW n \in Nat, n <= x.left
  PROVE  SerializerOK(Consumed(x, n)) /\ Consumed(x, n).used = x.used + n
<1> DEFINE y == Consumed(x, n)
           l == x.left - n
           b == IF x.alone /\ ~x.split THEN <<>> ELSE x.body
<1>1. l \in Nat /\ x.started /\ x.used + n \in Nat
  BY DEF SerializerOK
<1>2. b \in Seq(Piece) /\ (b # <<>> => b = x.body)
  BY DEF SerializerOK
<1>3. y = IF l > 0 THEN [x EXCEPT !.used = x.used + n, !.left = l]
          ELSE [x EXCEPT !.used = x.used + n, !.left = 0, !.shown = FALSE, !.header = TRUE, !.body = b]
  BY DEF Consumed
<1> HIDE DEF y, l, b
<1>4. CASE l > 0
  BY <1>1, <1>3, <1>4 DEF SerializerOK, y
<1>5. CASE ~(l > 0)
  <2>1. y = [x EXCEPT !.used = x.used + n, !.left = 0, !.shown = FALSE, !.header = TRUE, !.body = b]
    BY <1>3, <1>5
  <2>2. /\ y \in [body : Seq(Piece), used : Nat, left : Nat, shown : BOOLEAN, alone : BOOLEAN,
                  split : BOOLEAN, header : BOOLEAN, started : BOOLEAN]
        /\ y.started /\ ~y.shown /\ y.body = b /\ y.used = x.used + n
    BY <1>1, <1>2, <2>1 DEF SerializerOK
  <2> QED BY <1>2, <2>2 DEF SerializerOK, y
<1> QED BY <1>4, <1>5

LEMMA ShownKeeps ==
  ASSUME WriteOpsAssumption, NEW x, SerializerOK(x), Outcome(x) \in {"shown", "header", "piece"}
  PROVE  SerializerOK(Shown(x)) /\ Shown(x).used = x.used /\ Shown(x).shown
<1> USE DEF SerializerOK
<1>1. CASE Outcome(x) = "shown"
  <2>1. x.shown
    BY <1>1 DEF Outcome
  <2> QED BY <1>1, <2>1 DEF Shown
<1>2. CASE Outcome(x) = "header"
  <2>1. ~x.shown /\ ~(x.body = <<>> /\ x.started) /\ Header \in Nat
    BY <1>2 DEF Outcome, is_done, WriteOpsAssumption
  <2>2. Shown(x) = [x EXCEPT !.started = TRUE, !.shown = TRUE, !.alone = TRUE, !.left = Header]
    BY <1>2 DEF Shown
  <2> QED BY <2>1, <2>2
<1>3. CASE Outcome(x) = "piece"
  <2> DEFINE l == x.body[1] + (IF x.started THEN 0 ELSE Header)
             b == Tail(x.body)
  <2>1. x.body # <<>> /\ x.body[1] # Need /\ x.body[1] # End
    BY <1>3 DEF Outcome, is_done
  <2>2. x.body[1] \in Nat /\ Header \in Nat
    BY <2>1 DEF Piece, WriteOpsAssumption
  <2>3. l \in Nat
    BY <2>2
  <2>4. b \in Seq(Piece) /\ (b # <<>> => b[Len(b)] = x.body[Len(x.body)])
    BY <2>1
  <2>5. Shown(x) = [x EXCEPT !.started = TRUE, !.shown = TRUE, !.alone = FALSE, !.body = b, !.left = l]
    BY <1>3 DEF Shown
  <2> HIDE DEF l, b
  <2> QED BY <2>1, <2>3, <2>4, <2>5
<1> QED BY <1>1, <1>2, <1>3

LEMMA NeedKeeps ==
  ASSUME NEW x, SerializerOK(x), Outcome(x) = "need"
  PROVE  /\ SerializerOK([x EXCEPT !.body = Tail(@)])
         /\ ~x.shown
<1> DEFINE b == Tail(x.body)
           y == [x EXCEPT !.body = b]
<1>1. ~x.shown /\ ~is_done(x)
  BY DEF Outcome
<1>2. x.body # <<>> /\ x.body[1] = Need
  BY <1>1 DEF Outcome, is_done, SerializerOK, Need, End
<1>3. Len(x.body) > 1 /\ x.body \in Seq(Piece)
  BY <1>2 DEF SerializerOK
<1>4. b \in Seq(Piece) /\ b # <<>> /\ b[Len(b)] = x.body[Len(x.body)]
  <2> DEFINE c == x.body
  <2>1. c \in Seq(Piece) /\ Len(c) > 1
    BY <1>3
  <2> HIDE DEF c
  <2>2. Tail(c) \in Seq(Piece) /\ Len(Tail(c)) = Len(c) - 1 /\ Len(c) \in Nat
    BY <2>1
  <2>3. Tail(c)[Len(c) - 1] = c[Len(c) - 1 + 1] /\ Tail(c) # <<>>
    <3>1. \A i \in 1 .. Len(c) - 1 : Tail(c)[i] = c[i + 1]
      BY <2>1
    <3>2. Len(c) - 1 \in 1 .. Len(c) - 1 /\ Len(Tail(c)) > 0
      BY <2>1, <2>2
    <3>3. Tail(c) # <<>>
      BY <3>2
    <3> QED BY <3>1, <3>2, <3>3
  <2>4. Len(c) - 1 + 1 = Len(c)
    BY <2>2
  <2> QED BY <2>2, <2>3, <2>4 DEF c
<1> HIDE DEF b
<1>5. SerializerOK(y)
  BY <1>1, <1>2, <1>4 DEF SerializerOK
<1> QED BY <1>1, <1>5 DEF b

LEMMA EndKeeps ==
  ASSUME NEW x, SerializerOK(x), Outcome(x) \in {"done", "end"}
  PROVE  /\ SerializerOK(IF is_done(x) THEN x ELSE [x EXCEPT !.body = <<>>])
         /\ ~x.shown
<1> USE DEF SerializerOK
<1>1. CASE is_done(x)
  BY <1>1 DEF is_done
<1>2. CASE ~is_done(x)
  <2>1. Outcome(x) = "end" /\ ~x.shown
    BY <1>2 DEF Outcome
  <2>2. x.started
    BY <1>2, <2>1 DEF Outcome
  <2> DEFINE y == [x EXCEPT !.body = <<>>]
  <2>3. <<>> \in Seq(Piece)
    OBVIOUS
  <2>4. SerializerOK(y)
    BY <2>1, <2>2, <2>3
  <2> QED BY <1>2, <2>1, <2>4
<1> QED BY <1>1, <1>2

(* The stream took n bytes of what x shows, or of nothing.                 *)
LEMMA WroteKeeps ==
  ASSUME NEW ec, NEW n \in Nat, NEW x, Wrote(ec, n, x),
         SerializerOK(x), ec = "ok" => n <= x.left, x.shown \/ n = 0,
         op \in Calls, before \in Nat, count \in Nat, UNCHANGED before,
         sent' \in Seq(Nat), op.kind # "ostream" => Len(sent') = before + count + n
  PROVE  /\ SrInv' /\ CountInv'
         /\ \/ ec # "ok" /\ n # 0
            \/ op.kind # "ostream" /\ ~(Len(sent') = x.used + n /\ sent' = Bytes(0, Len(sent')))
            \/ SentInv'
<1> DEFINE y == IF ec = "ok" /\ x.shown THEN Consumed(x, n) ELSE x
           more == ec = "ok" /\ op.what # "some" /\ ~Predicate(op, y)
<1>1. SerializerOK(y) /\ (ec = "ok" \/ n = 0 => y.used = x.used + n)
  <2>1. x.used \in Nat
    BY DEF SerializerOK
  <2> QED BY <2>1, ConsumedKeeps
<1>2. sr' = y /\ op' = op /\ count' = count + n
  BY DEF Wrote
<1>3. \/ more /\ pc' = "next"
      \/ pc' = "idle" /\ told' = [ec |-> ec, n |-> IF op.kind = "throwing" /\ ec # "ok" THEN -1 ELSE count']
  BY <1>2 DEF Wrote, Told
<1> HIDE DEF y, more
<1>4. SrInv'
  BY <1>1, <1>2, <1>3 DEF SrInv
<1>5. CountInv'
  <2>1. count' \in Nat /\ before' \in Nat /\ count' = count + n /\ before' = before
    BY <1>2
  <2>2. CASE op.kind = "ostream"
    BY <1>2, <2>1, <2>2 DEF CountInv
  <2>3. CASE op.kind # "ostream" /\ more /\ pc' = "next"
    <3>1. Len(sent') = before' + count'
      BY <2>1, <2>3
    <3> QED BY <2>1, <2>3, <3>1 DEF CountInv, InNetWrite
  <2>4. CASE op.kind # "ostream" /\ pc' = "idle"
    <3>1. told'.n >= 0 => told'.n = count'
      <4>1. CASE pc' = "next"
        BY <2>4, <4>1
      <4>2. CASE told' = [ec |-> ec, n |-> IF op.kind = "throwing" /\ ec # "ok" THEN -1 ELSE count']
        <5>1. told'.n = -1 \/ told'.n = count'
          BY <4>2
        <5> QED BY <5>1
      <4> QED BY <1>3, <4>1, <4>2
    <3>2. Len(sent') = before' + count'
      BY <2>1, <2>4
    <3>3. told'.n >= 0 => told'.n = Len(sent') - before'
      BY <2>1, <3>1, <3>2
    <3>4. pc' = "idle" /\ sent' \in Seq(Nat)
      BY <2>4
    <3> QED BY <2>1, <3>3, <3>4 DEF CountInv, InNetWrite
  <2> QED BY <1>3, <2>2, <2>3, <2>4
<1>6. ASSUME ec = "ok" \/ n = 0, Len(sent') = x.used + n, sent' = Bytes(0, Len(sent')) PROVE SentInv'
  BY <1>1, <1>2, <1>3, <1>6 DEF SentInv, InNetWrite
<1>7. op.kind = "ostream" => SentInv'
  BY <1>2 DEF SentInv
<1> QED BY <1>4, <1>5, <1>6, <1>7

------------------------------------------------------------------------------
(* The steps, without SentInv and with it.                                 *)
IInv == SrInv /\ CountInv /\ errors \in Nat

LEMMA Initially == WriteOpsAssumption /\ Init => IInv /\ SentInv
<1> SUFFICES ASSUME WriteOpsAssumption, Init PROVE IInv /\ SentInv
  OBVIOUS
<1>1. PICK b \in Bodies : sr = Fresh(b)
  BY DEF Init
<1>2. SerializerOK(sr) /\ sr.used = 0
  BY <1>1, FreshOK
<1>3. sent = <<>> /\ Bytes(0, 0) = <<>>
  BY DEF Init, Bytes
<1> QED BY <1>2, <1>3 DEF Init, IInv, SrInv, CountInv, SentInv, InNetWrite, NoCall

LEMMA MakeKeeps ==
  ASSUME WriteOpsAssumption, IInv, Make
  PROVE  IInv' /\ SentInv'
<1>1. PICK b \in Bodies : sr' = Fresh(b)
  BY DEF Make
<1>2. SerializerOK(sr') /\ sr'.used = 0
  BY <1>1, FreshOK
<1>3. sent' = <<>> /\ Bytes(0, 0) = <<>>
  BY DEF Make, Bytes
<1>4. /\ pc' = "idle" /\ op' = NoCall /\ before' = 0 /\ count' = count /\ told' = told
      /\ errors' = errors
  BY DEF Make
<1> QED BY <1>2, <1>3, <1>4 DEF IInv, SrInv, CountInv, SentInv, InNetWrite, NoCall

(* A call.                                                                 *)
LEMMA CallKeeps ==
  ASSUME WriteOpsAssumption, IInv, NEW o \in Calls, Start(o) \/ StartAsync(o) \/ StartMessage(o)
  PROVE  IInv' /\ (SentInv => SentInv')
<1>1. /\ pc = "idle" /\ op' = o /\ count' = 0 /\ before' = Len(sent) /\ sent' = sent
      /\ sr' = [sr EXCEPT !.split = Split(o, sr)] /\ op.what # "message"
      /\ pc' \in {"idle", "next", "posted"} /\ errors' = errors
      /\ pc' = "idle" => told'.n \in {0, -1}
  BY DEF Start, StartAsync, StartMessage, Called, Told
<1>2. SerializerOK(sr') /\ sr'.used = sr.used
  <2>1. Split(o, sr) \in BOOLEAN
    BY DEF IInv, SrInv, SerializerOK, Split
  <2> QED BY <1>1, <2>1 DEF IInv, SrInv, SerializerOK
<1>3. op.kind # "ostream"
  BY <1>1 DEF IInv, SrInv, WriteOpsAssumption, NoCall
<1>4. sent \in Seq(Nat) /\ Len(sent) \in Nat
  BY DEF IInv, CountInv
<1>5. IInv'
  BY <1>1, <1>2, <1>4 DEF IInv, SrInv, CountInv, InNetWrite
<1>6. SentInv => SentInv'
  BY <1>1, <1>2, <1>3, <1>4 DEF SentInv, InNetWrite
<1> QED BY <1>5, <1>6

(* next() is asked for what to write.                                      *)
LEMMA VisitKeeps ==
  ASSUME WriteOpsAssumption, IInv, Visit
  PROVE  IInv' /\ (SentInv => SentInv')
<1>1. /\ pc = "next" /\ Outcome(sr) \in {"shown", "header", "piece"}
      /\ sr' = Shown(sr) /\ pc' = "writing"
      /\ UNCHANGED <<op, count, told, sent, before, errors>>
  BY DEF Visit
<1>2. SerializerOK(sr') /\ sr'.used = sr.used /\ sr'.shown
  BY <1>1, ShownKeeps DEF IInv, SrInv
<1>3. Len(sent) \in Nat
  BY DEF IInv, CountInv
<1> QED BY <1>1, <1>2, <1>3 DEF IInv, SrInv, CountInv, SentInv, InNetWrite

(* A part of a call that writes nothing.                                   *)
LEMMA NothingKeeps ==
  ASSUME IInv, pc = "next", NEW ec, NEW x, SerializerOK(x), ~x.shown, x.used = sr.used,
         Nothing(ec, x), UNCHANGED <<sent, before, errors>>
  PROVE  IInv' /\ (SentInv => SentInv')
<1>1. op \in Calls /\ sent \in Seq(Nat) /\ Len(sent) \in Nat /\ x.used \in Nat /\ x.left \in Nat
  BY DEF IInv, SrInv, CountInv, SerializerOK
<1>2. op.kind # "ostream" => Len(sent) = before + count /\ before \in Nat /\ count \in Nat
  BY DEF IInv, CountInv, InNetWrite
<1>3. SentInv /\ op.kind # "ostream" => sent = Bytes(0, Len(sent)) /\ Len(sent) = x.used
  BY DEF SentInv, InNetWrite
<1>4. CASE op.kind = "async"
  <2>1. pc' = "posted" /\ sr' = x /\ UNCHANGED <<op, count, told>>
    BY <1>4 DEF Nothing
  <2> QED BY <1>1, <1>2, <1>3, <2>1 DEF IInv, SrInv, CountInv, SentInv, InNetWrite
<1>5. CASE op.kind # "async"
  <2>1. Wrote(ec, 0, x)
    BY <1>5 DEF Nothing
  <2>2. before \in Nat /\ count \in Nat /\ sent' = sent /\ before' = before
    BY DEF IInv, CountInv
  <2>3. /\ SrInv' /\ CountInv'
        /\ \/ op.kind # "ostream" /\ ~(Len(sent') = x.used + 0 /\ sent' = Bytes(0, Len(sent')))
           \/ SentInv'
    BY <1>1, <1>2, <2>1, <2>2, WroteKeeps
  <2> QED BY <1>1, <1>3, <2>2, <2>3 DEF IInv
<1> QED BY <1>4, <1>5

LEMMA NextKeeps ==
  ASSUME IInv, NextFails \/ NextEnds \/ Posted
  PROVE  IInv' /\ (SentInv => SentInv')
<1>1. CASE NextFails
  <2> DEFINE x == [sr EXCEPT !.body = Tail(@)]
  <2>1. SerializerOK(x) /\ ~x.shown /\ x.used = sr.used
    BY <1>1, NeedKeeps DEF NextFails, IInv, SrInv, SerializerOK
  <2>2. pc = "next" /\ Nothing("need_buffer", x) /\ UNCHANGED <<sent, before, errors>>
    BY <1>1 DEF NextFails
  <2> HIDE DEF x
  <2> QED BY <2>1, <2>2, NothingKeeps
<1>2. CASE NextEnds
  <2> DEFINE x == IF is_done(sr) THEN sr ELSE [sr EXCEPT !.body = <<>>]
  <2>1. SerializerOK(x) /\ ~x.shown /\ x.used = sr.used
    BY <1>2, EndKeeps DEF NextEnds, IInv, SrInv, SerializerOK
  <2>2. pc = "next" /\ Nothing("ok", x) /\ UNCHANGED <<sent, before, errors>>
    BY <1>2 DEF NextEnds
  <2> HIDE DEF x
  <2> QED BY <2>1, <2>2, NothingKeeps
<1>3. CASE Posted
  <2>1. /\ pc = "posted" /\ Wrote(posted, 0, sr) /\ sent' = sent /\ before' = before /\ errors' = errors
        /\ op \in Calls /\ SerializerOK(sr) /\ sent \in Seq(Nat) /\ Len(sent) \in Nat
        /\ before \in Nat /\ count \in Nat /\ sr.left \in Nat /\ sr.used \in Nat
    BY <1>3 DEF Posted, IInv, SrInv, CountInv, SerializerOK
  <2>2. op.kind # "ostream" => Len(sent) = before + count
    BY <2>1 DEF IInv, CountInv, InNetWrite
  <2>3. SentInv /\ op.kind # "ostream" => sent = Bytes(0, Len(sent)) /\ Len(sent) = sr.used
    BY <2>1 DEF SentInv, InNetWrite
  <2>4. /\ SrInv' /\ CountInv'
        /\ \/ op.kind # "ostream" /\ ~(Len(sent') = sr.used + 0 /\ sent' = Bytes(0, Len(sent')))
           \/ SentInv'
    BY <2>1, <2>2, WroteKeeps
  <2> QED BY <2>1, <2>3, <2>4 DEF IInv
<1> QED BY <1>1, <1>2, <1>3

(* The stream takes n bytes of those shown behind the first k of them.     *)
LEMMA TakenFollow ==
  ASSUME CountInv, NEW k \in Nat, NEW n \in Nat, sent' = sent \o Bytes(sr.used + k, n), sr.used \in Nat
  PROVE  /\ sent' \in Seq(Nat) /\ Len(sent') = Len(sent) + n
         /\ sent = Bytes(0, Len(sent)) /\ Len(sent) = sr.used + k => sent' = Bytes(0, Len(sent'))
<1>1. sr.used + k \in Nat /\ sent \in Seq(Nat) /\ Len(sent) \in Nat
  BY DEF CountInv
<1>2. Bytes(sr.used + k, n) \in Seq(Nat) /\ Len(Bytes(sr.used + k, n)) = n
  BY <1>1, BytesFollow
<1>3. sent' \in Seq(Nat) /\ Len(sent') = Len(sent) + n
  BY <1>1, <1>2, Joined
<1>4. ASSUME sent = Bytes(0, Len(sent)), Len(sent) = sr.used + k PROVE sent' = Bytes(0, Len(sent'))
  <2> DEFINE m == sr.used + k
  <2>1. m \in Nat /\ Len(sent) = m /\ sent = Bytes(0, m) /\ sent' = sent \o Bytes(m, n)
    BY <1>1, <1>4
  <2> HIDE DEF m
  <2>2. sent' = Bytes(0, m + n)
    BY <2>1, BytesFollow
  <2> QED BY <1>3, <2>1, <2>2
<1> QED BY <1>3, <1>4

LEMMA StreamKeeps ==
  ASSUME IInv, StreamWrites
  PROVE  IInv' /\ (SentInv => SentInv')
<1>1. PICK n \in IF sr.left = 0 THEN {0} ELSE 1 .. sr.left :
        sent' = sent \o Bytes(sr.used, n) /\ Wrote("ok", n, sr)
  BY DEF StreamWrites
<1>2. /\ pc = "writing" /\ ~InNetWrite /\ op.kind # "ostream" /\ before' = before /\ errors' = errors
      /\ op \in Calls /\ SerializerOK(sr) /\ sr.shown /\ sr.left \in Nat /\ sr.used \in Nat
      /\ before \in Nat /\ count \in Nat /\ sent \in Seq(Nat) /\ Len(sent) \in Nat
  BY DEF StreamWrites, InNetWrite, Blocking, IInv, SrInv, CountInv, SerializerOK
<1>3. n \in Nat /\ n <= sr.left
  BY <1>1, <1>2
<1>4. sr.used + 0 = sr.used
  BY <1>2
<1>5. /\ sent' \in Seq(Nat) /\ Len(sent') = Len(sent) + n
      /\ sent = Bytes(0, Len(sent)) /\ Len(sent) = sr.used => sent' = Bytes(0, Len(sent'))
  BY <1>1, <1>2, <1>3, <1>4, TakenFollow DEF IInv
<1>6. Len(sent) = before + count
  BY <1>2 DEF IInv, CountInv
<1>7. /\ SrInv' /\ CountInv'
      /\ \/ ~(Len(sent') = sr.used + n /\ sent' = Bytes(0, Len(sent')))
         \/ SentInv'
  BY <1>1, <1>2, <1>3, <1>5, <1>6, WroteKeeps
<1>8. SentInv => sent = Bytes(0, Len(sent)) /\ Len(sent) = sr.used
  BY <1>2 DEF SentInv
<1> QED BY <1>2, <1>5, <1>7, <1>8 DEF IInv

LEMMA NetWriteKeeps ==
  ASSUME WriteOpsAssumption, IInv, NetWrite
  PROVE  IInv' /\ (SentInv => SentInv')
<1>1. /\ pc = "writing" /\ InNetWrite /\ before' = before
      /\ op \in Calls /\ SerializerOK(sr) /\ sr.shown /\ sr.left \in Nat /\ sr.used \in Nat
      /\ before \in Nat /\ count \in Nat /\ sent \in Seq(Nat) /\ Len(sent) \in Nat
  BY DEF NetWrite, InNetWrite, Blocking, IInv, SrInv, CountInv, SerializerOK
<1>2. PICK n \in 1 .. (sr.left - inner) :
        /\ sent' = sent \o Bytes(sr.used + inner, n)
        /\ IF inner + n < sr.left THEN UNCHANGED <<sr, op, pc, posted, count, told>>
                                  ELSE Wrote("ok", sr.left, sr)
  BY DEF NetWrite
<1>3. op.kind # "ostream" => inner \in Nat /\ inner = Len(sent) - before - count
  BY <1>1 DEF IInv, CountInv, inner
<1>4. op.kind = "ostream" => op.what = "message"
  BY <1>1 DEF WriteOpsAssumption
<1>5. op.kind # "ostream"
  BY <1>1, <1>4 DEF InNetWrite, Blocking
<1> DEFINE k == inner
<1>6. k \in Nat /\ k = Len(sent) - before - count /\ n \in Nat /\ n > 0 /\ k + n <= sr.left
  BY <1>1, <1>2, <1>3, <1>5
<1>7. /\ sent' = sent \o Bytes(sr.used + k, n)
      /\ k + n < sr.left => UNCHANGED <<sr, op, pc, posted, count, told>>
      /\ ~(k + n < sr.left) => Wrote("ok", sr.left, sr)
  BY <1>2
<1> HIDE DEF k
<1>8. /\ sent' \in Seq(Nat) /\ Len(sent') = Len(sent) + n
      /\ sent = Bytes(0, Len(sent)) /\ Len(sent) = sr.used + k => sent' = Bytes(0, Len(sent'))
  BY <1>1, <1>6, <1>7, TakenFollow DEF IInv
<1>9. SentInv => sent = Bytes(0, Len(sent)) /\ before + count = sr.used /\ Len(sent) = sr.used + k
  BY <1>1, <1>5, <1>6 DEF SentInv
<1>12. errors' \in Nat
  BY DEF IInv, NetWrite
<1>10. CASE k + n < sr.left
  <2>1. UNCHANGED <<sr, op, pc, count, told>>
    BY <1>7, <1>10
  <2>2. InNetWrite' /\ before' + count' <= Len(sent')
    BY <1>1, <1>6, <1>8, <2>1 DEF InNetWrite
  <2>3. SrInv' /\ CountInv' /\ errors' \in Nat
    BY <1>1, <1>8, <1>12, <2>1, <2>2 DEF IInv, SrInv, CountInv, InNetWrite
  <2>4. SentInv => SentInv'
    BY <1>1, <1>8, <1>9, <2>1, <2>2 DEF SentInv
  <2> QED BY <2>3, <2>4 DEF IInv
<1>11. CASE ~(k + n < sr.left)
  <2>1. Wrote("ok", sr.left, sr)
    BY <1>7, <1>11
  <2>4. k + n = sr.left
    BY <1>1, <1>6, <1>11
  <2>2. Len(sent') = before + count + sr.left
    BY <1>1, <1>6, <1>8, <2>4
  <2>3. /\ SrInv' /\ CountInv'
        /\ \/ ~(Len(sent') = sr.used + sr.left /\ sent' = Bytes(0, Len(sent')))
           \/ SentInv'
    <3>1. sr.left <= sr.left
      BY <1>1
    <3> HIDE DEF InNetWrite
    <3> QED BY <1>1, <1>8, <2>1, <2>2, <3>1, WroteKeeps
  <2>5. SentInv => Len(sent') = sr.used + sr.left /\ sent' = Bytes(0, Len(sent'))
    BY <1>1, <1>6, <1>8, <1>9, <2>4
  <2> QED BY <1>12, <2>3, <2>5 DEF IInv
<1> QED BY <1>10, <1>11

LEMMA FailsKeeps ==
  ASSUME IInv, StreamFails
  PROVE  IInv' /\ (NoErrorInHeader /\ SentInv => SentInv')
<1> DEFINE k == inner
<1>1. /\ pc = "writing" /\ op.kind # "ostream" /\ before' = before /\ sent' = sent
      /\ op \in Calls /\ SerializerOK(sr) /\ sr.shown /\ sr.left \in Nat /\ sr.used \in Nat
      /\ before \in Nat /\ count \in Nat /\ sent \in Seq(Nat) /\ Len(sent) \in Nat
      /\ Wrote("stream", k, sr) /\ errors < MaxErrors /\ errors \in Nat /\ errors' = errors + 1
  BY DEF StreamFails, IInv, SrInv, CountInv, SerializerOK
<1>2. /\ k = Len(sent) - before - count /\ k \in Nat
      /\ ~InNetWrite => k = 0
  BY <1>1 DEF IInv, CountInv, inner
<1> HIDE DEF k
<1>3. Len(sent') = before + count + k
  BY <1>1, <1>2
<1>4. /\ SrInv' /\ CountInv'
      /\ \/ k # 0
         \/ ~(Len(sent') = sr.used + k /\ sent' = Bytes(0, Len(sent')))
         \/ SentInv'
  BY <1>1, <1>2, <1>3, WroteKeeps
<1>5. NoErrorInHeader => k = 0
  BY <1>1, <1>2 DEF NoErrorInHeader, InNetWrite
<1>6. SentInv /\ k = 0 => Len(sent') = sr.used + k /\ sent' = Bytes(0, Len(sent'))
  BY <1>1, <1>2 DEF SentInv
<1> QED BY <1>1, <1>4, <1>5, <1>6 DEF IInv

(* operator<< writes a message, and no other call follows.                 *)
LEMMA OstreamKeeps ==
  ASSUME IInv, OstreamWrites \/ OstreamFails
  PROVE  IInv' /\ SentInv'
<1>1. /\ pc = "writing" /\ op.kind = "ostream" /\ before' = before /\ errors' = errors
      /\ op \in Calls /\ SerializerOK(sr) /\ sr.shown /\ sr.left \in Nat /\ sr.used \in Nat
      /\ before \in Nat /\ count \in Nat /\ sent \in Seq(Nat) /\ Len(sent) \in Nat
      /\ errors \in Nat
  BY DEF OstreamWrites, OstreamFails, IInv, SrInv, CountInv, SerializerOK
<1>2. sr.used + 0 = sr.used /\ sr.left <= sr.left
  BY <1>1
<1>3. CASE OstreamWrites
  <2>1. sent' \in Seq(Nat) /\ Wrote("ok", sr.left, sr)
    BY <1>1, <1>2, <1>3, TakenFollow DEF OstreamWrites, IInv
  <2> QED BY <1>1, <1>2, <2>1, WroteKeeps DEF IInv
<1>4. CASE OstreamFails
  <2>1. PICK n \in 0 .. sr.left : sent' = sent \o Bytes(sr.used, n)
    BY <1>4 DEF OstreamFails
  <2>2. sent' \in Seq(Nat) /\ Wrote("stream", 0, sr)
    <3>1. n \in Nat
      BY <1>1, <2>1
    <3>2. sent' = sent \o Bytes(sr.used + 0, n)
      BY <1>2, <2>1
    <3>3. CountInv
      BY DEF IInv
    <3>4. sent' \in Seq(Nat)
      BY <1>1, <3>1, <3>2, <3>3, TakenFollow
    <3> QED BY <1>4, <3>4 DEF OstreamFails
  <2> QED BY <1>1, <1>2, <2>2, WroteKeeps DEF IInv
<1> QED BY <1>3, <1>4

LEMMA NextKeepsAll ==
  ASSUME WriteOpsAssumption, IInv, [Next]_vars
  PROVE  IInv' /\ (NoErrorInHeader /\ SentInv => SentInv')
<1>1. CASE Make
  BY <1>1, MakeKeeps
<1>2. CASE \E o \in Calls : Start(o) \/ StartAsync(o) \/ StartMessage(o)
  BY <1>2, CallKeeps
<1>3. CASE Step
  BY <1>3, VisitKeeps, NextKeeps, StreamKeeps, NetWriteKeeps, FailsKeeps, OstreamKeeps DEF Step
<1>4. CASE UNCHANGED vars
  BY <1>4 DEF vars, IInv, SrInv, CountInv, SentInv, InNetWrite, inner
<1> QED BY <1>1, <1>2, <1>3, <1>4 DEF Next

------------------------------------------------------------------------------
(* The number of bytes a caller is told is what the stream has taken since *)
(* the call, with an error too (write.hpp:229, :700).                      *)
THEOREM TellsWhatWasTaken == ASSUME WriteOpsAssumption PROVE Spec => []Counted
<1>1. IInv => Counted
  BY DEF IInv, CountInv, Counted
<1>2. Init => IInv
  BY Initially
<1>3. IInv /\ [Next]_vars => IInv'
  BY NextKeepsAll
<1> QED BY <1>1, <1>2, <1>3, PTL DEF Spec

(* Where no error comes in the middle of net::write, the stream gets each  *)
(* byte of the message once and in order, whatever functions write it, in  *)
(* whatever pieces, with errors in between (write.hpp:133, :482, :630).    *)
THEOREM SendsOnce == ASSUME WriteOpsAssumption, NoErrorInHeader PROVE Spec => []SentOnce
<1>1. IInv /\ SentInv => SentOnce
  <2> SUFFICES ASSUME SentInv, pc = "idle", op.kind # "ostream" PROVE sent = Bytes(0, sr.used)
    BY DEF SentOnce
  <2> QED BY DEF SentInv, InNetWrite
<1>2. Init => IInv /\ SentInv
  BY Initially
<1>3. (IInv /\ SentInv) /\ [Next]_vars => (IInv /\ SentInv)'
  BY NextKeepsAll
<1> QED BY <1>1, <1>2, <1>3, PTL DEF Spec

------------------------------------------------------------------------------
(* Reading.  The caller may call again, or the operation goes on.          *)
GoesOn ==
  \/ at \in {"switch", "reading"}
  \/ at = "done" /\ read_ec \in {"ok", "need_more", "need_buffer"}
  \/ at = "caller" /\ result \in {"none", "ok", "need_buffer"}

InHeader    == state \in {"nothing_yet", "start_line", "fields"}
BeforeBody  == state \in {"body0", "body_to_eof0", "chunk_header0"}
InBody      == state \in {"body", "body_to_eof", "chunk_header", "chunk_body"}

ReadTypes ==
  /\ msg \in Messages
  /\ headerLimit \in Nat /\ bodyMax \in Nat /\ bufferMax \in Nat
  /\ base \in Nat /\ got \in Nat /\ p \in Nat /\ read_first \in Nat
  /\ len \in Nat /\ len0 \in Nat /\ skip \in Nat /\ bodyLimit \in Nat /\ room \in Nat
  /\ base + p <= got /\ got <= Len(msg.wire)
  /\ at \in {"caller", "reading", "done", "switch", "fields", "trailer"}
  /\ read_op \in Read!Ops \cup {"none"}
  /\ InHeader \/ BeforeBody \/ InBody \/ state = "complete"
  /\ flags \subseteq {"eager", "204", "length", "chunked", "need_eof", "expect_crlf", "final_chunk"}
  /\ out \in Seq(Nat)
  /\ read_seen \in [fields : Nat, init : Nat, chunks : Nat, finish : Nat]

(* Where put() is, and between its calls nothing is parsed that is still   *)
(* in the buffer.                                                          *)
PlaceInv ==
  /\ at \in {"caller", "reading"} => p = 0
  /\ at = "caller" <=> read_op = "none"
  /\ read_ec # "none"
  /\ at = "fields" => state = "fields" /\ skip = 0 /\ read_first <= p
  /\ at = "trailer" => state = "chunk_header" /\ Read!Eoms(p - 2, got - base) # {}
  /\ at \in {"reading", "switch"} \/ (at = "done" /\ read_ec = "need_more") => state # "complete"
  /\ (at = "done" /\ read_ec \in {"ok", "need_buffer"}) \/ (at = "caller" /\ GoesOn) =>
       state \notin {"start_line", "fields"}

(* The search for the end of the header goes on behind what was looked at  *)
(* and before what comes next.                                             *)
SkipInv ==
  /\ state \in {"nothing_yet", "body0", "body_to_eof0", "chunk_header0", "body", "body_to_eof"} => skip = 0
  /\ state \in {"start_line", "fields"} /\ skip # 0 =>
       /\ at = "switch" => skip + 4 <= Read!n
       /\ at = "reading" \/ (at = "done" /\ read_ec = "need_more") => skip + 4 <= Read!n + 1

(* So does the search for the end of a chunk's size, or of the trailer.    *)
ChunkInv ==
  /\ "expect_crlf" \in flags =>
       skip >= 2 /\ state \in {"chunk_header", "chunk_body", "complete"}
  /\ state \in {"chunk_header0", "chunk_header", "chunk_body"} => "chunked" \in flags
  /\ "final_chunk" \in flags => state \in {"chunk_header", "complete"}
  /\ "final_chunk" \in flags /\ state = "chunk_header" /\ GoesOn =>
       skip >= Read!crlf /\ Read!n >= Read!crlf + 3 /\ Read!At(Read!q + 1) = "s0"

(* What of body_limit() is left: what is announced is taken off it.        *)
Promised ==
  CASE InHeader -> bodyLimit
    [] state \in {"body0", "body"} -> len
    [] state \in {"body_to_eof0", "body_to_eof"} -> bodyLimit
    [] state \in {"chunk_header0", "chunk_header", "chunk_body"} -> len + bodyLimit
    [] OTHER -> 0

LimitInv ==
  /\ InHeader => bodyLimit = bodyMax /\ ("length" \notin flags => len = 0)
  /\ Len(out) + Promised <= bodyMax

(* What the derived parser has been told, and given.                       *)
ToldInv ==
  /\ read_seen.finish = IF state = "complete" THEN 1 ELSE 0
  /\ InHeader \/ BeforeBody => read_seen.init = 0 /\ out = <<>>
  /\ InBody => read_seen.init = 1
  /\ read_seen.init <= 1 /\ (out # <<>> => read_seen.init = 1)

Ascending ==
  /\ \A i \in 1 .. Len(out) : out[i] >= 1 /\ out[i] <= base + p
  /\ \A i, j \in 1 .. Len(out) : i < j => out[i] < out[j]

ReadInv == ReadTypes /\ PlaceInv /\ SkipInv /\ ChunkInv /\ LimitInv /\ ToldInv /\ Ascending

LEMMA LeastOfNaturals ==
  ASSUME NEW S \in SUBSET Nat, S # {}
  PROVE  Read!Min(S) \in S /\ \A i \in S : Read!Min(S) <= i
<1> DEFINE T == {0 .. i - 1 : i \in S}
<1>1. T \subseteq FiniteSubsetsOf(Nat) /\ T # {}
  <2>1. \A i \in Nat : 0 .. i - 1 \in SUBSET Nat /\ IsFiniteSet(0 .. i - 1)
    BY FS_Interval
  <2> QED BY <2>1 DEF FiniteSubsetsOf
<1>2. \E x \in T : \A y \in T : ~(<<y, x>> \in StrictSubsetOrdering(Nat))
  BY <1>1, FS_StrictSubsetOrderingWellFounded, WFMin, Zenon
<1>3. PICK i \in S : \A k \in S : ~(<<0 .. k - 1, 0 .. i - 1>> \in StrictSubsetOrdering(Nat))
  BY <1>2
<1>4. \A k \in S : i <= k
  <2> SUFFICES ASSUME NEW k \in S, k < i PROVE FALSE
    OBVIOUS
  <2>1. k \in Nat /\ i \in Nat
    OBVIOUS
  <2>2. 0 .. k - 1 \subseteq 0 .. i - 1 /\ 0 .. k - 1 # 0 .. i - 1
    BY <2>1
  <2>3. 0 .. k - 1 \in SUBSET Nat /\ 0 .. i - 1 \in SUBSET Nat
    BY <2>1
  <2>4. <<0 .. k - 1, 0 .. i - 1>> \in StrictSubsetOrdering(Nat)
    <3> DEFINE a == 0 .. k - 1
               b == 0 .. i - 1
    <3> HIDE DEF a, b
    <3>1. a \in SUBSET Nat /\ b \in SUBSET Nat /\ a \subseteq b /\ a # b
      BY <2>2, <2>3 DEF a, b
    <3>2. <<a, b>> \in StrictSubsetOrdering(Nat)
      BY <3>1 DEF StrictSubsetOrdering
    <3> QED BY <3>2 DEF a, b
  <2> QED BY <2>4, <1>3
<1> QED BY <1>4 DEF Read!Min

(* What a step of put() leaves alone.                                      *)
InPut ==
  /\ msg' = msg /\ headerLimit' = headerLimit /\ bodyMax' = bodyMax /\ bufferMax' = bufferMax
  /\ base' = base /\ got' = got /\ read_op' = read_op /\ result' = result

(* The history of what the derived parser is told.                         *)
Seen == [fields : Nat, init : Nat, chunks : Nat, finish : Nat]

LEMMA ReadNumbers ==
  ASSUME ReadTypes
  PROVE  /\ base \in Nat /\ got \in Nat /\ p \in Nat /\ read_first \in Nat
         /\ len \in Nat /\ len0 \in Nat /\ skip \in Nat /\ bodyLimit \in Nat /\ room \in Nat
         /\ headerLimit \in Nat /\ bodyMax \in Nat /\ base + p <= got
         /\ Read!n \in Nat /\ Read!n = got - base - p
         /\ out \in Seq(Nat) /\ Len(out) \in Nat /\ read_seen \in Seen
BY DEF ReadTypes, Read!n, Seen

LEMMA SameBuffer ==
  ASSUME InPut
  PROVE  /\ Read!n' = got - base - p'
         /\ Read!Eoms(p - 2, got - base)' = Read!Eoms(p' - 2, got - base)
         /\ \A i : Read!At(i)' = Read!At(i)
BY DEF InPut, Read!n, Read!Eoms, Read!At, Read!wire

(* The ends of lines are among the bytes there are.                        *)
LEMMA EndsOfHeader ==
  \A a, b \in Int : \A e : e \in Read!Eoms(a, b) <=>
    /\ e \in Int /\ a + 4 <= e /\ e <= b
    /\ Read!At(e - 3) = "r" /\ Read!At(e - 2) = "n" /\ Read!At(e - 1) = "r" /\ Read!At(e) = "n"
BY DEF Read!Eoms

LEMMA EndsOfLines ==
  \A a, b \in Int : \A e : e \in Read!Eols(a, b) <=>
    e \in Int /\ a + 2 <= e /\ e <= b /\ Read!At(e - 1) = "r" /\ Read!At(e) = "n"
BY DEF Read!Eols

LEMMA LeastEnds ==
  ASSUME NEW S \in {Read!Eoms(a, b) : a \in {i \in Int : i >= -2}, b \in Int}
           \cup {Read!Eols(a, b) : a \in {i \in Int : i >= -2}, b \in Int},
         S # {}
  PROVE  Read!Min(S) \in S /\ \A e \in S : Read!Min(S) <= e
<1>1. S \in SUBSET Nat
  BY EndsOfHeader, EndsOfLines
<1> QED BY <1>1, LeastOfNaturals

(* Where parse_fields() stops is in the buffer, and for a trailer behind   *)
(* an empty line that is to come.                                          *)
LEMMA FieldsLastInBuffer ==
  ASSUME ReadTypes, PlaceInv, at \in {"fields", "trailer"}
  PROVE  /\ Read!fieldsLast \in Int
         /\ Read!fieldsLast <= got - base
         /\ at = "trailer" => /\ Read!fieldsLast \in Read!Eoms(p - 2, got - base)
                              /\ \A e \in Read!Eoms(p - 2, got - base) : Read!fieldsLast <= e
<1>1. CASE at = "fields"
  BY <1>1 DEF ReadTypes, PlaceInv, Read!fieldsLast, Read!Least
<1>2. CASE at = "trailer"
  <2>1. p - 2 \in {i \in Int : i >= -2} /\ got - base \in Int /\ Read!Eoms(p - 2, got - base) # {}
    BY <1>2 DEF ReadTypes, PlaceInv
  <2>2. /\ Read!fieldsLast \in Read!Eoms(p - 2, got - base)
        /\ \A e \in Read!Eoms(p - 2, got - base) : Read!fieldsLast <= e
    BY <1>2, <2>1, LeastEnds DEF Read!fieldsLast
  <2> QED BY <2>1, <2>2, EndsOfHeader
<1> QED BY <1>1, <1>2

LEMMA SeenGrows ==
  ASSUME NEW s \in Seen
  PROVE  /\ [s EXCEPT !.fields = @ + 1] \in Seen
         /\ [s EXCEPT !.fields = @ + 1].init = s.init
         /\ [s EXCEPT !.fields = @ + 1].finish = s.finish
         /\ [s EXCEPT !.init = @ + 1] \in Seen
         /\ [s EXCEPT !.init = @ + 1].init = s.init + 1
         /\ [s EXCEPT !.init = @ + 1].finish = s.finish
         /\ [s EXCEPT !.chunks = @ + 1] \in Seen
         /\ [s EXCEPT !.chunks = @ + 1].init = s.init
         /\ [s EXCEPT !.chunks = @ + 1].finish = s.finish
         /\ [s EXCEPT !.finish = @ + 1] \in Seen
         /\ [s EXCEPT !.finish = @ + 1].init = s.init
         /\ [s EXCEPT !.finish = @ + 1].finish = s.finish + 1
BY DEF Seen

(* on_body(): the reader gets the next bytes of the buffer.                *)
LEMMA Delivered ==
  ASSUME ReadTypes, Ascending, NEW m \in Nat, m <= Read!n, Read!Deliver(m), InPut
  PROVE  /\ Read!Taken(m) \in Nat /\ Read!Taken(m) <= m
         /\ p' = p + Read!Taken(m) /\ p' \in Nat /\ base' + p' <= got'
         /\ room' \in Nat
         /\ out' \in Seq(Nat) /\ Len(out') = Len(out) + Read!Taken(m)
         /\ Ascending'
<1> DEFINE k == Read!Taken(m)
<1>1. k \in Nat /\ k <= m /\ k <= room
  BY DEF Read!Taken, Read!Least, ReadTypes
<1> HIDE DEF k
<1>2. /\ out' = out \o [i \in 1 .. k |-> base + p + i]
      /\ p' = p + k
      /\ room' = IF room = Unlimited THEN room ELSE room - k
  BY DEF Read!Deliver, k
<1>3. base \in Nat /\ p \in Nat /\ got \in Nat /\ out \in Seq(Nat) /\ room \in Nat /\ base + p + m <= got
  BY DEF ReadTypes, Read!n
<1>4. [i \in 1 .. k |-> base + p + i] \in Seq(Nat) /\ Len([i \in 1 .. k |-> base + p + i]) = k
  BY <1>1, <1>3
<1>5. out' \in Seq(Nat) /\ Len(out') = Len(out) + k
  <2>1. PICK t \in Seq(Nat) : t = [i \in 1 .. k |-> base + p + i] /\ Len(t) = k
    BY <1>4
  <2>2. out' = out \o t /\ Len(out) \in Nat
    BY <1>2, <1>3, <2>1
  <2>3. \A s1, s2 \in Seq(Nat) : s1 \o s2 \in Seq(Nat) /\ Len(s1 \o s2) = Len(s1) + Len(s2)
    OBVIOUS
  <2> QED BY <1>3, <2>1, <2>2, <2>3, ZenonT(60)
<1>6. \A i \in 1 .. Len(out') : out'[i] = IF i <= Len(out) THEN out[i] ELSE base + p + (i - Len(out))
  BY <1>1, <1>2, <1>3, <1>4, <1>5
<1>7. p' \in Nat /\ room' \in Nat /\ base' = base /\ base' + p' <= got' /\ base' + p' = base + p + k
  BY <1>1, <1>2, <1>3 DEF InPut
<1>8. \A i \in 1 .. Len(out') : out'[i] >= 1 /\ out'[i] <= base' + p'
  <2> SUFFICES ASSUME NEW i \in 1 .. Len(out') PROVE out'[i] >= 1 /\ out'[i] <= base' + p'
    OBVIOUS
  <2>1. CASE i <= Len(out)
    <3>1. i \in 1 .. Len(out)
      BY <1>3, <1>5, <2>1
    <3>2. out[i] \in Nat /\ out[i] >= 1 /\ out[i] <= base + p
      BY <1>3, <3>1 DEF Ascending
    <3>3. out'[i] = out[i] /\ base' + p' = base + p + k
      BY <1>6, <1>7, <2>1
    <3> QED BY <1>1, <1>3, <3>2, <3>3
  <2>2. CASE ~(i <= Len(out))
    <3>1. out'[i] = base + p + (i - Len(out)) /\ base' + p' = base + p + k
      BY <1>6, <1>7, <2>2
    <3>2. i \in Nat /\ Len(out) \in Nat /\ i <= Len(out) + k
      BY <1>3, <1>5
    <3> QED BY <1>1, <1>3, <2>2, <3>1, <3>2
  <2> QED BY <2>1, <2>2
<1>9. \A i, j \in 1 .. Len(out') : i < j => out'[i] < out'[j]
  <2> SUFFICES ASSUME NEW i \in 1 .. Len(out'), NEW j \in 1 .. Len(out'), i < j
               PROVE  out'[i] < out'[j]
    OBVIOUS
  <2>0. i \in Nat /\ j \in Nat /\ Len(out) \in Nat
    BY <1>3, <1>5
  <2>1. CASE j <= Len(out)
    <3>1. i \in 1 .. Len(out) /\ j \in 1 .. Len(out)
      BY <1>3, <1>5, <2>1
    <3> QED BY <1>6, <2>1, <3>1, <2>0 DEF Ascending
  <2>2. CASE i <= Len(out) /\ ~(j <= Len(out))
    <3>1. i \in 1 .. Len(out)
      BY <1>3, <1>5, <2>2
    <3>2. out[i] \in Nat /\ out[i] <= base + p
      BY <1>3, <3>1 DEF Ascending
    <3>3. out'[i] = out[i] /\ out'[j] = base + p + (j - Len(out))
      BY <1>6, <2>2
    <3> QED BY <1>3, <2>0, <2>2, <3>2, <3>3
  <2>3. CASE ~(i <= Len(out)) /\ ~(j <= Len(out))
    BY <1>3, <1>6, <2>0, <2>3
  <2> QED BY <2>0, <2>1, <2>2, <2>3
<1> QED BY <1>1, <1>2, <1>5, <1>7, <1>8, <1>9 DEF Ascending, k

LEMMA AscendingKept ==
  ASSUME ReadTypes, Ascending, out' = out, base' + p' \in Nat, base + p <= base' + p'
  PROVE  Ascending'
BY DEF ReadTypes, Ascending

(* The line of a chunk's size ends behind what was searched.               *)
LEMMA ChunkEolIsLeast ==
  ASSUME ReadTypes, Read!ChunkLine
  PROVE  /\ Read!ChunkEol \in Nat /\ Read!ChunkEol <= got - base
         /\ p + skip + 2 <= Read!ChunkEol /\ Read!At(Read!ChunkEol - 1) = "r"
<1>1. p \in Nat /\ skip \in Nat /\ got \in Nat /\ base \in Nat
  BY ReadNumbers
<1>2. p + skip \in {i \in Int : i >= -2} /\ got - base \in Int /\ p + skip \in Nat
  BY <1>1
<1>3. Read!Eols(p + skip, got - base) # {}
  BY DEF Read!ChunkLine, Read!end
<1>4. Read!ChunkEol \in Read!Eols(p + skip, got - base)
  BY <1>2, <1>3, LeastEnds DEF Read!ChunkEol, Read!end
<1>5. /\ Read!ChunkEol \in Int /\ Read!ChunkEol <= got - base
      /\ (p + skip) + 2 <= Read!ChunkEol /\ Read!At(Read!ChunkEol - 1) = "r"
  BY <1>2, <1>4, EndsOfLines
<1> QED BY <1>1, <1>2, <1>5

(* The size stands before the end of its line, not in its place.           *)
LEMMA ChunkIsWhole ==
  ASSUME ReadTypes, ChunkInv, Read!IsChunk
  PROVE  /\ Read!crlf \in {0, 2}
         /\ Read!ChunkEol \in Nat /\ Read!ChunkEol <= got - base
         /\ p + Read!crlf + 3 <= Read!ChunkEol
<1>1. p \in Nat /\ skip \in Nat
  BY ReadNumbers
<1>2. Read!crlf \in {0, 2} /\ Read!crlf <= skip /\ Read!q = p + Read!crlf
  <2>1. CASE "expect_crlf" \in flags
    BY <2>1 DEF ChunkInv, Read!crlf, Read!q
  <2>2. CASE "expect_crlf" \notin flags
    BY <1>1, <2>2 DEF Read!crlf, Read!q
  <2> QED BY <2>1, <2>2
<1>3. /\ Read!ChunkEol \in Nat /\ Read!ChunkEol <= got - base
      /\ p + skip + 2 <= Read!ChunkEol /\ Read!At(Read!ChunkEol - 1) = "r"
  BY ChunkEolIsLeast DEF Read!IsChunk
<1>4. Read!At(Read!q + 1) # "r"
  BY DEF Read!IsChunk, Read!Sizes
<1>5. Read!ChunkEol - 1 # p + Read!crlf + 1
  BY <1>2, <1>3, <1>4
<1>6. p + Read!crlf + 2 <= Read!ChunkEol
  BY <1>1, <1>2, <1>3
<1> QED BY <1>1, <1>2, <1>3, <1>5, <1>6

------------------------------------------------------------------------------
(* The passes of the loop in put().  Each keeps the parts of ReadInv.      *)
LEMMA MaybeNeedMoreKeeps ==
  ASSUME Read!HttpReadAssumption, ReadInv, Read!MaybeNeedMore, InPut
  PROVE  ReadInv'
<1>0. ReadTypes /\ PlaceInv /\ SkipInv /\ ChunkInv /\ LimitInv /\ ToldInv /\ Ascending
  BY DEF ReadInv
<1>n. /\ base \in Nat /\ got \in Nat /\ p \in Nat /\ base + p <= got
      /\ read_first \in Nat /\ len \in Nat /\ len0 \in Nat /\ skip \in Nat
      /\ bodyLimit \in Nat /\ room \in Nat /\ headerLimit \in Nat /\ bodyMax \in Nat
      /\ Read!n \in Nat /\ Read!n = got - base - p /\ out \in Seq(Nat) /\ Len(out) \in Nat
      /\ read_seen \in Seen
  BY <1>0, ReadNumbers
<1> DEFINE m == Read!Least(Read!n, headerLimit)
<1>1. m \in Nat /\ m <= Read!n
  BY <1>0, <1>n DEF Read!Least
<1>2. \/ m < skip + 4 /\ at' = "done" /\ read_ec' = "need_more" /\ skip' = skip
      \/ skip' = 0 /\ at' = at /\ read_ec' = read_ec
      \/ m >= skip + 4 /\ at' = "done" /\ skip' = m - 3 /\ read_ec' \in {"header_limit", "need_more"}
  BY <1>n, <1>1 DEF Read!MaybeNeedMore, Read!Return, Read!NextSkip
<1> HIDE DEF m
<1>3. at = "switch" /\ state \in {"start_line", "fields"} /\ skip # 0 /\ skip + 4 <= Read!n
  BY <1>0 DEF Read!MaybeNeedMore, SkipInv
<1>4. /\ p' = p /\ read_first' = read_first /\ state' = state /\ len' = len /\ len0' = len0
      /\ bodyLimit' = bodyLimit /\ room' = room /\ out' = out /\ read_seen' = read_seen /\ flags' = flags
  BY DEF Read!MaybeNeedMore, Read!Quiet
<1>5. skip' \in Nat /\ (at' # "switch" => skip' + 4 <= Read!n + 1) /\ Read!n' = Read!n /\ Read!n \in Int
  <2>1. Read!n' = Read!n
    BY <1>0, <1>4, <1>n, SameBuffer
  <2> QED BY <1>0, <1>1, <1>2, <1>3, <2>1, <1>n
<1>ReadTypes. ReadTypes'
  BY <1>0, <1>2, <1>3, <1>4, <1>5 DEF ReadTypes, InPut, InHeader, BeforeBody, InBody
<1>PlaceInv. PlaceInv'
  BY <1>0, <1>2, <1>3, <1>4 DEF PlaceInv, InPut
<1>SkipInv. SkipInv'
  BY <1>2, <1>3, <1>4, <1>5 DEF SkipInv
<1>ChunkInv. ChunkInv'
  BY <1>0, <1>3, <1>4 DEF ChunkInv
<1>LimitInv. LimitInv'
  BY <1>0, <1>4 DEF LimitInv, InPut, InHeader, Promised
<1>ToldInv. ToldInv'
  BY <1>0, <1>3, <1>4 DEF ToldInv, InHeader, InBody
<1>Ascending. Ascending'
  BY <1>0, <1>4 DEF Ascending, InPut
<1> QED BY <1>ReadTypes, <1>PlaceInv, <1>SkipInv, <1>ChunkInv, <1>LimitInv, <1>ToldInv, <1>Ascending DEF ReadInv

LEMMA ParseStartLineKeeps ==
  ASSUME Read!HttpReadAssumption, ReadInv, Read!ParseStartLine, InPut
  PROVE  ReadInv'
<1>0. ReadTypes /\ PlaceInv /\ SkipInv /\ ChunkInv /\ LimitInv /\ ToldInv /\ Ascending
  BY DEF ReadInv
<1>n. /\ base \in Nat /\ got \in Nat /\ p \in Nat /\ base + p <= got
      /\ read_first \in Nat /\ len \in Nat /\ len0 \in Nat /\ skip \in Nat
      /\ bodyLimit \in Nat /\ room \in Nat /\ headerLimit \in Nat /\ bodyMax \in Nat
      /\ Read!n \in Nat /\ Read!n = got - base - p /\ out \in Seq(Nat) /\ Len(out) \in Nat
      /\ read_seen \in Seen
  BY <1>0, ReadNumbers
<1>1. /\ at = "switch" /\ state = "start_line" /\ skip = 0 /\ at' \in {"done", "fields"}
      /\ len' = len /\ len0' = len0 /\ bodyLimit' = bodyLimit /\ room' = room /\ out' = out
      /\ read_seen' = read_seen /\ flags' \in {flags, flags \cup {"204"}}
      /\ \/ /\ at' = "done" /\ read_ec' \in {"bad", "header_limit"} /\ p' = p /\ skip' = skip
            /\ state' = state /\ read_first' = read_first
         \/ /\ at' = "done" /\ read_ec' = "need_more" /\ p' = p /\ state' = state
            /\ read_first' = read_first /\ skip' = IF Read!n >= 3 THEN Read!n - 3 ELSE skip
         \/ /\ ~(Read!Least(headerLimit, Read!n) < 3) /\ p' = p + 3 /\ state' = "fields" /\ skip' = skip
            /\ \/ at' = "done" /\ read_ec' = "need_more" /\ read_first' = read_first
               \/ at' = "fields" /\ read_first' = p' /\ read_ec' = read_ec
  BY DEF Read!ParseStartLine, Read!HeaderNeedsMore, Read!Return, Read!Goto, Read!NextSkip
<1>2. 3 <= Read!n \/ p' = p
  BY <1>0, <1>1, <1>n DEF Read!Least
<1>3. p' \in Nat /\ base' + p' \in Nat /\ base' + p' <= got' /\ base + p <= base' + p'
  <2>1. base' = base /\ got' = got
    BY DEF InPut
  <2> QED BY <1>0, <1>1, <1>2, <2>1, <1>n
<1>4. Read!n' \in Nat /\ (p' = p => Read!n' = Read!n)
  <2>1. base' = base /\ got' = got /\ Read!n' = got - base - p'
    BY SameBuffer DEF InPut
  <2>2. base + p' <= got
    BY <1>3, <2>1
  <2>3. got - base - p' \in Nat
    <3>1. PICK j \in Nat : j = p'
      BY <1>3
    <3>2. base + j <= got
      BY <2>2, <3>1
    <3>3. got - base - j \in Nat
      BY <1>n, <3>2
    <3> QED BY <3>1, <3>3
  <2> QED BY <1>n, <2>1, <2>3
<1>5. skip' \in Nat /\ read_first' \in Nat
  BY <1>0, <1>1, <1>3, <1>n
<1>ReadTypes. ReadTypes'
  BY <1>0, <1>1, <1>3, <1>5 DEF ReadTypes, InPut, InHeader, BeforeBody, InBody
<1>PlaceInv. PlaceInv'
  BY <1>0, <1>1, <1>3 DEF PlaceInv, InPut
<1>SkipInv. SkipInv'
  BY <1>0, <1>1, <1>4, <1>n DEF SkipInv
<1>ChunkInv. ChunkInv'
  BY <1>0, <1>1 DEF ChunkInv
<1>LimitInv. LimitInv'
  BY <1>0, <1>1, <1>n DEF LimitInv, Promised, InHeader, InPut
<1>ToldInv. ToldInv'
  BY <1>0, <1>1 DEF ToldInv, InHeader, BeforeBody, InBody
<1>Ascending. Ascending'
  BY <1>0, <1>1, <1>3, AscendingKept
<1> QED BY <1>ReadTypes, <1>PlaceInv, <1>SkipInv, <1>ChunkInv, <1>LimitInv, <1>ToldInv, <1>Ascending DEF ReadInv

LEMMA FieldsNeedMoreKeeps ==
  ASSUME Read!HttpReadAssumption, ReadInv, Read!FieldsNeedMore, InPut
  PROVE  ReadInv'
<1>0. ReadTypes /\ PlaceInv /\ SkipInv /\ ChunkInv /\ LimitInv /\ ToldInv /\ Ascending
  BY DEF ReadInv
<1>n. /\ base \in Nat /\ got \in Nat /\ p \in Nat /\ base + p <= got
      /\ read_first \in Nat /\ len \in Nat /\ len0 \in Nat /\ skip \in Nat
      /\ bodyLimit \in Nat /\ room \in Nat /\ headerLimit \in Nat /\ bodyMax \in Nat
      /\ Read!n \in Nat /\ Read!n = got - base - p /\ out \in Seq(Nat) /\ Len(out) \in Nat
      /\ read_seen \in Seen
  BY <1>0, ReadNumbers
<1>1. /\ at = "fields" /\ at' = "done" /\ Read!Quiet
      /\ p' = p /\ read_first' = read_first /\ state' = state
      /\ \/ read_ec' = "header_limit" /\ skip' = skip
         \/ read_ec' = "need_more" /\ skip' = IF Read!n >= 3 THEN Read!n - 3 ELSE skip
  BY DEF Read!FieldsNeedMore, Read!HeaderNeedsMore, Read!Return, Read!NextSkip
<1>2. Read!n' = Read!n /\ Read!n \in Nat /\ skip = 0 /\ state = "fields" /\ skip' \in Nat
  <2>1. Read!n' = Read!n
    BY <1>0, <1>1, <1>n, SameBuffer
  <2>2. skip = 0 /\ state = "fields"
    BY <1>0, <1>1 DEF PlaceInv
  <2> QED BY <1>0, <1>1, <2>1, <2>2, <1>n
<1>ReadTypes. ReadTypes'
  BY <1>0, <1>1, <1>2 DEF ReadTypes, Read!Quiet, InPut, InHeader
<1>PlaceInv. PlaceInv'
  BY <1>0, <1>1 DEF PlaceInv, InPut
<1>SkipInv. SkipInv'
  <2>1. CASE skip' = 0 \/ read_ec' = "header_limit"
    BY <1>1, <1>2, <2>1 DEF SkipInv
  <2>2. CASE skip' # 0 /\ skip' = Read!n - 3
    <3>1. skip' + 4 <= Read!n' + 1
      BY <1>2, <1>n, <2>2
    <3> QED BY <1>1, <1>2, <3>1 DEF SkipInv
  <2> QED BY <1>1, <1>2, <2>1, <2>2
<1>ChunkInv. ChunkInv'
  BY <1>0, <1>1, <1>2 DEF ChunkInv, Read!Quiet
<1>LimitInv. LimitInv'
  BY <1>0, <1>1 DEF LimitInv, Read!Quiet, InPut, InHeader, Promised
<1>ToldInv. ToldInv'
  BY <1>0, <1>1, <1>2 DEF ToldInv, Read!Quiet, InHeader, InBody
<1>Ascending. Ascending'
  BY <1>0, <1>1 DEF Ascending, Read!Quiet, InPut
<1> QED BY <1>ReadTypes, <1>PlaceInv, <1>SkipInv, <1>ChunkInv, <1>LimitInv, <1>ToldInv, <1>Ascending DEF ReadInv

LEMMA FieldKeeps ==
  ASSUME Read!HttpReadAssumption, ReadInv, Read!Field, InPut
  PROVE  ReadInv'
<1>0. ReadTypes /\ PlaceInv /\ SkipInv /\ ChunkInv /\ LimitInv /\ ToldInv /\ Ascending
  BY DEF ReadInv
<1>n. /\ base \in Nat /\ got \in Nat /\ p \in Nat /\ base + p <= got
      /\ read_first \in Nat /\ len \in Nat /\ len0 \in Nat /\ skip \in Nat
      /\ bodyLimit \in Nat /\ room \in Nat /\ headerLimit \in Nat /\ bodyMax \in Nat
      /\ Read!n \in Nat /\ Read!n = got - base - p /\ out \in Seq(Nat) /\ Len(out) \in Nat
      /\ read_seen \in Seen
  BY <1>0, ReadNumbers
<1>1. /\ Read!fieldsLast \in Int /\ Read!fieldsLast <= got - base
      /\ at = "trailer" => Read!fieldsLast \in Read!Eoms(p - 2, got - base)
  BY <1>0, FieldsLastInBuffer DEF Read!Field
<1>2. /\ at \in {"fields", "trailer"} /\ at' = at /\ p' = p + 3 /\ p + 4 <= Read!fieldsLast
      /\ Read!At(p + 1) # "r"
      /\ read_first' = read_first /\ state' = state /\ skip' = skip /\ bodyLimit' = bodyLimit
      /\ room' = room /\ read_ec' = read_ec /\ out' = out
  BY DEF Read!Field
<1>3. p' \in Nat /\ base' + p' \in Nat /\ base' + p' <= got' /\ base + p <= base' + p'
  BY <1>0, <1>1, <1>2 DEF ReadTypes, InPut
<1>4. /\ \/ len' \in 1 .. 3 /\ len0' \in 1 .. 3 /\ flags' = flags \cup {"length"}
         \/ len' = 0 /\ len0' = len0 /\ flags' = flags \cup {"chunked"}
         \/ len' = len /\ len0' = len0 /\ flags' = flags
      /\ read_seen' = [read_seen EXCEPT !.fields = @ + 1]
  <2>1. Read!DoField(Read!At(p + 1))
    BY DEF Read!Field
  <2> QED BY <2>1 DEF Read!DoField, Read!SetLength, Read!Lengths
<1>5. /\ read_seen' \in Seen /\ read_seen'.init = read_seen.init
      /\ read_seen'.finish = read_seen.finish
  BY <1>n, <1>4, SeenGrows
<1>6. at = "trailer" => Read!Eoms(p' - 2, got' - base') # {}
  <2> SUFFICES ASSUME at = "trailer" PROVE Read!Eoms(p + 1, got - base) # {}
    BY <1>0, <1>2 DEF InPut, ReadTypes
  <2>1. PICK e : e = Read!fieldsLast /\ e \in Read!Eoms(p - 2, got - base)
    BY <1>1
  <2>2. /\ p - 2 \in Int /\ got - base \in Int /\ p + 1 \in Int /\ p \in Nat
        /\ (p + 1) + 4 = p + 5 /\ (p - 2) + 4 = p + 2
    BY <1>0, <1>n
  <2>3. /\ e \in Int /\ e <= got - base /\ p + 4 <= e /\ Read!At(e - 3) = "r" /\ Read!At(e - 2) = "n"
        /\ Read!At(e - 1) = "r" /\ Read!At(e) = "n"
    BY <1>2, <2>1, <2>2, EndsOfHeader
  <2>4. e # p + 4
    <3> SUFFICES ASSUME e = p + 4 PROVE FALSE
      OBVIOUS
    <3>1. e - 3 = p + 1
      BY <2>2
    <3> QED BY <1>2, <2>3, <3>1
  <2>5. (p + 1) + 4 <= e
    BY <2>2, <2>3, <2>4
  <2>6. e \in Read!Eoms(p + 1, got - base)
    BY <2>2, <2>3, <2>5, EndsOfHeader
  <2> QED BY <2>6
<1>ReadTypes. ReadTypes'
  <2>1. len' \in 1 .. 3 \cup {0, len} /\ len0' \in 1 .. 3 \cup {len0}
    BY <1>4
  <2>2. flags' \subseteq flags \cup {"length", "chunked"}
    BY <1>4
  <2>3. len' \in Nat /\ len0' \in Nat
    BY <2>1, <1>n
  <2> QED BY <1>0, <1>2, <1>3, <1>5, <2>2, <2>3 DEF ReadTypes, InPut, Seen, InHeader, BeforeBody, InBody
<1>PlaceInv. PlaceInv'
  <2>1. (Read!Eoms(p - 2, got - base))' = Read!Eoms(p' - 2, got' - base')
    BY <1>0 DEF InPut, Read!Eoms, Read!At, Read!wire
  <2> QED BY <1>0, <1>2, <1>3, <1>6, <2>1 DEF PlaceInv, InPut, GoesOn, ReadTypes
<1>SkipInv. SkipInv'
  BY <1>0, <1>2 DEF SkipInv, PlaceInv
<1>ChunkInv. ChunkInv'
  BY <1>0, <1>2, <1>4 DEF ChunkInv, GoesOn
<1>LimitInv. LimitInv'
  <2>1. CASE at = "fields"
    <3>1. state = "fields"
      BY <1>0, <2>1 DEF PlaceInv
    <3> QED BY <1>0, <1>2, <1>4, <3>1, <1>n DEF LimitInv, Promised, InHeader, InPut
  <2>2. CASE at = "trailer"
    <3>1. state = "chunk_header"
      BY <1>0, <2>2 DEF PlaceInv
    <3>2. "chunked" \in flags
      BY <1>0, <3>1 DEF ChunkInv
    <3>3. Read!FieldError(Read!At(p + 1)) = "ok" /\ Read!DoField(Read!At(p + 1))
      BY DEF Read!Field
    <3>4. len' = len
      BY <3>2, <3>3 DEF Read!FieldError, Read!DoField, Read!Contradicts
    <3> QED BY <1>0, <1>2, <3>1, <3>4, <1>n DEF LimitInv, Promised, InHeader, InPut
  <2> QED BY <1>2, <2>1, <2>2
<1>ToldInv. ToldInv'
  BY <1>0, <1>2, <1>5 DEF ToldInv, InHeader, BeforeBody, InBody
<1>Ascending. Ascending'
  BY <1>0, <1>2, <1>3, AscendingKept
<1> QED BY <1>ReadTypes, <1>PlaceInv, <1>SkipInv, <1>ChunkInv, <1>LimitInv, <1>ToldInv, <1>Ascending DEF ReadInv

LEMMA BadFieldKeeps ==
  ASSUME Read!HttpReadAssumption, ReadInv, Read!BadField, InPut
  PROVE  ReadInv'
<1>0. ReadTypes /\ PlaceInv /\ SkipInv /\ ChunkInv /\ LimitInv /\ ToldInv /\ Ascending
  BY DEF ReadInv
<1>n. /\ base \in Nat /\ got \in Nat /\ p \in Nat /\ base + p <= got
      /\ read_first \in Nat /\ len \in Nat /\ len0 \in Nat /\ skip \in Nat
      /\ bodyLimit \in Nat /\ room \in Nat /\ headerLimit \in Nat /\ bodyMax \in Nat
      /\ Read!n \in Nat /\ Read!n = got - base - p /\ out \in Seq(Nat) /\ Len(out) \in Nat
      /\ read_seen \in Seen
  BY <1>0, ReadNumbers
<1>1. /\ at \in {"fields", "trailer"} /\ at' = "done" /\ read_ec' \notin {"ok", "need_more", "need_buffer", "none"}
      /\ Read!Quiet /\ p' = p /\ read_first' = read_first /\ state' = state /\ skip' = skip
  BY DEF Read!BadField, Read!Return, Read!FieldError, Read!Lengths
<1>2. read_ec' # "none"
  <2>1. read_ec' = Read!FieldError(Read!At(p + 1))
    BY DEF Read!BadField, Read!Return
  <2>2. \A f : Read!FieldError(f) # "none"
    BY DEF Read!FieldError
  <2> QED BY <2>1, <2>2
<1>ReadTypes. ReadTypes'
  BY <1>0, <1>1 DEF ReadTypes, Read!Quiet, InPut, InHeader, BeforeBody, InBody
<1>PlaceInv. PlaceInv'
  BY <1>0, <1>1, <1>2 DEF PlaceInv, InPut, GoesOn
<1>SkipInv. SkipInv'
  BY <1>0, <1>1 DEF SkipInv
<1>ChunkInv. ChunkInv'
  BY <1>0, <1>1 DEF ChunkInv, GoesOn, Read!Quiet
<1>LimitInv. LimitInv'
  BY <1>0, <1>1 DEF LimitInv, Read!Quiet, InPut, InHeader, Promised
<1>ToldInv. ToldInv'
  BY <1>0, <1>1 DEF ToldInv, Read!Quiet, InHeader, BeforeBody, InBody
<1>Ascending. Ascending'
  BY <1>0, <1>1 DEF Ascending, Read!Quiet, InPut
<1> QED BY <1>ReadTypes, <1>PlaceInv, <1>SkipInv, <1>ChunkInv, <1>LimitInv, <1>ToldInv, <1>Ascending DEF ReadInv

LEMMA FinishHeaderKeeps ==
  ASSUME Read!HttpReadAssumption, ReadInv, Read!FinishHeader, InPut
  PROVE  ReadInv'
<1>0. ReadTypes /\ PlaceInv /\ SkipInv /\ ChunkInv /\ LimitInv /\ ToldInv /\ Ascending
  BY DEF ReadInv
<1>n. /\ base \in Nat /\ got \in Nat /\ p \in Nat /\ base + p <= got
      /\ read_first \in Nat /\ len \in Nat /\ len0 \in Nat /\ skip \in Nat
      /\ bodyLimit \in Nat /\ room \in Nat /\ headerLimit \in Nat /\ bodyMax \in Nat
      /\ Read!n \in Nat /\ Read!n = got - base - p /\ out \in Seq(Nat) /\ Len(out) \in Nat
      /\ read_seen \in Seen
  BY <1>0, ReadNumbers
<1>1. Read!fieldsLast \in Int /\ Read!fieldsLast <= got - base
  BY <1>0, FieldsLastInBuffer DEF Read!FinishHeader
<1>2. /\ at = "fields" /\ state = "fields" /\ skip = 0 /\ skip' = 0 /\ p' = p + 2 /\ p + 2 <= Read!fieldsLast
      /\ read_first' = read_first /\ len' = len /\ len0' = len0 /\ bodyLimit' = bodyLimit
      /\ room' = room /\ out' = out
  BY <1>0 DEF Read!FinishHeader, PlaceInv
<1>3. p' \in Nat /\ base' + p' \in Nat /\ base' + p' <= got' /\ base + p <= base' + p'
  BY <1>0, <1>1, <1>2 DEF ReadTypes, InPut
<1>4. /\ bodyLimit = bodyMax /\ out = <<>> /\ Len(out) = 0 /\ ("length" \notin flags => len = 0)
      /\ read_seen.init = 0 /\ read_seen.finish = 0
      /\ {"expect_crlf", "final_chunk"} \cap flags = {}
  BY <1>0, <1>2, <1>n DEF LimitInv, ToldInv, InHeader, ChunkInv
<1>5. /\ at' \in {"switch", "done"} /\ flags' \in {flags, flags \cup {"need_eof"}}
      /\ \/ /\ at' = "done" /\ read_ec' = "body_limit" /\ state' = state /\ flags' = flags
            /\ read_seen' = read_seen
         \/ /\ read_ec' = "ok" /\ state' = "complete" /\ at' = "done"
            /\ read_seen' = [read_seen EXCEPT !.finish = @ + 1]
         \/ /\ read_ec' = "ok" /\ read_seen' = read_seen
            /\ \/ state' = "body0" /\ len <= bodyLimit
               \/ state' = "chunk_header0" /\ "length" \notin flags /\ "chunked" \in flags
               \/ state' = "body_to_eof0"
  <2> DEFINE s == Read!BodyState
  <2>1. /\ s \in {"complete", "body0", "chunk_header0", "body_to_eof0"}
        /\ s = "chunk_header0" => "length" \notin flags /\ "chunked" \in flags
    BY DEF Read!BodyState
  <2> HIDE DEF s
  <2>2. IF s = "body0" /\ len > bodyLimit
          THEN at' = "done" /\ read_ec' = "body_limit" /\ state' = state /\ flags' = flags /\ read_seen' = read_seen
          ELSE /\ state' = s /\ read_ec' = "ok" /\ flags' = flags \cup (IF s = "body_to_eof0" THEN {"need_eof"} ELSE {})
               /\ at' \in {"switch", "done"} /\ (s = "complete" => at' = "done")
               /\ read_seen' = IF s = "complete" THEN [read_seen EXCEPT !.finish = @ + 1] ELSE read_seen
    BY DEF Read!FinishHeader, Read!Finish, Read!Return, Read!Goto, Read!EndOfLoop, s
  <2>3. CASE s = "body0" /\ len > bodyLimit
    BY <2>2, <2>3
  <2>4. CASE ~(s = "body0" /\ len > bodyLimit)
    <3>1. s = "body0" => len <= bodyLimit
      BY <1>n, <2>4
    <3> QED BY <2>1, <2>2, <2>4, <3>1
  <2> QED BY <2>3, <2>4
<1>6. /\ read_seen' \in Seen /\ read_seen'.init = 0
      /\ read_seen'.finish = IF state' = "complete" THEN 1 ELSE 0
  <2>1. 0 + 1 = 1
    OBVIOUS
  <2>2. CASE state' = "complete"
    BY <1>n, <1>2, <1>4, <1>5, <2>1, <2>2, SeenGrows
  <2>3. CASE state' # "complete"
    BY <1>n, <1>2, <1>4, <1>5, <2>3
  <2> QED BY <2>2, <2>3
<1>ReadTypes. ReadTypes'
  BY <1>0, <1>2, <1>3, <1>5, <1>6 DEF ReadTypes, InPut, Seen, InHeader, BeforeBody, InBody
<1>PlaceInv. PlaceInv'
  BY <1>0, <1>2, <1>5 DEF PlaceInv, InPut, GoesOn
<1>SkipInv. SkipInv'
  BY <1>2, <1>5 DEF SkipInv
<1>ChunkInv. ChunkInv'
  BY <1>2, <1>4, <1>5 DEF ChunkInv
<1>LimitInv. LimitInv'
  BY <1>0, <1>2, <1>4, <1>5, <1>n, SMTT(120) DEF LimitInv, Promised, InHeader, InPut
<1>ToldInv. ToldInv'
  BY <1>2, <1>4, <1>5, <1>6 DEF ToldInv, InHeader, BeforeBody, InBody
<1>Ascending. Ascending'
  BY <1>0, <1>2, <1>3, AscendingKept
<1> QED BY <1>ReadTypes, <1>PlaceInv, <1>SkipInv, <1>ChunkInv, <1>LimitInv, <1>ToldInv, <1>Ascending DEF ReadInv

LEMMA BodyInitKeeps ==
  ASSUME Read!HttpReadAssumption, ReadInv, Read!BodyInit, InPut
  PROVE  ReadInv'
<1>0. ReadTypes /\ PlaceInv /\ SkipInv /\ ChunkInv /\ LimitInv /\ ToldInv /\ Ascending
  BY DEF ReadInv
<1>n. /\ base \in Nat /\ got \in Nat /\ p \in Nat /\ base + p <= got
      /\ read_first \in Nat /\ len \in Nat /\ len0 \in Nat /\ skip \in Nat
      /\ bodyLimit \in Nat /\ room \in Nat /\ headerLimit \in Nat /\ bodyMax \in Nat
      /\ Read!n \in Nat /\ Read!n = got - base - p /\ out \in Seq(Nat) /\ Len(out) \in Nat
      /\ read_seen \in Seen
  BY <1>0, ReadNumbers
<1>1. /\ at = "switch" /\ at' = at /\ state \in {"body0", "body_to_eof0", "chunk_header0"}
      /\ state' = (CASE state = "body0" -> "body" [] state = "body_to_eof0" -> "body_to_eof"
                     [] state = "chunk_header0" -> "chunk_header")
      /\ p' = p /\ read_first' = read_first /\ flags' = flags /\ len' = len /\ len0' = len0
      /\ skip' = skip /\ bodyLimit' = bodyLimit /\ room' = room /\ out' = out /\ read_ec' = read_ec
      /\ read_seen' = [read_seen EXCEPT !.init = @ + 1]
  BY DEF Read!BodyInit, Read!BodyStates, Read!Goto
<1>2. /\ out = <<>> /\ read_seen.init = 0 /\ read_seen.finish = 0 /\ {"expect_crlf", "final_chunk"} \cap flags = {}
      /\ state' \in {"body", "body_to_eof", "chunk_header"}
  BY <1>0, <1>1 DEF ToldInv, BeforeBody, ChunkInv
<1>3. read_seen' \in Seen /\ read_seen'.init = 1 /\ read_seen'.finish = 0
  <2>1. 0 + 1 = 1
    OBVIOUS
  <2> QED BY <1>n, <1>1, <1>2, <2>1, SeenGrows
<1>ReadTypes. ReadTypes'
  BY <1>0, <1>1, <1>2, <1>3 DEF ReadTypes, InPut, Seen, InHeader, BeforeBody, InBody
<1>PlaceInv. PlaceInv'
  BY <1>0, <1>1, <1>2 DEF PlaceInv, InPut, GoesOn
<1>SkipInv. SkipInv'
  BY <1>0, <1>1, <1>2 DEF SkipInv
<1>ChunkInv. ChunkInv'
  BY <1>0, <1>1, <1>2 DEF ChunkInv
<1>LimitInv. LimitInv'
  BY <1>0, <1>1, <1>2, <1>n DEF LimitInv, Promised, InHeader, InPut
<1>ToldInv. ToldInv'
  BY <1>1, <1>2, <1>3 DEF ToldInv, InHeader, BeforeBody, InBody
<1>Ascending. Ascending'
  BY <1>1, <1>2 DEF Ascending
<1> QED BY <1>ReadTypes, <1>PlaceInv, <1>SkipInv, <1>ChunkInv, <1>LimitInv, <1>ToldInv, <1>Ascending DEF ReadInv

LEMMA BeginKeeps ==
  ASSUME Read!HttpReadAssumption, ReadInv, Read!Begin, InPut
  PROVE  ReadInv'
<1>0. ReadTypes /\ PlaceInv /\ SkipInv /\ ChunkInv /\ LimitInv /\ ToldInv /\ Ascending
  BY DEF ReadInv
<1>n. /\ base \in Nat /\ got \in Nat /\ p \in Nat /\ base + p <= got
      /\ read_first \in Nat /\ len \in Nat /\ len0 \in Nat /\ skip \in Nat
      /\ bodyLimit \in Nat /\ room \in Nat /\ headerLimit \in Nat /\ bodyMax \in Nat
      /\ Read!n \in Nat /\ Read!n = got - base - p /\ out \in Seq(Nat) /\ Len(out) \in Nat
      /\ read_seen \in Seen
  BY <1>0, ReadNumbers
<1>1. /\ at = "switch" /\ state = "nothing_yet" /\ Read!Quiet /\ p' = p /\ read_first' = read_first /\ skip' = skip
      /\ \/ at' = "done" /\ read_ec' = "need_more" /\ state' = state
         \/ state' = "start_line" /\ at' = at /\ read_ec' = read_ec
  BY DEF Read!Begin, Read!Return, Read!Goto
<1>ReadTypes. ReadTypes'
  BY <1>0, <1>1 DEF ReadTypes, Read!Quiet, InPut, InHeader
<1>PlaceInv. PlaceInv'
  BY <1>0, <1>1 DEF PlaceInv, InPut
<1>SkipInv. SkipInv'
  BY <1>0, <1>1 DEF SkipInv
<1>ChunkInv. ChunkInv'
  BY <1>0, <1>1 DEF ChunkInv, Read!Quiet
<1>LimitInv. LimitInv'
  BY <1>0, <1>1 DEF LimitInv, Read!Quiet, InPut, InHeader, Promised
<1>ToldInv. ToldInv'
  BY <1>0, <1>1 DEF ToldInv, Read!Quiet, InHeader, InBody
<1>Ascending. Ascending'
  BY <1>0, <1>1 DEF Ascending, Read!Quiet, InPut
<1> QED BY <1>ReadTypes, <1>PlaceInv, <1>SkipInv, <1>ChunkInv, <1>LimitInv, <1>ToldInv, <1>Ascending DEF ReadInv

LEMMA EnterFieldsKeeps ==
  ASSUME Read!HttpReadAssumption, ReadInv, Read!EnterFields, InPut
  PROVE  ReadInv'
<1>0. ReadTypes /\ PlaceInv /\ SkipInv /\ ChunkInv /\ LimitInv /\ ToldInv /\ Ascending
  BY DEF ReadInv
<1>n. /\ base \in Nat /\ got \in Nat /\ p \in Nat /\ base + p <= got
      /\ read_first \in Nat /\ len \in Nat /\ len0 \in Nat /\ skip \in Nat
      /\ bodyLimit \in Nat /\ room \in Nat /\ headerLimit \in Nat /\ bodyMax \in Nat
      /\ Read!n \in Nat /\ Read!n = got - base - p /\ out \in Seq(Nat) /\ Len(out) \in Nat
      /\ read_seen \in Seen
  BY <1>0, ReadNumbers
<1>ReadTypes. ReadTypes'
  BY <1>0 DEF Read!EnterFields, ReadTypes, Read!Quiet, InPut, InHeader
<1>PlaceInv. PlaceInv'
  BY <1>0, <1>n DEF Read!EnterFields, PlaceInv, InPut
<1>SkipInv. SkipInv'
  BY <1>n DEF Read!EnterFields, SkipInv
<1>ChunkInv. ChunkInv'
  BY <1>0 DEF Read!EnterFields, ChunkInv, Read!Quiet
<1>LimitInv. LimitInv'
  BY <1>0
     DEF Read!EnterFields, LimitInv, Read!Quiet, InPut, InHeader, Promised
<1>ToldInv. ToldInv'
  BY <1>0 DEF Read!EnterFields, ToldInv, Read!Quiet, InHeader, InBody
<1>Ascending. Ascending'
  BY <1>0 DEF Read!EnterFields, Ascending, Read!Quiet, InPut
<1> QED BY <1>ReadTypes, <1>PlaceInv, <1>SkipInv, <1>ChunkInv, <1>LimitInv, <1>ToldInv, <1>Ascending DEF ReadInv

(* The body: what is taken off what is promised is handed on.              *)
LEMMA ParseBodyKeeps ==
  ASSUME Read!HttpReadAssumption, ReadInv, Read!ParseBody, InPut
  PROVE  ReadInv'
<1>0. ReadTypes /\ PlaceInv /\ SkipInv /\ ChunkInv /\ LimitInv /\ ToldInv /\ Ascending
  BY DEF ReadInv
<1>n. /\ base \in Nat /\ got \in Nat /\ p \in Nat /\ base + p <= got
      /\ read_first \in Nat /\ len \in Nat /\ len0 \in Nat /\ skip \in Nat
      /\ bodyLimit \in Nat /\ room \in Nat /\ headerLimit \in Nat /\ bodyMax \in Nat
      /\ Read!n \in Nat /\ Read!n = got - base - p /\ out \in Seq(Nat) /\ Len(out) \in Nat
      /\ read_seen \in Seen
  BY <1>0, ReadNumbers
<1> DEFINE m == Read!BodyPart(Read!n)
           k == Read!Taken(m)
<1>1. m \in Nat /\ m <= Read!n /\ m <= len
  BY <1>n DEF Read!BodyPart, Read!Least
<1>2. Read!Deliver(m)
  BY DEF Read!ParseBody
<1> HIDE DEF m
<1>3. /\ k \in Nat /\ k <= m
      /\ p' = p + k /\ p' \in Nat /\ base' + p' <= got' /\ room' \in Nat
      /\ out' \in Seq(Nat) /\ Len(out') = Len(out) + k /\ Ascending'
  BY <1>0, <1>1, <1>2, Delivered
<1>4. /\ at = "switch" /\ state = "body" /\ len' = len - k
      /\ read_first' = read_first /\ flags' = flags /\ len0' = len0 /\ skip' = skip /\ bodyLimit' = bodyLimit
      /\ \/ at' = "done" /\ read_ec' = "need_buffer" /\ state' = state /\ read_seen' = read_seen
         \/ at' \in {"switch", "done"} /\ read_ec' = "ok" /\ state' = state /\ read_seen' = read_seen
         \/ /\ at' = "done" /\ read_ec' = "ok" /\ state' = "complete"
            /\ read_seen' = [read_seen EXCEPT !.finish = @ + 1]
  BY DEF Read!ParseBody, Read!Return, Read!Goto, Read!EndOfLoop, Read!Finish, m
<1> HIDE DEF k
<1>5. len' \in Nat /\ Len(out') + len' = Len(out) + len
  <2>1. len - k \in Nat /\ (Len(out) + k) + (len - k) = Len(out) + len
    BY <1>n, <1>1, <1>3
  <2> QED BY <1>3, <1>4, <2>1
<1>6. Len(out) + len <= bodyMax /\ skip = 0 /\ read_seen.finish = 0 /\ read_seen.init = 1
  BY <1>0, <1>4 DEF LimitInv, Promised, InHeader, SkipInv, ToldInv, InBody
<1>7. read_seen' \in Seen /\ read_seen'.init = 1 /\ read_seen'.finish = IF state' = "complete" THEN 1 ELSE 0
  <2>1. 0 + 1 = 1
    OBVIOUS
  <2> QED BY <1>n, <1>4, <1>6, <2>1, SeenGrows
<1>ReadTypes. ReadTypes'
  BY <1>0, <1>3, <1>4, <1>5, <1>7 DEF ReadTypes, InPut, Seen, InHeader, BeforeBody, InBody
<1>PlaceInv. PlaceInv'
  BY <1>0, <1>4 DEF PlaceInv, InPut
<1>SkipInv. SkipInv'
  BY <1>4, <1>6 DEF SkipInv
<1>ChunkInv. ChunkInv'
  BY <1>0, <1>4 DEF ChunkInv
<1>LimitInv. LimitInv'
  <2>1. Len(out') + len' <= bodyMax /\ Len(out') + 0 <= bodyMax
    BY <1>n, <1>3, <1>5, <1>6
  <2> QED BY <1>4, <2>1 DEF LimitInv, Promised, InHeader, InPut
<1>ToldInv. ToldInv'
  BY <1>4, <1>7 DEF ToldInv, InHeader, BeforeBody, InBody
<1>Ascending. Ascending'
  BY <1>3
<1> QED BY <1>ReadTypes, <1>PlaceInv, <1>SkipInv, <1>ChunkInv, <1>LimitInv, <1>ToldInv, <1>Ascending DEF ReadInv

LEMMA ParseBodyToEofKeeps ==
  ASSUME Read!HttpReadAssumption, ReadInv, Read!ParseBodyToEof, InPut
  PROVE  ReadInv'
<1>0. ReadTypes /\ PlaceInv /\ SkipInv /\ ChunkInv /\ LimitInv /\ ToldInv /\ Ascending
  BY DEF ReadInv
<1>n. /\ base \in Nat /\ got \in Nat /\ p \in Nat /\ base + p <= got
      /\ read_first \in Nat /\ len \in Nat /\ len0 \in Nat /\ skip \in Nat
      /\ bodyLimit \in Nat /\ room \in Nat /\ headerLimit \in Nat /\ bodyMax \in Nat
      /\ Read!n \in Nat /\ Read!n = got - base - p /\ out \in Seq(Nat) /\ Len(out) \in Nat
      /\ read_seen \in Seen
  BY <1>0, ReadNumbers
<1>1. /\ at = "switch" /\ state = "body_to_eof" /\ state' = state /\ at' \in {"switch", "done"}
      /\ read_ec' \in {"ok", "body_limit", "need_buffer"}
      /\ read_first' = read_first /\ flags' = flags /\ len' = len /\ len0' = len0 /\ skip' = skip
      /\ read_seen' = read_seen
      /\ \/ bodyLimit' = bodyLimit /\ out' = out /\ p' = p /\ room' = room
         \/ ~(Read!n > bodyLimit) /\ bodyLimit' = bodyLimit - Read!n /\ Read!Deliver(Read!n)
  BY DEF Read!ParseBodyToEof, Read!Return, Read!EndOfLoop
<1>2. at' = "switch" => read_ec' = "ok"
  BY DEF Read!ParseBodyToEof, Read!Return, Read!EndOfLoop
<1>3. skip = 0 /\ Len(out) + bodyLimit <= bodyMax
  BY <1>0, <1>1 DEF LimitInv, Promised, InHeader, SkipInv
<1>4. /\ p' \in Nat /\ base' + p' <= got' /\ room' \in Nat /\ out' \in Seq(Nat) /\ Ascending'
      /\ bodyLimit' \in Nat /\ Len(out') + bodyLimit' <= bodyMax
  <2>1. CASE bodyLimit' = bodyLimit /\ out' = out /\ p' = p /\ room' = room
    <3>1. base' = base /\ got' = got /\ base' + p' \in Nat /\ base + p <= base' + p' /\ base' + p' <= got'
      BY <1>n, <2>1 DEF InPut
    <3> QED BY <1>0, <1>n, <1>3, <2>1, <3>1, AscendingKept
  <2>2. CASE ~(Read!n > bodyLimit) /\ bodyLimit' = bodyLimit - Read!n /\ Read!Deliver(Read!n)
    <3> DEFINE k == Read!Taken(Read!n)
    <3>1. Read!n <= Read!n
      BY <1>n
    <3>2. /\ k \in Nat /\ k <= Read!n /\ p' \in Nat /\ base' + p' <= got' /\ room' \in Nat
          /\ out' \in Seq(Nat) /\ Len(out') = Len(out) + k /\ Ascending'
      BY <1>0, <1>n, <2>2, <3>1, Delivered
    <3> HIDE DEF k
    <3>3. bodyLimit - Read!n \in Nat /\ (Len(out) + k) + (bodyLimit - Read!n) <= bodyMax
      BY <1>n, <1>3, <2>2, <3>2
    <3> QED BY <2>2, <3>2, <3>3
  <2> QED BY <1>1, <2>1, <2>2
<1>ReadTypes. ReadTypes'
  BY <1>0, <1>1, <1>4 DEF ReadTypes, InPut, Seen, InHeader, BeforeBody, InBody
<1>PlaceInv. PlaceInv'
  BY <1>0, <1>1 DEF PlaceInv, InPut
<1>SkipInv. SkipInv'
  BY <1>1, <1>3 DEF SkipInv
<1>ChunkInv. ChunkInv'
  BY <1>0, <1>1 DEF ChunkInv
<1>LimitInv. LimitInv'
  BY <1>1, <1>4 DEF LimitInv, Promised, InHeader, InPut
<1>ToldInv. ToldInv'
  BY <1>0, <1>1 DEF ToldInv, InHeader, BeforeBody, InBody
<1>Ascending. Ascending'
  BY <1>4
<1> QED BY <1>ReadTypes, <1>PlaceInv, <1>SkipInv, <1>ChunkInv, <1>LimitInv, <1>ToldInv, <1>Ascending DEF ReadInv

LEMMA ParseChunkBodyKeeps ==
  ASSUME Read!HttpReadAssumption, ReadInv, Read!ParseChunkBody, InPut
  PROVE  ReadInv'
<1>0. ReadTypes /\ PlaceInv /\ SkipInv /\ ChunkInv /\ LimitInv /\ ToldInv /\ Ascending
  BY DEF ReadInv
<1>n. /\ base \in Nat /\ got \in Nat /\ p \in Nat /\ base + p <= got
      /\ read_first \in Nat /\ len \in Nat /\ len0 \in Nat /\ skip \in Nat
      /\ bodyLimit \in Nat /\ room \in Nat /\ headerLimit \in Nat /\ bodyMax \in Nat
      /\ Read!n \in Nat /\ Read!n = got - base - p /\ out \in Seq(Nat) /\ Len(out) \in Nat
      /\ read_seen \in Seen
  BY <1>0, ReadNumbers
<1> DEFINE m == Read!BodyPart(Read!n)
           k == Read!Taken(m)
<1>1. m \in Nat /\ m <= Read!n /\ m <= len
  BY <1>n DEF Read!BodyPart, Read!Least
<1>2. Read!Deliver(m)
  BY DEF Read!ParseChunkBody
<1> HIDE DEF m
<1>3. /\ k \in Nat /\ k <= m
      /\ p' = p + k /\ p' \in Nat /\ base' + p' <= got' /\ room' \in Nat
      /\ out' \in Seq(Nat) /\ Len(out') = Len(out) + k /\ Ascending'
  BY <1>0, <1>1, <1>2, Delivered
<1>4. /\ at = "switch" /\ state = "chunk_body" /\ len' = len - k
      /\ read_first' = read_first /\ flags' = flags /\ len0' = len0 /\ skip' = skip /\ bodyLimit' = bodyLimit
      /\ read_seen' = read_seen /\ state' \in {"chunk_body", "chunk_header"}
      /\ at' \in {"switch", "done"} /\ read_ec' \in {"ok", "need_buffer"}
  BY DEF Read!ParseChunkBody, Read!Return, Read!Goto, Read!EndOfLoop, m
<1> HIDE DEF k
<1>5. len' \in Nat /\ Len(out') + (len' + bodyLimit) = Len(out) + (len + bodyLimit)
  BY <1>n, <1>1, <1>3, <1>4
<1>6. /\ Len(out) + (len + bodyLimit) <= bodyMax /\ read_seen.finish = 0 /\ read_seen.init = 1
      /\ "final_chunk" \notin flags
  BY <1>0, <1>4 DEF LimitInv, Promised, InHeader, ToldInv, InBody, ChunkInv
<1>ReadTypes. ReadTypes'
  BY <1>0, <1>3, <1>4, <1>5 DEF ReadTypes, InPut, Seen, InHeader, BeforeBody, InBody
<1>PlaceInv. PlaceInv'
  BY <1>0, <1>4 DEF PlaceInv, InPut
<1>SkipInv. SkipInv'
  BY <1>4 DEF SkipInv
<1>ChunkInv. ChunkInv'
  BY <1>0, <1>4, <1>6 DEF ChunkInv
<1>LimitInv. LimitInv'
  <2>1. Len(out') + (len' + bodyLimit') <= bodyMax
    BY <1>n, <1>3, <1>4, <1>5, <1>6
  <2> QED BY <1>4, <2>1 DEF LimitInv, Promised, InHeader, InPut
<1>ToldInv. ToldInv'
  BY <1>4, <1>6 DEF ToldInv, InHeader, BeforeBody, InBody
<1>Ascending. Ascending'
  BY <1>3
<1> QED BY <1>ReadTypes, <1>PlaceInv, <1>SkipInv, <1>ChunkInv, <1>LimitInv, <1>ToldInv, <1>Ascending DEF ReadInv

(* The header of a chunk and the trailer.                                  *)
LEMMA ChunkNeedsMoreKeeps ==
  ASSUME Read!HttpReadAssumption, ReadInv, Read!ChunkNeedsMore, InPut
  PROVE  ReadInv'
<1>0. ReadTypes /\ PlaceInv /\ SkipInv /\ ChunkInv /\ LimitInv /\ ToldInv /\ Ascending
  BY DEF ReadInv
<1>n. /\ base \in Nat /\ got \in Nat /\ p \in Nat /\ base + p <= got
      /\ read_first \in Nat /\ len \in Nat /\ len0 \in Nat /\ skip \in Nat
      /\ bodyLimit \in Nat /\ room \in Nat /\ headerLimit \in Nat /\ bodyMax \in Nat
      /\ Read!n \in Nat /\ Read!n = got - base - p /\ out \in Seq(Nat) /\ Len(out) \in Nat
      /\ read_seen \in Seen
  BY <1>0, ReadNumbers
<1>1. /\ at = "switch" /\ state = "chunk_header" /\ "final_chunk" \notin flags /\ Read!Quiet
      /\ p' = p /\ read_first' = read_first /\ state' = state /\ at' = "done" /\ read_ec' = "need_more"
      /\ \/ skip' = skip
         \/ ~(Read!n < skip + 2) /\ skip' = Read!n - 1
  BY DEF Read!ChunkNeedsMore, Read!Return
<1>2. skip' \in Nat /\ skip' >= skip
  BY <1>n, <1>1
<1>ReadTypes. ReadTypes'
  BY <1>0, <1>1, <1>2 DEF ReadTypes, InPut, Read!Quiet, InHeader, BeforeBody, InBody
<1>PlaceInv. PlaceInv'
  BY <1>0, <1>1 DEF PlaceInv, InPut
<1>SkipInv. SkipInv'
  BY <1>1 DEF SkipInv
<1>ChunkInv. ChunkInv'
  <2>1. "expect_crlf" \in flags => skip' >= 2
    <3>1. "expect_crlf" \in flags => skip >= 2
      BY <1>0 DEF ChunkInv
    <3> QED BY <1>n, <1>2, <3>1
  <2> QED BY <1>0, <1>1, <2>1 DEF ChunkInv, Read!Quiet
<1>LimitInv. LimitInv'
  BY <1>0, <1>1 DEF LimitInv, Read!Quiet, InPut, InHeader, Promised
<1>ToldInv. ToldInv'
  BY <1>0, <1>1 DEF ToldInv, Read!Quiet, InHeader, BeforeBody, InBody
<1>Ascending. Ascending'
  BY <1>0, <1>1 DEF Ascending, Read!Quiet, InPut
<1> QED BY <1>ReadTypes, <1>PlaceInv, <1>SkipInv, <1>ChunkInv, <1>LimitInv, <1>ToldInv, <1>Ascending DEF ReadInv

LEMMA BadChunkKeeps ==
  ASSUME Read!HttpReadAssumption, ReadInv, Read!BadChunk, InPut
  PROVE  ReadInv'
<1>0. ReadTypes /\ PlaceInv /\ SkipInv /\ ChunkInv /\ LimitInv /\ ToldInv /\ Ascending
  BY DEF ReadInv
<1>n. /\ base \in Nat /\ got \in Nat /\ p \in Nat /\ base + p <= got
      /\ read_first \in Nat /\ len \in Nat /\ len0 \in Nat /\ skip \in Nat
      /\ bodyLimit \in Nat /\ room \in Nat /\ headerLimit \in Nat /\ bodyMax \in Nat
      /\ Read!n \in Nat /\ Read!n = got - base - p /\ out \in Seq(Nat) /\ Len(out) \in Nat
      /\ read_seen \in Seen
  BY <1>0, ReadNumbers
<1>ReadTypes. ReadTypes'
  BY <1>0 DEF Read!BadChunk, ReadTypes, Read!Return, Read!Quiet, InPut, InBody
<1>PlaceInv. PlaceInv'
  BY <1>0 DEF Read!BadChunk, PlaceInv, Read!Return, InPut
<1>SkipInv. SkipInv'
  BY <1>n DEF Read!BadChunk, SkipInv
<1>ChunkInv. ChunkInv'
  BY <1>0 DEF Read!BadChunk, ChunkInv, Read!Quiet
<1>LimitInv. LimitInv'
  BY <1>0 DEF Read!BadChunk, LimitInv, Read!Quiet, InPut, InHeader, Promised
<1>ToldInv. ToldInv'
  BY <1>0 DEF Read!BadChunk, ToldInv, Read!Quiet, InHeader, BeforeBody, InBody
<1>Ascending. Ascending'
  BY <1>0 DEF Read!BadChunk, Ascending, Read!Quiet, InPut
<1> QED BY <1>ReadTypes, <1>PlaceInv, <1>SkipInv, <1>ChunkInv, <1>LimitInv, <1>ToldInv, <1>Ascending DEF ReadInv

LEMMA ChunkHeaderKeeps ==
  ASSUME Read!HttpReadAssumption, ReadInv, Read!ChunkHeader, InPut
  PROVE  ReadInv'
<1>0. ReadTypes /\ PlaceInv /\ SkipInv /\ ChunkInv /\ LimitInv /\ ToldInv /\ Ascending
  BY DEF ReadInv
<1>n. /\ base \in Nat /\ got \in Nat /\ p \in Nat /\ base + p <= got
      /\ read_first \in Nat /\ len \in Nat /\ len0 \in Nat /\ skip \in Nat
      /\ bodyLimit \in Nat /\ room \in Nat /\ headerLimit \in Nat /\ bodyMax \in Nat
      /\ Read!n \in Nat /\ Read!n = got - base - p /\ out \in Seq(Nat) /\ Len(out) \in Nat
      /\ read_seen \in Seen
  BY <1>0, ReadNumbers
<1>1. /\ Read!ChunkEol \in Nat /\ Read!ChunkEol <= got - base /\ p + skip + 2 <= Read!ChunkEol
  BY <1>0, <1>n, ChunkEolIsLeast DEF Read!ChunkHeader, Read!IsChunk
<1>2. /\ at = "switch" /\ state = "chunk_header" /\ "final_chunk" \notin flags
      /\ Read!ChunkSize \in Nat /\ "chunked" \in flags /\ read_seen.init = 1 /\ read_seen.finish = 0
  <2>1. at = "switch" /\ state = "chunk_header" /\ "final_chunk" \notin flags
        /\ Read!At(Read!q + 1) \in DOMAIN Read!Sizes
    BY DEF Read!ChunkHeader, Read!IsChunk, Read!ChunkLine
  <2>2. Read!ChunkSize \in Nat
    BY <2>1 DEF Read!ChunkSize, Read!Sizes
  <2> QED BY <1>0, <2>1, <2>2 DEF ChunkInv, ToldInv, InBody
<1>3. /\ read_first' = read_first /\ len0' = len0 /\ room' = room /\ out' = out
      /\ \/ /\ skip' = Read!ChunkEol - 2 - p /\ at' = "done" /\ read_ec' = "body_limit" /\ p' = p
            /\ len' = len /\ flags' = flags /\ state' = state /\ bodyLimit' = bodyLimit
            /\ read_seen' = read_seen
         \/ /\ ~(Read!ChunkSize > bodyLimit) /\ bodyLimit' = bodyLimit - Read!ChunkSize
            /\ len' = Read!ChunkSize /\ skip' = 2 /\ p' = Read!ChunkEol /\ state' = "chunk_body"
            /\ flags' = flags \cup {"expect_crlf"} /\ at' \in {"switch", "done"} /\ read_ec' = "ok"
            /\ read_seen' = [read_seen EXCEPT !.chunks = @ + 1]
  BY DEF Read!ChunkHeader, Read!Return, Read!Goto, Read!EndOfLoop
<1>4. /\ p' \in Nat /\ base' + p' <= got' /\ base' + p' \in Nat /\ base + p <= base' + p'
      /\ skip' \in Nat /\ ("expect_crlf" \in flags' => skip' >= 2)
  <2>1. base' = base /\ got' = got
    BY DEF InPut
  <2>2. "expect_crlf" \in flags => skip >= 2
    BY <1>0 DEF ChunkInv
  <2>3. CASE skip' = Read!ChunkEol - 2 - p /\ p' = p /\ flags' = flags
    BY <1>n, <1>1, <2>1, <2>2, <2>3
  <2>4. CASE skip' = 2 /\ p' = Read!ChunkEol
    BY <1>n, <1>1, <2>1, <2>4
  <2> QED BY <1>3, <2>3, <2>4
<1>5. read_seen' \in Seen /\ read_seen'.init = 1 /\ read_seen'.finish = 0
  BY <1>n, <1>2, <1>3, SeenGrows
<1>6. /\ len' \in Nat /\ bodyLimit' \in Nat
      /\ len' + bodyLimit' <= len + bodyLimit
  <2>1. CASE len' = len /\ bodyLimit' = bodyLimit
    BY <1>n, <2>1
  <2>2. CASE ~(Read!ChunkSize > bodyLimit) /\ bodyLimit' = bodyLimit - Read!ChunkSize /\ len' = Read!ChunkSize
    BY <1>n, <1>2, <2>2
  <2> QED BY <1>3, <2>1, <2>2
<1>7. /\ at' \in {"switch", "done"} /\ state' \in {"chunk_header", "chunk_body"}
      /\ flags' \in {flags, flags \cup {"expect_crlf"}}
      /\ read_ec' \in {"ok", "body_limit"}
  BY <1>2, <1>3
<1>ReadTypes. ReadTypes'
  BY <1>0, <1>3, <1>4, <1>5, <1>6, <1>7 DEF ReadTypes, InPut, Seen, InHeader, BeforeBody, InBody
<1>PlaceInv. PlaceInv'
  BY <1>0, <1>2, <1>7 DEF PlaceInv, InPut
<1>SkipInv. SkipInv'
  BY <1>7 DEF SkipInv
<1>ChunkInv. ChunkInv'
  BY <1>2, <1>4, <1>7 DEF ChunkInv
<1>LimitInv. LimitInv'
  <2>1. Len(out) + (len + bodyLimit) <= bodyMax
    BY <1>0, <1>2 DEF LimitInv, Promised, InHeader
  <2>2. Len(out) + (len' + bodyLimit') <= bodyMax
    <3>1. PICK o, a, c \in Nat : o = Len(out) /\ a = len + bodyLimit /\ c = len' + bodyLimit'
      <4>1. len' + bodyLimit' \in Nat
        <5>1. \A i, k \in Nat : i + k \in Nat
          OBVIOUS
        <5> QED BY <1>6, <5>1
      <4>2. len + bodyLimit \in Nat /\ Len(out) \in Nat
        BY <1>n
      <4> QED BY <4>1, <4>2
    <3>2. c <= a /\ o + a <= bodyMax
      BY <1>6, <2>1, <3>1
    <3>3. o + c <= bodyMax
      BY <1>n, <3>2
    <3> QED BY <3>1, <3>3
  <2> QED BY <1>3, <1>7, <2>2 DEF LimitInv, Promised, InHeader, InPut
<1>ToldInv. ToldInv'
  BY <1>5, <1>7 DEF ToldInv, InHeader, BeforeBody, InBody
<1>Ascending. Ascending'
  BY <1>0, <1>3, <1>4, AscendingKept
<1> QED BY <1>ReadTypes, <1>PlaceInv, <1>SkipInv, <1>ChunkInv, <1>LimitInv, <1>ToldInv, <1>Ascending DEF ReadInv

LEMMA LastChunkNeedsMoreKeeps ==
  ASSUME Read!HttpReadAssumption, ReadInv, Read!LastChunkNeedsMore, InPut
  PROVE  ReadInv'
<1>0. ReadTypes /\ PlaceInv /\ SkipInv /\ ChunkInv /\ LimitInv /\ ToldInv /\ Ascending
  BY DEF ReadInv
<1>n. /\ base \in Nat /\ got \in Nat /\ p \in Nat /\ base + p <= got
      /\ read_first \in Nat /\ len \in Nat /\ len0 \in Nat /\ skip \in Nat
      /\ bodyLimit \in Nat /\ room \in Nat /\ headerLimit \in Nat /\ bodyMax \in Nat
      /\ Read!n \in Nat /\ Read!n = got - base - p /\ out \in Seq(Nat) /\ Len(out) \in Nat
      /\ read_seen \in Seen
  BY <1>0, ReadNumbers
<1>1. /\ at = "switch" /\ state = "chunk_header" /\ flags' = flags \cup {"final_chunk"}
      /\ skip' = Read!n - 3 /\ at' = "done" /\ read_ec' = "need_more"
      /\ p' = p /\ read_first' = read_first /\ state' = state /\ len' = len /\ len0' = len0
      /\ bodyLimit' = bodyLimit /\ room' = room /\ out' = out /\ read_seen' = read_seen
      /\ "final_chunk" \in flags \/ (Read!IsChunk /\ Read!ChunkSize = 0)
  BY DEF Read!LastChunkNeedsMore, Read!Return, Read!NextSkip
<1>2. Read!crlf \in {0, 2} /\ Read!crlf <= Read!n - 3 /\ Read!At(Read!q + 1) = "s0"
  <2>1. CASE "final_chunk" \in flags
    <3>1. Read!n >= Read!crlf + 3 /\ Read!At(Read!q + 1) = "s0" /\ Read!crlf \in {0, 2}
      BY <1>0, <1>1, <2>1 DEF ChunkInv, GoesOn, Read!crlf
    <3> QED BY <1>n, <3>1
  <2>2. CASE Read!IsChunk /\ Read!ChunkSize = 0
    <3>1. /\ Read!ChunkEol \in Nat /\ Read!ChunkEol <= got - base /\ p + Read!crlf + 3 <= Read!ChunkEol
          /\ Read!crlf \in {0, 2}
      BY <1>0, <2>2, ChunkIsWhole
    <3>2. Read!At(Read!q + 1) = "s0"
      BY <2>2 DEF Read!IsChunk, Read!ChunkSize, Read!Sizes
    <3> QED BY <1>n, <3>1, <3>2
  <2> QED BY <1>1, <2>1, <2>2
<1>3. /\ Read!n' = Read!n /\ Read!crlf' = Read!crlf /\ (Read!At(Read!q + 1))' = Read!At(Read!q + 1)
      /\ skip' \in Nat /\ skip' >= Read!crlf /\ Read!n >= Read!crlf + 3
      /\ "expect_crlf" \in flags => Read!crlf = 2
  <2>1. Read!n' = Read!n /\ Read!crlf' = Read!crlf /\ (Read!At(Read!q + 1))' = Read!At(Read!q + 1)
    BY <1>1 DEF InPut, Read!n, Read!crlf, Read!At, Read!q, Read!wire
  <2>2. "expect_crlf" \in flags => Read!crlf = 2
    BY DEF Read!crlf
  <2> QED BY <1>n, <1>1, <1>2, <2>1, <2>2
<1>ReadTypes. ReadTypes'
  BY <1>0, <1>1, <1>3 DEF ReadTypes, InPut, InHeader, BeforeBody, InBody
<1>PlaceInv. PlaceInv'
  BY <1>0, <1>1 DEF PlaceInv, InPut
<1>SkipInv. SkipInv'
  BY <1>1 DEF SkipInv
<1>ChunkInv. ChunkInv'
  BY <1>0, <1>1, <1>2, <1>3 DEF ChunkInv
<1>LimitInv. LimitInv'
  BY <1>0, <1>1 DEF LimitInv, Promised, InHeader, InPut
<1>ToldInv. ToldInv'
  BY <1>0, <1>1 DEF ToldInv, InHeader, BeforeBody, InBody
<1>Ascending. Ascending'
  BY <1>0, <1>1 DEF Ascending, InPut
<1> QED BY <1>ReadTypes, <1>PlaceInv, <1>SkipInv, <1>ChunkInv, <1>LimitInv, <1>ToldInv, <1>Ascending DEF ReadInv

LEMMA LastChunkKeeps ==
  ASSUME Read!HttpReadAssumption, ReadInv, Read!LastChunk, InPut
  PROVE  ReadInv'
<1>0. ReadTypes /\ PlaceInv /\ SkipInv /\ ChunkInv /\ LimitInv /\ ToldInv /\ Ascending
  BY DEF ReadInv
<1>n. /\ base \in Nat /\ got \in Nat /\ p \in Nat /\ base + p <= got
      /\ read_first \in Nat /\ len \in Nat /\ len0 \in Nat /\ skip \in Nat
      /\ bodyLimit \in Nat /\ room \in Nat /\ headerLimit \in Nat /\ bodyMax \in Nat
      /\ Read!n \in Nat /\ Read!n = got - base - p /\ out \in Seq(Nat) /\ Len(out) \in Nat
      /\ read_seen \in Seen
  BY <1>0, ReadNumbers
<1>1. /\ at = "switch" /\ state = "chunk_header" /\ flags' = flags \cup {"final_chunk"}
      /\ skip' = (IF "final_chunk" \in flags THEN skip ELSE Read!ChunkEol - 2 - p) /\ at' = "trailer"
      /\ p' = Read!Min(Read!Eols(Read!q, Read!end))
      /\ read_first' = read_first /\ state' = state /\ len' = len /\ len0' = len0
      /\ bodyLimit' = bodyLimit /\ room' = room /\ out' = out /\ read_ec' = read_ec
      /\ read_seen' = [read_seen EXCEPT !.chunks = @ + 1]
      /\ IF "final_chunk" \in flags THEN Read!Eoms(p + skip, Read!end) # {}
         ELSE Read!IsChunk /\ Read!Eoms(Read!ChunkEol - 2, Read!end) # {}
  BY DEF Read!LastChunk
<1>2. /\ Read!crlf \in {0, 2} /\ Read!q = p + Read!crlf /\ Read!end = got - base
      /\ Read!q \in Nat /\ Read!end \in Nat
      /\ "expect_crlf" \in flags => skip >= 2
  <2>1. Read!crlf \in {0, 2} /\ Read!q = p + Read!crlf /\ Read!end = got - base
    BY DEF Read!crlf, Read!q, Read!end
  <2> QED BY <1>0, <1>n, <2>1 DEF ChunkInv
(* The empty line behind the trailer, and with it the chunk's own line.    *)
<1>3. PICK e \in Int :
        /\ Read!q + 4 <= e /\ e <= Read!end
        /\ Read!At(e - 3) = "r" /\ Read!At(e - 2) = "n" /\ Read!At(e - 1) = "r" /\ Read!At(e) = "n"
  <2>1. CASE "final_chunk" \in flags
    <3>1. skip >= Read!crlf
      BY <1>0, <1>1, <2>1 DEF ChunkInv, GoesOn
    <3>2. p + skip \in Int /\ (p + skip) + 4 >= Read!q + 4
      BY <1>n, <1>2, <3>1
    <3>3. PICK e : e \in Read!Eoms(p + skip, Read!end)
      BY <1>1, <2>1
    <3>4. e \in Int /\ (p + skip) + 4 <= e /\ e <= Read!end
          /\ Read!At(e - 3) = "r" /\ Read!At(e - 2) = "n" /\ Read!At(e - 1) = "r" /\ Read!At(e) = "n"
      BY <1>2, <3>2, <3>3, EndsOfHeader
    <3>5. Read!q + 4 <= e
      BY <1>n, <1>2, <3>2, <3>4
    <3> QED BY <3>4, <3>5
  <2>2. CASE "final_chunk" \notin flags
    <3>1. Read!ChunkEol \in Nat /\ p + Read!crlf + 3 <= Read!ChunkEol
      BY <1>0, <1>1, <2>2, ChunkIsWhole
    <3>2. Read!ChunkEol - 2 \in Int /\ (Read!ChunkEol - 2) + 4 >= Read!q + 4
      BY <1>n, <1>2, <3>1
    <3>3. PICK e : e \in Read!Eoms(Read!ChunkEol - 2, Read!end)
      BY <1>1, <2>2
    <3>4. e \in Int /\ (Read!ChunkEol - 2) + 4 <= e /\ e <= Read!end
          /\ Read!At(e - 3) = "r" /\ Read!At(e - 2) = "n" /\ Read!At(e - 1) = "r" /\ Read!At(e) = "n"
      BY <1>2, <3>2, <3>3, EndsOfHeader
    <3>5. Read!q + 4 <= e
      BY <1>n, <1>2, <3>1, <3>2, <3>4
    <3> QED BY <3>4, <3>5
  <2> QED BY <2>1, <2>2
<1>4. PICK j \in Nat : j = p' /\ p <= j /\ j <= e - 2
  <2>1. /\ e - 2 \in Int /\ Read!q + 2 <= e - 2 /\ e - 2 <= Read!end /\ (e - 2) - 1 = e - 3
        /\ Read!q \in Int /\ Read!end \in Int /\ Read!q >= -2
    BY <1>2, <1>3
  <2>2. e - 2 \in Read!Eols(Read!q, Read!end)
    BY <1>3, <2>1, EndsOfLines
  <2>3. p' \in Read!Eols(Read!q, Read!end) /\ p' <= e - 2
    BY <1>1, <2>1, <2>2, LeastEnds
  <2>4. p' \in Int /\ Read!q + 2 <= p'
    BY <2>1, <2>3, EndsOfLines
  <2>5. PICK k \in Int, c \in {0, 2} : k = p' /\ (p + c) + 2 <= k /\ k <= e - 2
    BY <1>2, <2>3, <2>4
  <2>6. k \in Nat /\ p <= k
    BY <1>n, <2>5
  <2> QED BY <2>5, <2>6
<1>5. /\ base' = base /\ got' = got /\ base' + p' \in Nat /\ base' + p' <= got' /\ base + p <= base' + p'
  <2>1. base' = base /\ got' = got
    BY DEF InPut
  <2>2. e <= got - base
    BY <1>2, <1>3
  <2>3. base + j \in Nat /\ base + j <= got /\ base + p <= base + j
    <3>1. p \in Nat /\ base \in Nat /\ got \in Nat /\ p <= j /\ j <= e - 2
      BY <1>n, <1>4
    <3> QED BY <2>2, <3>1
  <2> QED BY <1>4, <2>1, <2>3
<1>6. (Read!Eoms(p - 2, got - base))' # {}
  <2>1. e <= got - base
    BY <1>2, <1>3
  <2>2. j - 2 \in Int /\ got - base \in Int /\ (j - 2) + 4 <= e
    <3>1. got - base \in Int
      BY <1>n
    <3>2. j <= e - 2
      BY <1>4
    <3>3. j - 2 \in Int /\ (j - 2) + 4 = j + 2 /\ j + 2 <= e
      BY <3>2
    <3> QED BY <3>1, <3>3
  <2>3. e \in Read!Eoms(j - 2, got - base)
    BY <1>3, <2>1, <2>2, EndsOfHeader
  <2> QED BY <1>4, <2>3, SameBuffer
<1>7. skip' \in Nat /\ ("expect_crlf" \in flags => skip' >= 2)
  <2>1. CASE "final_chunk" \in flags
    BY <1>n, <1>1, <1>2, <2>1
  <2>2. CASE "final_chunk" \notin flags
    <3>1. Read!ChunkEol \in Nat /\ p + skip + 2 <= Read!ChunkEol
      BY <1>0, <1>1, <2>2, ChunkEolIsLeast DEF Read!IsChunk
    <3>2. Read!ChunkEol - 2 - p \in Nat /\ Read!ChunkEol - 2 - p >= skip
      BY <1>n, <3>1
    <3>3. skip' = Read!ChunkEol - 2 - p
      BY <1>1, <2>2
    <3> QED BY <1>n, <1>2, <3>2, <3>3
  <2> QED BY <2>1, <2>2
<1>8. read_seen' \in Seen /\ read_seen'.init = read_seen.init /\ read_seen'.finish = read_seen.finish
  BY <1>n, <1>1, SeenGrows
<1>ReadTypes. ReadTypes'
  BY <1>0, <1>1, <1>4, <1>5, <1>7, <1>8 DEF ReadTypes, InPut, Seen, InHeader, BeforeBody, InBody
<1>PlaceInv. PlaceInv'
  BY <1>0, <1>1, <1>6 DEF PlaceInv, InPut, GoesOn
<1>SkipInv. SkipInv'
  BY <1>1 DEF SkipInv
<1>ChunkInv. ChunkInv'
  BY <1>0, <1>1, <1>7 DEF ChunkInv, GoesOn
<1>LimitInv. LimitInv'
  BY <1>0, <1>1 DEF LimitInv, Promised, InHeader, InPut
<1>ToldInv. ToldInv'
  BY <1>0, <1>1, <1>8 DEF ToldInv, InHeader, BeforeBody, InBody
<1>Ascending. Ascending'
  BY <1>0, <1>1, <1>5, AscendingKept
<1> QED BY <1>ReadTypes, <1>PlaceInv, <1>SkipInv, <1>ChunkInv, <1>LimitInv, <1>ToldInv, <1>Ascending DEF ReadInv

LEMMA EndOfTrailerKeeps ==
  ASSUME Read!HttpReadAssumption, ReadInv, Read!EndOfTrailer, InPut
  PROVE  ReadInv'
<1>0. ReadTypes /\ PlaceInv /\ SkipInv /\ ChunkInv /\ LimitInv /\ ToldInv /\ Ascending
  BY DEF ReadInv
<1>n. /\ base \in Nat /\ got \in Nat /\ p \in Nat /\ base + p <= got
      /\ read_first \in Nat /\ len \in Nat /\ len0 \in Nat /\ skip \in Nat
      /\ bodyLimit \in Nat /\ room \in Nat /\ headerLimit \in Nat /\ bodyMax \in Nat
      /\ Read!n \in Nat /\ Read!n = got - base - p /\ out \in Seq(Nat) /\ Len(out) \in Nat
      /\ read_seen \in Seen
  BY <1>0, ReadNumbers
<1>1. Read!fieldsLast \in Int /\ Read!fieldsLast <= got - base
  BY <1>0, FieldsLastInBuffer DEF Read!EndOfTrailer
<1>2. /\ at = "trailer" /\ state = "chunk_header" /\ p' = p + 2 /\ p + 2 <= Read!fieldsLast
      /\ state' = "complete" /\ at' = "done" /\ read_ec' = "ok"
      /\ read_first' = read_first /\ flags' = flags /\ len' = len /\ len0' = len0 /\ skip' = skip
      /\ bodyLimit' = bodyLimit /\ room' = room /\ out' = out
      /\ read_seen' = [read_seen EXCEPT !.finish = @ + 1]
  BY <1>0 DEF Read!EndOfTrailer, Read!Goto, Read!Finish, Read!EndOfLoop, PlaceInv
<1>3. p' \in Nat /\ base' + p' \in Nat /\ base' + p' <= got' /\ base + p <= base' + p'
  <2>1. base' = base /\ got' = got
    BY DEF InPut
  <2>2. PICK f \in Int : p + 2 <= f /\ f <= got - base
    BY <1>1, <1>2
  <2>3. p + 2 \in Nat /\ base + (p + 2) \in Nat /\ base + (p + 2) <= got /\ base + p <= base + (p + 2)
    BY <1>n, <2>2
  <2> QED BY <1>2, <2>1, <2>3
<1>4. read_seen' \in Seen /\ read_seen'.init = 1 /\ read_seen'.finish = 1
  <2>1. 0 + 1 = 1 /\ read_seen.init = 1 /\ read_seen.finish = 0
    BY <1>0, <1>2 DEF ToldInv, InBody
  <2> QED BY <1>n, <1>2, <2>1, SeenGrows
<1>5. Len(out) + 0 <= bodyMax
  <2>1. Len(out) + (len + bodyLimit) <= bodyMax
    BY <1>0, <1>2 DEF LimitInv, Promised, InHeader
  <2> QED BY <1>n, <2>1
<1>ReadTypes. ReadTypes'
  BY <1>0, <1>2, <1>3, <1>4 DEF ReadTypes, InPut, Seen
<1>PlaceInv. PlaceInv'
  BY <1>0, <1>2 DEF PlaceInv, InPut
<1>SkipInv. SkipInv'
  BY <1>2 DEF SkipInv
<1>ChunkInv. ChunkInv'
  BY <1>0, <1>2 DEF ChunkInv
<1>LimitInv. LimitInv'
  BY <1>2, <1>5 DEF LimitInv, Promised, InHeader, InPut
<1>ToldInv. ToldInv'
  BY <1>2, <1>4 DEF ToldInv, InHeader, BeforeBody, InBody
<1>Ascending. Ascending'
  BY <1>0, <1>2, <1>3, AscendingKept
<1> QED BY <1>ReadTypes, <1>PlaceInv, <1>SkipInv, <1>ChunkInv, <1>LimitInv, <1>ToldInv, <1>Ascending DEF ReadInv

------------------------------------------------------------------------------
(* What no step changes while a message is read.                           *)
Settings ==
  msg' = msg /\ headerLimit' = headerLimit /\ bodyMax' = bodyMax /\ bufferMax' = bufferMax

LEMMA InitialReadInv ==
  ASSUME Read!HttpReadAssumption, Read!Init
  PROVE  ReadInv
<1>1. /\ msg \in Messages /\ headerLimit \in Nat /\ bodyMax \in Nat /\ bufferMax \in Nat /\ room \in Nat
      /\ Len(msg.wire) \in Nat
  BY DEF Read!HttpReadAssumption, Read!HttpParserAssumption, Read!Init
<1>2. /\ base = 0 /\ got = 0 /\ read_op = "none" /\ result = "none" /\ p = 0 /\ read_first = 0
      /\ state = "nothing_yet" /\ flags \subseteq {"eager"} /\ len = 0 /\ len0 = 0 /\ skip = 0
      /\ bodyLimit = bodyMax /\ read_ec = "ok" /\ out = <<>> /\ at = "caller"
      /\ read_seen = [fields |-> 0, init |-> 0, chunks |-> 0, finish |-> 0]
  BY DEF Read!Init, Read!ParserInit
<1>3. ReadTypes
  BY <1>1, <1>2 DEF ReadTypes, InHeader, Read!Ops
<1>4. PlaceInv /\ SkipInv /\ ChunkInv
  BY <1>2 DEF PlaceInv, SkipInv, ChunkInv, GoesOn
<1>5. LimitInv
  BY <1>1, <1>2 DEF LimitInv, Promised, InHeader
<1>6. ToldInv /\ Ascending
  BY <1>2 DEF ToldInv, Ascending, InBody
<1> QED BY <1>3, <1>4, <1>5, <1>6 DEF ReadInv

LEMMA StartKeeps ==
  ASSUME Read!HttpReadAssumption, ReadInv, NEW o \in Read!Ops, Read!Start(o)
  PROVE  ReadInv'
<1>0. ReadTypes /\ PlaceInv /\ SkipInv /\ ChunkInv /\ LimitInv /\ ToldInv /\ Ascending
  BY DEF ReadInv
<1>n. /\ base \in Nat /\ got \in Nat /\ p \in Nat /\ base + p <= got
      /\ read_first \in Nat /\ len \in Nat /\ len0 \in Nat /\ skip \in Nat
      /\ bodyLimit \in Nat /\ room \in Nat /\ headerLimit \in Nat /\ bodyMax \in Nat
      /\ Read!n \in Nat /\ Read!n = got - base - p /\ out \in Seq(Nat) /\ Len(out) \in Nat
      /\ read_seen \in Seen
  BY <1>0, ReadNumbers
<1>1. /\ at = "caller" /\ GoesOn /\ p = 0 /\ p' = 0 /\ base' = base /\ got' = got /\ Settings
      /\ read_first' = read_first /\ state' = state /\ len' = len /\ len0' = len0 /\ skip' = skip
      /\ bodyLimit' = bodyLimit /\ out' = out /\ read_seen' = read_seen /\ read_ec' = "ok"
      /\ flags' \in {flags \ {"eager"}, flags \cup {"eager"}, flags}
  BY <1>0 DEF Read!Start, Read!fixed, Read!kept, GoesOn, Settings, PlaceInv
<1>2. room' \in Nat
  BY <1>n DEF Read!Start, Read!HttpReadAssumption
<1>3. \/ at' = "caller" /\ read_op' = "none" /\ result' = "ok"
      \/ at' \in {"reading", "switch"} /\ read_op' = o /\ state # "complete"
  BY DEF Read!Start, Read!Resume, Read!Condition, Read!is_done, Read!is_header_done, Read!Ops
<1>4. state \notin {"start_line", "fields"} /\ o # "none"
  BY <1>0, <1>1 DEF PlaceInv, Read!Ops
<1>5. ReadTypes'
  BY <1>0, <1>1, <1>2, <1>3 DEF ReadTypes, Settings, InHeader, BeforeBody, InBody
<1>6. PlaceInv'
  BY <1>1, <1>3, <1>4 DEF PlaceInv
<1>7. SkipInv'
  BY <1>0, <1>1, <1>4 DEF SkipInv
<1>8. ChunkInv'
  <2>1. Read!n' = Read!n /\ Read!crlf' = Read!crlf /\ (Read!At(Read!q + 1))' = Read!At(Read!q + 1)
    BY <1>1 DEF Settings, Read!n, Read!crlf, Read!At, Read!q, Read!wire
  <2> QED BY <1>0, <1>1, <2>1 DEF ChunkInv
<1>9. LimitInv'
  BY <1>0, <1>1 DEF LimitInv, Promised, InHeader, Settings
<1>10. ToldInv' /\ Ascending'
  BY <1>0, <1>1 DEF ToldInv, Ascending, InHeader, BeforeBody, InBody
<1> QED BY <1>5, <1>6, <1>7, <1>8, <1>9, <1>10 DEF ReadInv

LEMMA AfterPutKeeps ==
  ASSUME Read!HttpReadAssumption, ReadInv, Read!AfterPut
  PROVE  ReadInv'
<1>0. ReadTypes /\ PlaceInv /\ SkipInv /\ ChunkInv /\ LimitInv /\ ToldInv /\ Ascending
  BY DEF ReadInv
<1>n. /\ base \in Nat /\ got \in Nat /\ p \in Nat /\ base + p <= got
      /\ read_first \in Nat /\ len \in Nat /\ len0 \in Nat /\ skip \in Nat
      /\ bodyLimit \in Nat /\ room \in Nat /\ headerLimit \in Nat /\ bodyMax \in Nat
      /\ Read!n \in Nat /\ Read!n = got - base - p /\ out \in Seq(Nat) /\ Len(out) \in Nat
      /\ read_seen \in Seen
  BY <1>0, ReadNumbers
<1>1. /\ at = "done" /\ p' = 0 /\ base' = base + p /\ got' = got /\ Settings
      /\ read_first' = read_first /\ state' = state /\ len' = len /\ len0' = len0 /\ skip' = skip
      /\ bodyLimit' = bodyLimit /\ out' = out /\ read_seen' = read_seen /\ read_ec' = "ok"
      /\ flags' = flags /\ room' = room
  BY DEF Read!AfterPut, Read!fixed, Read!kept, Settings
<1>2. read_op \in Read!Ops /\ read_ec # "none"
  BY <1>0, <1>1 DEF PlaceInv, ReadTypes
<1>3. \/ at' = "reading" /\ read_op' = read_op /\ result' = result /\ read_ec = "need_more"
      \/ at' = "caller" /\ read_op' = "none" /\ result' = read_ec /\ read_ec # "need_more"
      \/ /\ at' \in {"reading", "switch"} /\ read_op' = read_op /\ read_ec = "ok" /\ state # "complete"
  BY <1>2 DEF Read!AfterPut, Read!EndSome, Read!Resume, Read!Condition, Read!is_done, Read!is_header_done, Read!Ops
<1>4. /\ read_ec \in {"ok", "need_buffer"} => state \notin {"start_line", "fields"}
      /\ read_ec = "need_more" => state # "complete"
  BY <1>0, <1>1 DEF PlaceInv
<1>5. base' \in Nat /\ base' + p' = base + p /\ base' + p' <= got'
  BY <1>n, <1>1
<1>6. Read!n' = Read!n
  <2>1. Read!n' = got - (base + p) - 0
    BY <1>1 DEF Read!n
  <2> QED BY <1>n, <2>1
<1>7. ReadTypes'
  BY <1>0, <1>1, <1>2, <1>3, <1>5 DEF ReadTypes, Settings, InHeader, BeforeBody, InBody, Read!Ops
<1>8. PlaceInv'
  BY <1>1, <1>2, <1>3, <1>4 DEF PlaceInv, GoesOn, Read!Ops
<1>9. SkipInv'
  BY <1>0, <1>1, <1>3, <1>4, <1>6 DEF SkipInv
<1>10. ChunkInv'
  <2>1. Read!crlf' = Read!crlf /\ Read!crlf \in {0, 2}
    BY <1>1 DEF Read!crlf
  <2>2. (Read!At(Read!q + 1))' = Read!At(Read!q + 1)
    <3>1. (Read!At(Read!q + 1))' = msg.wire[(base + p) + (0 + Read!crlf + 1)]
      BY <1>1, <2>1 DEF Read!At, Read!q, Read!wire, Settings
    <3>2. Read!At(Read!q + 1) = msg.wire[base + (p + Read!crlf + 1)]
      BY DEF Read!At, Read!q, Read!wire
    <3>3. (base + p) + (0 + Read!crlf + 1) = base + (p + Read!crlf + 1)
      BY <1>n, <2>1
    <3> QED BY <3>1, <3>2, <3>3
  <2>3. GoesOn' => GoesOn
    BY <1>1, <1>2, <1>3 DEF GoesOn
  <2> QED BY <1>0, <1>1, <1>6, <2>1, <2>2, <2>3 DEF ChunkInv
<1>11. LimitInv'
  BY <1>0, <1>1 DEF LimitInv, Promised, InHeader, Settings
<1>12. ToldInv' /\ Ascending'
  BY <1>0, <1>1, <1>5 DEF ToldInv, Ascending, InHeader, BeforeBody, InBody
<1> QED BY <1>7, <1>8, <1>9, <1>10, <1>11, <1>12 DEF ReadInv

(* The stream fails, or the buffer may not grow.                           *)
LEMMA GivingUpKeeps ==
  ASSUME Read!HttpReadAssumption, ReadInv, Read!Overflow \/ Read!ReadError
  PROVE  ReadInv'
<1>0. ReadTypes /\ PlaceInv /\ SkipInv /\ ChunkInv /\ LimitInv /\ ToldInv /\ Ascending
  BY DEF ReadInv
<1>1. /\ at = "reading" /\ at' = "caller" /\ read_op' = "none" /\ p' = p /\ base' = base /\ got' = got
      /\ result' \in {"buffer_overflow", "stream_error"} /\ Settings
      /\ read_first' = read_first /\ state' = state /\ len' = len /\ len0' = len0 /\ skip' = skip
      /\ bodyLimit' = bodyLimit /\ out' = out /\ read_seen' = read_seen /\ read_ec' = read_ec
      /\ flags' = flags /\ room' = room
  BY DEF Read!Overflow, Read!ReadError, Read!fixed, Read!kept, Settings
<1>2. ReadTypes'
  BY <1>0, <1>1 DEF ReadTypes, Settings, InHeader, BeforeBody, InBody
<1>3. PlaceInv' /\ SkipInv' /\ ChunkInv'
  BY <1>0, <1>1 DEF PlaceInv, SkipInv, ChunkInv, GoesOn
<1>4. LimitInv' /\ ToldInv' /\ Ascending'
  BY <1>0, <1>1 DEF LimitInv, Promised, ToldInv, Ascending, InHeader, BeforeBody, InBody, Settings
<1> QED BY <1>2, <1>3, <1>4 DEF ReadInv

LEMMA ReceiveKeeps ==
  ASSUME Read!HttpReadAssumption, ReadInv, NEW k \in 1 .. Len(msg.wire), Read!Receive(k)
  PROVE  ReadInv'
<1>0. ReadTypes /\ PlaceInv /\ SkipInv /\ ChunkInv /\ LimitInv /\ ToldInv /\ Ascending
  BY DEF ReadInv
<1>n. /\ base \in Nat /\ got \in Nat /\ p \in Nat /\ base + p <= got
      /\ read_first \in Nat /\ len \in Nat /\ len0 \in Nat /\ skip \in Nat
      /\ bodyLimit \in Nat /\ room \in Nat /\ headerLimit \in Nat /\ bodyMax \in Nat
      /\ Read!n \in Nat /\ Read!n = got - base - p /\ out \in Seq(Nat) /\ Len(out) \in Nat
      /\ read_seen \in Seen
  BY <1>0, ReadNumbers
<1>1. /\ at = "reading" /\ at' = "switch" /\ read_op' = read_op /\ p = 0 /\ p' = 0 /\ base' = base
      /\ got' = got + k /\ got + k <= Len(msg.wire) /\ result' = result /\ Settings
      /\ read_first' = read_first /\ state' = state /\ len' = len /\ len0' = len0 /\ skip' = skip
      /\ bodyLimit' = bodyLimit /\ out' = out /\ read_seen' = read_seen /\ read_ec' = read_ec
      /\ flags' = flags /\ room' = room
  BY <1>0 DEF Read!Receive, Read!fixed, Read!kept, Read!wire, Settings, PlaceInv
<1>2. got + k \in Nat /\ base + 0 <= got + k /\ k \in Nat /\ k >= 1
  <2>1. Len(msg.wire) \in Nat
    BY <1>0 DEF ReadTypes, Read!HttpReadAssumption, Read!HttpParserAssumption
  <2> QED BY <1>n, <1>1, <2>1
<1>3. Read!n' \in Int /\ Read!n' >= Read!n + 1
  <2>1. Read!n' = (got + k) - base - 0
    BY <1>1 DEF Read!n
  <2> QED BY <1>n, <1>1, <1>2, <2>1
<1>4. ReadTypes'
  BY <1>0, <1>1, <1>2 DEF ReadTypes, Settings, InHeader, BeforeBody, InBody
<1>5. PlaceInv'
  BY <1>0, <1>1 DEF PlaceInv, GoesOn
<1>6. SkipInv'
  <2>1. state \in {"start_line", "fields"} /\ skip # 0 => skip + 4 <= Read!n'
    <3>1. state \in {"start_line", "fields"} /\ skip # 0 => skip + 4 <= Read!n + 1
      BY <1>0, <1>1 DEF SkipInv
    <3> QED BY <1>n, <1>3, <3>1
  <2> QED BY <1>0, <1>1, <2>1 DEF SkipInv
<1>7. ChunkInv'
  <2>1. Read!crlf' = Read!crlf /\ Read!crlf \in {0, 2} /\ (Read!At(Read!q + 1))' = Read!At(Read!q + 1)
    BY <1>1 DEF Read!crlf, Read!At, Read!q, Read!wire, Settings
  <2>2. Read!n >= Read!crlf + 3 => Read!n' >= Read!crlf + 3
    BY <1>n, <1>3, <2>1
  <2> QED BY <1>0, <1>1, <2>1, <2>2 DEF ChunkInv, GoesOn
<1>8. LimitInv' /\ ToldInv' /\ Ascending'
  BY <1>0, <1>1 DEF LimitInv, Promised, ToldInv, Ascending, InHeader, BeforeBody, InBody, Settings
<1> QED BY <1>4, <1>5, <1>6, <1>7, <1>8 DEF ReadInv

(* What is left of the limit is not negative.                              *)
LEMMA PromisedIsNatural ==
  ASSUME ReadTypes
  PROVE  Promised \in Nat
<1>1. \A i, k \in Nat : i + k \in Nat
  OBVIOUS
<1>2. len + bodyLimit \in Nat /\ len \in Nat /\ bodyLimit \in Nat
  BY <1>1 DEF ReadTypes
<1>3. Promised \in {bodyLimit, len, len + bodyLimit, 0}
  BY DEF Promised
<1> QED BY <1>2, <1>3

LEMMA EofKeeps ==
  ASSUME Read!HttpReadAssumption, ReadInv, Read!Eof
  PROVE  ReadInv'
<1>0. ReadTypes /\ PlaceInv /\ SkipInv /\ ChunkInv /\ LimitInv /\ ToldInv /\ Ascending
  BY DEF ReadInv
<1>n. /\ base \in Nat /\ got \in Nat /\ p \in Nat /\ base + p <= got
      /\ read_first \in Nat /\ len \in Nat /\ len0 \in Nat /\ skip \in Nat
      /\ bodyLimit \in Nat /\ room \in Nat /\ headerLimit \in Nat /\ bodyMax \in Nat
      /\ Read!n \in Nat /\ Read!n = got - base - p /\ out \in Seq(Nat) /\ Len(out) \in Nat
      /\ read_seen \in Seen
  BY <1>0, ReadNumbers
<1>1. /\ at = "reading" /\ at' = "caller" /\ read_op' = "none" /\ p' = p /\ base' = base /\ got' = got
      /\ Settings /\ read_first' = read_first /\ len' = len /\ len0' = len0 /\ skip' = skip
      /\ bodyLimit' = bodyLimit /\ out' = out /\ flags' = flags /\ room' = room
      /\ \/ /\ result' \in {"partial_message", "end_of_stream"} /\ state' = state /\ read_seen' = read_seen
            /\ read_ec' \in {"partial_message", read_ec}
         \/ /\ result' = "ok" /\ state' = "complete" /\ read_ec' = "ok"
            /\ read_seen' = [read_seen EXCEPT !.finish = @ + 1]
  BY DEF Read!Eof, Read!PutEof, Read!Goto, Read!Finish, Settings
<1>2. read_ec' # "none" /\ state # "complete" /\ read_seen.finish = 0
  BY <1>0, <1>1 DEF PlaceInv, ToldInv
<1>3. CASE state' = state /\ read_seen' = read_seen /\ result' \in {"partial_message", "end_of_stream"}
  <2>1. ReadTypes'
    BY <1>0, <1>1, <1>3 DEF ReadTypes, Settings, InHeader, BeforeBody, InBody
  <2>2. PlaceInv' /\ SkipInv' /\ ChunkInv'
    BY <1>0, <1>1, <1>2, <1>3 DEF PlaceInv, SkipInv, ChunkInv, GoesOn
  <2>3. LimitInv' /\ ToldInv' /\ Ascending'
    BY <1>0, <1>1, <1>3 DEF LimitInv, Promised, ToldInv, Ascending, InHeader, BeforeBody, InBody, Settings
  <2> QED BY <2>1, <2>2, <2>3 DEF ReadInv
<1>4. CASE state' = "complete" /\ read_seen' = [read_seen EXCEPT !.finish = @ + 1] /\ result' = "ok"
  <2>1. read_seen' \in Seen /\ read_seen'.init = read_seen.init /\ read_seen'.finish = 1
    <3>1. 0 + 1 = 1
      OBVIOUS
    <3> QED BY <1>n, <1>2, <1>4, <3>1, SeenGrows
  <2>2. ReadTypes'
    BY <1>0, <1>1, <1>4, <2>1 DEF ReadTypes, Settings, Seen
  <2>3. PlaceInv' /\ SkipInv' /\ ChunkInv'
    BY <1>0, <1>1, <1>2, <1>4 DEF PlaceInv, SkipInv, ChunkInv
  <2>4. LimitInv'
    <3>1. Promised \in Nat /\ Len(out) + Promised <= bodyMax
      BY <1>0, PromisedIsNatural DEF LimitInv
    <3>2. Len(out) + 0 <= bodyMax
      <4>1. PICK o, a \in Nat : o = Len(out) /\ a = Promised
        BY <1>n, <3>1
      <4>2. o + 0 <= bodyMax
        BY <1>n, <3>1, <4>1
      <4> QED BY <4>1, <4>2
    <3> QED BY <1>1, <1>4, <3>2 DEF LimitInv, Promised, InHeader, Settings
  <2>5. ToldInv' /\ Ascending'
    BY <1>0, <1>1, <1>4, <2>1 DEF ToldInv, Ascending, InHeader, BeforeBody, InBody
  <2> QED BY <2>2, <2>3, <2>4, <2>5 DEF ReadInv
<1> QED BY <1>1, <1>3, <1>4

(* Every step keeps the invariant: one of put(), or one of the operation.  *)
LEMMA ParseFrame == Read!Parse => Read!Put /\ InPut
BY DEF Read!Parse, Read!fixed, InPut

LEMMA ParseKeeps ==
  ASSUME Read!HttpReadAssumption, ReadInv, Read!Parse
  PROVE  ReadInv'
<1>1. Read!Put /\ InPut
  BY ParseFrame
<1>2. CASE Read!Begin \/ Read!MaybeNeedMore \/ Read!ParseStartLine \/ Read!EnterFields
  BY <1>1, <1>2, BeginKeeps, MaybeNeedMoreKeeps, ParseStartLineKeeps, EnterFieldsKeeps
<1>3. CASE Read!FieldsNeedMore \/ Read!Field \/ Read!BadField \/ Read!FinishHeader
  BY <1>1, <1>3, FieldsNeedMoreKeeps, FieldKeeps, BadFieldKeeps, FinishHeaderKeeps
<1>4. CASE Read!BodyInit \/ Read!ParseBody \/ Read!ParseBodyToEof \/ Read!ParseChunkBody
  BY <1>1, <1>4, BodyInitKeeps, ParseBodyKeeps, ParseBodyToEofKeeps, ParseChunkBodyKeeps
<1>5. CASE Read!ChunkNeedsMore \/ Read!BadChunk \/ Read!ChunkHeader
  BY <1>1, <1>5, ChunkNeedsMoreKeeps, BadChunkKeeps, ChunkHeaderKeeps
<1>6. CASE Read!LastChunkNeedsMore \/ Read!LastChunk \/ Read!EndOfTrailer
  BY <1>1, <1>6, LastChunkNeedsMoreKeeps, LastChunkKeeps, EndOfTrailerKeeps
<1> QED BY <1>1, <1>2, <1>3, <1>4, <1>5, <1>6 DEF Read!Put

LEMMA RestKeeps ==
  ASSUME ReadInv, UNCHANGED Read!vars
  PROVE  ReadInv'
<1>0. ReadTypes /\ PlaceInv /\ SkipInv /\ ChunkInv /\ LimitInv /\ ToldInv /\ Ascending
  BY DEF ReadInv
<1>1. /\ Settings /\ InPut /\ at' = at /\ p' = p /\ read_first' = read_first /\ state' = state
      /\ flags' = flags /\ len' = len /\ len0' = len0 /\ skip' = skip /\ bodyLimit' = bodyLimit
      /\ room' = room /\ read_ec' = read_ec /\ out' = out /\ read_seen' = read_seen
  BY DEF Read!vars, Read!parserVars, Settings, InPut
<1>2. ReadTypes' /\ PlaceInv' /\ SkipInv'
  BY <1>0, <1>1, ZenonT(60) DEF ReadTypes, PlaceInv, SkipInv, InPut, GoesOn, InHeader, BeforeBody, InBody,
     Read!n, Read!Eoms, Read!At, Read!wire
<1>3. ChunkInv'
  BY <1>0, <1>1 DEF ChunkInv, InPut, GoesOn, Read!n, Read!q, Read!crlf, Read!At, Read!wire
<1>4. LimitInv' /\ ToldInv' /\ Ascending'
  BY <1>0, <1>1 DEF LimitInv, Promised, ToldInv, Ascending, InPut, InHeader, BeforeBody, InBody
<1> QED BY <1>2, <1>3, <1>4 DEF ReadInv

LEMMA ReadStepKeeps ==
  ASSUME Read!HttpReadAssumption, ReadInv, [Read!Next]_Read!vars
  PROVE  ReadInv'
<1>1. CASE \E o \in Read!Ops : Read!Start(o)
  BY <1>1, StartKeeps
<1>2. CASE Read!Parse
  BY <1>2, ParseKeeps
<1>3. CASE Read!AfterPut
  BY <1>3, AfterPutKeeps
<1>4. CASE Read!Overflow \/ Read!ReadError
  BY <1>4, GivingUpKeeps
<1>5. CASE Read!Eof
  BY <1>5, EofKeeps
<1>6. CASE \E k \in 1 .. Len(Read!wire) : Read!Receive(k)
  BY <1>6, ReceiveKeeps DEF Read!wire
<1>7. CASE UNCHANGED Read!vars
  BY <1>7, RestKeeps
<1> QED BY <1>1, <1>2, <1>3, <1>4, <1>5, <1>6, <1>7 DEF Read!Next

LEMMA AlwaysReadInv ==
  ASSUME Read!HttpReadAssumption
  PROVE  Read!Spec => []ReadInv
<1>1. Read!Init => ReadInv
  BY InitialReadInv
<1>2. ReadInv /\ [Read!Next]_Read!vars => ReadInv'
  BY ReadStepKeeps
<1> QED BY <1>1, <1>2, PTL DEF Read!Spec

(* put() parses nothing that is not in the buffer and the buffer holds     *)
(* nothing that was not sent; len_, skip_ and what is left of the limits,  *)
(* which are unsigned, never go below zero: whatever is sent, malformed or *)
(* not, however it is cut and whatever the limits (put() and its cases,    *)
(* http/impl/basic_parser.ipp).                                            *)
THEOREM ReadPositions ==
  ASSUME Read!HttpReadAssumption
  PROVE  Read!Spec => []Read!TypeOK
<1>1. ReadInv => Read!TypeOK
  BY DEF ReadInv, ReadTypes, Read!TypeOK, Read!wire
<1> QED BY <1>1, AlwaysReadInv, PTL

(* The assertions in put() and parse_chunk_header() hold: a body begins    *)
(* with no search under way, a remembered last chunk is still there when   *)
(* the search for its trailer goes on, and the search for the end of the   *)
(* header goes on before the bytes that came since.                        *)
THEOREM ReadAssertions ==
  ASSUME Read!HttpReadAssumption
  PROVE  Read!Spec => []Read!AssertionsHold
<1>1. ReadInv => Read!AssertionsHold
  <2> SUFFICES ASSUME ReadInv, at = "switch"
               PROVE  /\ state \in {"body0", "body", "body_to_eof0", "body_to_eof"} => skip = 0
                      /\ state = "chunk_header" /\ "final_chunk" \in flags =>
                           Read!n >= 3 /\ Read!At(Read!q + 1) = "s0"
                      /\ state \in {"start_line", "fields"} /\ skip # 0 => skip + 4 <= Read!n
    BY DEF Read!AssertionsHold
  <2>1. SkipInv /\ ChunkInv /\ GoesOn /\ Read!n \in Nat
    BY ReadNumbers DEF ReadInv, GoesOn
  <2>2. ASSUME state = "chunk_header", "final_chunk" \in flags
        PROVE  Read!n >= 3 /\ Read!At(Read!q + 1) = "s0"
    <3>1. Read!n >= Read!crlf + 3 /\ Read!At(Read!q + 1) = "s0"
      BY <2>1, <2>2 DEF ChunkInv
    <3>2. Read!crlf \in {0, 2}
      BY DEF Read!crlf
    <3> QED BY <2>1, <3>1, <3>2
  <2> QED BY <2>1, <2>2 DEF SkipInv
<1> QED BY <1>1, AlwaysReadInv, PTL

(* No more bytes of body than body_limit() allows reach the reader, for    *)
(* every framing of the body and any number of chunks: what is announced   *)
(* is taken off the limit before it is handed on (parse_body(),            *)
(* parse_body_to_eof() and parse_chunk_header()).                          *)
THEOREM BodyLimitHolds ==
  ASSUME Read!HttpReadAssumption
  PROVE  Read!Spec => []Read!BodyWithinLimit
<1>1. ReadInv => Read!BodyWithinLimit
  <2> SUFFICES ASSUME ReadInv PROVE Len(out) <= bodyMax
    BY DEF Read!BodyWithinLimit
  <2>1. Len(out) + Promised <= bodyMax /\ Len(out) \in Nat /\ bodyMax \in Nat /\ ReadTypes
    BY ReadNumbers DEF ReadInv, LimitInv
  <2>2. PICK i \in Nat : i = Promised
    BY <2>1, PromisedIsNatural
  <2> QED BY <2>1, <2>2
<1> QED BY <1>1, AlwaysReadInv, PTL

(* on_body_init_impl() is called before the first byte of the body,        *)
(* on_finish_impl() when the message is complete, each at most once.       *)
ToldOnce ==
  /\ read_seen.init <= 1 /\ (out # <<>> => read_seen.init = 1)
  /\ read_seen.finish = IF Read!is_done THEN 1 ELSE 0

(* The derived parser is told of the body and of the end of the message    *)
(* once, and no byte of what was received is given to the reader twice or  *)
(* before one that came earlier, whoever reads with what, wherever the     *)
(* reader had no room (on_body_impl() and on_chunk_body_impl()).           *)
THEOREM GivesOnce ==
  ASSUME Read!HttpReadAssumption
  PROVE  Read!Spec => [](ToldOnce /\ Ascending)
<1>1. ReadInv => ToldOnce /\ Ascending
  BY DEF ReadInv, ToldInv, ToldOnce, Read!is_done
<1> QED BY <1>1, AlwaysReadInv, PTL

=============================================================================
