---------------------------- MODULE StreamProofs ----------------------------
(***************************************************************************)
(* Proofs about basic_stream, for buffers of any size and any number of    *)
(* operations.  With unlimited_rate_policy, the policy of tcp_stream, a    *)
(* deadline closes the socket, and is reported, only under the operation   *)
(* it was armed for.  With any policy, the bytes of a slice are bounded.   *)
(* And about test::stream, icy_stream, buffered_read_stream, detect_ssl,   *)
(* read and flat_stream, for buffers of any size, any fail_counts, any     *)
(* bytes of the peer and any number of calls.                              *)
(***************************************************************************)
EXTENDS AllStreams, SequenceTheorems, FiniteSetTheorems, WellFoundedInduction, TLAPS

(* unlimited_rate_policy: Available never is 0, nothing waits for a slice. *)
Unlimited == Limited = FALSE

(* The handlers that become due when no rate is limited.                   *)
Handler ==
  [k : {"op"}, d : Dir, at : AtSocket, ec : {"ok", "error", "aborted"}, n : 0 .. MaxBytes]
    \cup [k : {"deadline"}, d : Dir, tick : 0 .. MaxOps, ec : {"ok", "aborted"}]

(* h resumes the operation of d; it does so after a wait at x; it is a     *)
(* deadline handler that finds its operation if the tick of d is t.        *)
IsOp(h, d)      == h.k = "op" /\ h.d = d
IsOpAt(h, d, x) == IsOp(h, d) /\ h.at = x
IsLive(h, d, t) == h.k = "deadline" /\ h.d = d /\ h.ec = "ok" /\ h.tick = t

HasOp(r, d)      == \E i \in 1 .. Len(r) : IsOp(r[i], d)
HasOpAt(r, d, x) == \E i \in 1 .. Len(r) : IsOpAt(r[i], d, x)
HasLive(r, d, t) == \E i \in 1 .. Len(r) : IsLive(r[i], d, t)

OneOp(r, d)      == \A i, j \in 1 .. Len(r) : IsOp(r[i], d) /\ IsOp(r[j], d) => i = j
OneLive(r, d, t) == \A i, j \in 1 .. Len(r) : IsLive(r[i], d, t) /\ IsLive(r[j], d, t) => i = j

(* No deadline handler of d is from a later operation than the latest.     *)
NoneAhead(r, d, t) ==
  \A i \in 1 .. Len(r) :
    r[i].k = "deadline" /\ r[i].d = d /\ r[i].ec = "ok" => r[i].tick <= t

(* No handler has found, or can find, that the deadline of d has passed.   *)
Quiet(d) == waits[d] = <<>> /\ ~timeout[d] /\ ~HasLive(ready, d, tick[d])

(* The operation of d waits at x, or its handler for that wait is due.     *)
At(d, x) == phase[d] = x \/ HasOpAt(ready, d, x)

------------------------------------------------------------------------------
(* The inductive invariant.                                                *)
HandlersInv ==
  /\ ready \in Seq(Handler)
  /\ rateWaits = <<>>
  /\ \A d \in Dir :
       /\ phase[d] # "rate"
       /\ OneOp(ready, d)
       /\ HasOp(ready, d) => phase[d] = "due"
       /\ OneLive(ready, d, tick[d])
       /\ NoneAhead(ready, d, tick[d])

DeadlineInv ==
  \A d \in Dir :
    /\ waits[d] = <<>> \/ waits[d] = <<tick[d]>>
    /\ HasLive(ready, d, tick[d]) => waits[d] = <<>>
    /\ timeout[d] => waits[d] = <<>> /\ ~HasLive(ready, d, tick[d]) /\ ~open
    /\ phase[d] = "idle" \/ At(d, "noop") \/ expiry[d] = "never" => Quiet(d)

PendingInv ==
  \A d \in Dir :
    /\ phase[d] # "idle" => pending[d] /\ tick[d] < ops
    /\ tick[d] <= ops
    /\ At(d, "connect") => d = "write" /\ phase["read"] = "idle" /\ pending["read"]

IInv == TypeOK /\ HandlersInv /\ DeadlineInv /\ PendingInv

------------------------------------------------------------------------------
(* Handlers join the queue at its end and leave it at its head.            *)
LEMMA Joined ==
  ASSUME NEW r \in Seq(Handler), NEW e \in Seq(Handler), NEW d, NEW t
  PROVE  /\ r \o e \in Seq(Handler)
         /\ HasOp(r \o e, d) <=> HasOp(r, d) \/ HasOp(e, d)
         /\ \A x : HasOpAt(r \o e, d, x) <=> HasOpAt(r, d, x) \/ HasOpAt(e, d, x)
         /\ HasLive(r \o e, d, t) <=> HasLive(r, d, t) \/ HasLive(e, d, t)
         /\ OneOp(r, d) /\ OneOp(e, d) /\ ~(HasOp(r, d) /\ HasOp(e, d)) => OneOp(r \o e, d)
         /\ OneLive(r, d, t) /\ OneLive(e, d, t) /\ ~(HasLive(r, d, t) /\ HasLive(e, d, t))
              => OneLive(r \o e, d, t)
         /\ NoneAhead(r, d, t) /\ NoneAhead(e, d, t) => NoneAhead(r \o e, d, t)
<1> DEFINE s == r \o e
<1>1. s \in Seq(Handler) /\ Len(s) = Len(r) + Len(e) /\ Len(r) \in Nat /\ Len(e) \in Nat
  OBVIOUS
<1>2. \A i \in 1 .. Len(r) : i \in 1 .. Len(s) /\ s[i] = r[i]
  OBVIOUS
<1>3. \A i \in 1 .. Len(e) : Len(r) + i \in 1 .. Len(s) /\ s[Len(r) + i] = e[i]
  OBVIOUS
<1>4. \A i \in 1 .. Len(s) : \/ i \in 1 .. Len(r) /\ s[i] = r[i]
                             \/ /\ i \notin 1 .. Len(r)
                                /\ i - Len(r) \in 1 .. Len(e)
                                /\ s[i] = e[i - Len(r)]
  OBVIOUS
<1> HIDE DEF s
<1>5. HasOp(s, d) <=> HasOp(r, d) \/ HasOp(e, d)
  BY <1>1, <1>2, <1>3, <1>4 DEF HasOp
<1>6. \A x : HasOpAt(s, d, x) <=> HasOpAt(r, d, x) \/ HasOpAt(e, d, x)
  BY <1>1, <1>2, <1>3, <1>4 DEF HasOpAt
<1>7. HasLive(s, d, t) <=> HasLive(r, d, t) \/ HasLive(e, d, t)
  BY <1>1, <1>2, <1>3, <1>4 DEF HasLive
<1>8. OneOp(r, d) /\ OneOp(e, d) /\ ~(HasOp(r, d) /\ HasOp(e, d)) => OneOp(s, d)
  <2> SUFFICES ASSUME OneOp(r, d), OneOp(e, d), ~(HasOp(r, d) /\ HasOp(e, d)),
                      NEW i \in 1 .. Len(s), NEW j \in 1 .. Len(s),
                      IsOp(s[i], d), IsOp(s[j], d)
               PROVE  i = j
    BY DEF OneOp
  <2>1. i \in 1 .. Len(r) \/ j \in 1 .. Len(r) => i \in 1 .. Len(r) /\ j \in 1 .. Len(r)
    BY <1>4 DEF HasOp
  <2>2. CASE i \in 1 .. Len(r) /\ j \in 1 .. Len(r)
    BY <1>4, <2>2 DEF OneOp
  <2>3. CASE i \notin 1 .. Len(r) /\ j \notin 1 .. Len(r)
    <3>1. i - Len(r) = j - Len(r)
      BY <1>4, <2>3 DEF OneOp
    <3> QED BY <1>1, <3>1
  <2> QED BY <2>1, <2>2, <2>3
<1>9. OneLive(r, d, t) /\ OneLive(e, d, t) /\ ~(HasLive(r, d, t) /\ HasLive(e, d, t)) => OneLive(s, d, t)
  <2> SUFFICES ASSUME OneLive(r, d, t), OneLive(e, d, t), ~(HasLive(r, d, t) /\ HasLive(e, d, t)),
                      NEW i \in 1 .. Len(s), NEW j \in 1 .. Len(s),
                      IsLive(s[i], d, t), IsLive(s[j], d, t)
               PROVE  i = j
    BY DEF OneLive
  <2>1. i \in 1 .. Len(r) \/ j \in 1 .. Len(r) => i \in 1 .. Len(r) /\ j \in 1 .. Len(r)
    BY <1>4 DEF HasLive
  <2>2. CASE i \in 1 .. Len(r) /\ j \in 1 .. Len(r)
    BY <1>4, <2>2 DEF OneLive
  <2>3. CASE i \notin 1 .. Len(r) /\ j \notin 1 .. Len(r)
    <3>1. i - Len(r) = j - Len(r)
      BY <1>4, <2>3 DEF OneLive
    <3> QED BY <1>1, <3>1
  <2> QED BY <2>1, <2>2, <2>3
<1>10. NoneAhead(r, d, t) /\ NoneAhead(e, d, t) => NoneAhead(s, d, t)
  BY <1>1, <1>4 DEF NoneAhead
<1> QED BY <1>1, <1>5, <1>6, <1>7, <1>8, <1>9, <1>10 DEF s

LEMMA Left ==
  ASSUME NEW r \in Seq(Handler), r # <<>>, NEW d, NEW t
  PROVE  /\ Head(r) \in Handler
         /\ Tail(r) \in Seq(Handler)
         /\ IsOp(Head(r), d) => HasOp(r, d)
         /\ \A x : IsOpAt(Head(r), d, x) => HasOpAt(r, d, x)
         /\ IsLive(Head(r), d, t) => HasLive(r, d, t)
         /\ HasOp(Tail(r), d) => HasOp(r, d)
         /\ \A x : HasOpAt(Tail(r), d, x) => HasOpAt(r, d, x)
         /\ HasLive(Tail(r), d, t) => HasLive(r, d, t)
         /\ OneOp(r, d) => OneOp(Tail(r), d) /\ ~(IsOp(Head(r), d) /\ HasOp(Tail(r), d))
         /\ OneLive(r, d, t)
              => OneLive(Tail(r), d, t) /\ ~(IsLive(Head(r), d, t) /\ HasLive(Tail(r), d, t))
         /\ NoneAhead(r, d, t)
              => /\ NoneAhead(Tail(r), d, t)
                 /\ Head(r).k = "deadline" /\ Head(r).d = d /\ Head(r).ec = "ok" => Head(r).tick <= t
<1> DEFINE s == Tail(r)
           h == Head(r)
<1>1. /\ s \in Seq(Handler) /\ Len(s) = Len(r) - 1 /\ Len(r) \in Nat \ {0}
      /\ h = r[1] /\ h \in Handler /\ 1 \in 1 .. Len(r)
  OBVIOUS
<1>2. \A i \in 1 .. Len(s) : i + 1 \in 1 .. Len(r) /\ i + 1 # 1 /\ s[i] = r[i + 1]
  OBVIOUS
<1> HIDE DEF s, h
<1>3. /\ IsOp(h, d) => HasOp(r, d)
      /\ HasOp(s, d) => HasOp(r, d)
  BY <1>1, <1>2 DEF HasOp
<1>4. \A x : /\ IsOpAt(h, d, x) => HasOpAt(r, d, x)
             /\ HasOpAt(s, d, x) => HasOpAt(r, d, x)
  BY <1>1, <1>2 DEF HasOpAt
<1>5. /\ IsLive(h, d, t) => HasLive(r, d, t)
      /\ HasLive(s, d, t) => HasLive(r, d, t)
  BY <1>1, <1>2 DEF HasLive
<1>6. OneOp(r, d) => OneOp(s, d) /\ ~(IsOp(h, d) /\ HasOp(s, d))
  BY <1>1, <1>2, SMTT(40) DEF OneOp, HasOp
<1>7. OneLive(r, d, t) => OneLive(s, d, t) /\ ~(IsLive(h, d, t) /\ HasLive(s, d, t))
  BY <1>1, <1>2, SMTT(40) DEF OneLive, HasLive
<1>8. NoneAhead(r, d, t)
        => /\ NoneAhead(s, d, t)
           /\ h.k = "deadline" /\ h.d = d /\ h.ec = "ok" => h.tick <= t
  BY <1>1, <1>2 DEF NoneAhead
<1> QED BY <1>1, <1>3, <1>4, <1>5, <1>6, <1>7, <1>8 DEF s, h

(* The handler of an operation alone.                                      *)
LEMMA OpAlone ==
  ASSUME NEW h \in Handler, h.k = "op"
  PROVE  /\ <<h>> \in Seq(Handler)
         /\ \A d : HasOp(<<h>>, d) <=> h.d = d
         /\ \A d, x : HasOpAt(<<h>>, d, x) <=> h.d = d /\ h.at = x
         /\ \A d, t : ~HasLive(<<h>>, d, t)
         /\ \A d : OneOp(<<h>>, d)
         /\ \A d, t : OneLive(<<h>>, d, t) /\ NoneAhead(<<h>>, d, t)
<1>1. <<h>> \in Seq(Handler) /\ Len(<<h>>) = 1 /\ <<h>>[1] = h
  OBVIOUS
<1>2. \A i : i \in 1 .. Len(<<h>>) <=> i = 1
  OBVIOUS
<1> QED BY <1>1, <1>2 DEF HasOp, HasOpAt, HasLive, OneOp, OneLive, NoneAhead, IsOp, IsOpAt, IsLive

LEMMA NoHandler ==
  /\ <<>> \in Seq(Handler)
  /\ \A d : ~HasOp(<<>>, d) /\ OneOp(<<>>, d)
  /\ \A d, x : ~HasOpAt(<<>>, d, x)
  /\ \A d, t : ~HasLive(<<>>, d, t) /\ OneLive(<<>>, d, t) /\ NoneAhead(<<>>, d, t)
<1>1. <<>> \in Seq(Handler) /\ Len(<<>>) = 0
  OBVIOUS
<1>2. \A i : i \notin 1 .. Len(<<>>)
  OBVIOUS
<1> QED BY <1>1, <1>2 DEF HasOp, HasOpAt, HasLive, OneOp, OneLive, NoneAhead

(* The handlers of the wait on a deadline, of which there is at most one.  *)
LEMMA WaitEnded ==
  ASSUME NEW d \in Dir, NEW t \in 0 .. MaxOps, NEW w, w = <<>> \/ w = <<t>>,
         NEW ec \in {"ok", "aborted"},
         NEW e, e = [i \in DOMAIN w |-> DeadlineHandler(d, w[i], ec)]
  PROVE  /\ e \in Seq(Handler)
         /\ \A c : ~HasOp(e, c) /\ OneOp(e, c)
         /\ \A c, x : ~HasOpAt(e, c, x)
         /\ \A c, u : HasLive(e, c, u) => c = d /\ u = t /\ ec = "ok" /\ w # <<>>
         /\ \A c, u : OneLive(e, c, u)
         /\ \A c : \A u \in Nat : c # d \/ t <= u \/ ec = "aborted" => NoneAhead(e, c, u)
<1> DEFINE h == DeadlineHandler(d, t, ec)
<1>1. h \in Handler /\ h.k = "deadline" /\ h.d = d /\ h.tick = t /\ h.ec = ec
  BY DEF DeadlineHandler, Handler
<1>2. CASE w = <<>>
  <2>1. e = <<>>
    BY <1>2
  <2> QED BY <2>1, NoHandler
<1>3. CASE w = <<t>>
  <2>1. e = <<h>>
    BY <1>3
  <2>2. <<h>> \in Seq(Handler) /\ Len(<<h>>) = 1 /\ <<h>>[1] = h
    BY <1>1
  <2>3. \A i : i \in 1 .. Len(<<h>>) <=> i = 1
    OBVIOUS
  <2>4. w # <<>>
    BY <1>3
  <2> HIDE DEF h
  <2>5. \A c : ~HasOp(e, c) /\ OneOp(e, c)
    BY <1>1, <2>1, <2>2, <2>3 DEF HasOp, OneOp, IsOp
  <2>6. \A c, x : ~HasOpAt(e, c, x)
    BY <1>1, <2>1, <2>2, <2>3 DEF HasOpAt, IsOpAt, IsOp
  <2>7. \A c, u : HasLive(e, c, u) => c = d /\ u = t /\ ec = "ok"
    BY <1>1, <2>1, <2>2, <2>3 DEF HasLive, IsLive
  <2>8. \A c, u : OneLive(e, c, u)
    BY <2>1, <2>2, <2>3 DEF OneLive
  <2>9. \A c : \A u \in Nat : c # d \/ t <= u \/ ec = "aborted" => NoneAhead(e, c, u)
    BY <1>1, <2>1, <2>2, <2>3 DEF NoneAhead
  <2> QED BY <2>1, <2>2, <2>4, <2>5, <2>6, <2>7, <2>8, <2>9
<1> QED BY <1>2, <1>3

(* Each operation at the socket, and no other, is aborted, once.           *)
LEMMA SocketAborted ==
  ASSUME NEW ph \in [Dir -> {"idle", "due"} \cup AtSocket]
  PROVE  LET e == SocketAborts(ph)
         IN /\ e \in Seq(Handler)
            /\ \A d \in Dir : HasOp(e, d) <=> ph[d] \in AtSocket
            /\ \A d \in Dir : \A x : HasOpAt(e, d, x) <=> ph[d] = x /\ x \in AtSocket
            /\ \A d \in Dir : OneOp(e, d)
            /\ \A d, t : ~HasLive(e, d, t) /\ OneLive(e, d, t) /\ NoneAhead(e, d, t)
<1> DEFINE a(d) == IF ph[d] \in AtSocket THEN <<OpHandler(d, ph[d], "aborted", 0)>> ELSE <<>>
<1>1. SocketAborts(ph) = a("read") \o a("write")
  BY DEF SocketAborts
<1>2. \A d \in Dir :
        /\ a(d) \in Seq(Handler)
        /\ \A c : HasOp(a(d), c) <=> c = d /\ ph[d] \in AtSocket
        /\ \A c, x : HasOpAt(a(d), c, x) <=> c = d /\ ph[d] = x /\ x \in AtSocket
        /\ \A c : OneOp(a(d), c)
        /\ \A c, t : ~HasLive(a(d), c, t) /\ OneLive(a(d), c, t) /\ NoneAhead(a(d), c, t)
  <2> TAKE d \in Dir
  <2>1. CASE ph[d] \in AtSocket
    <3> DEFINE h == OpHandler(d, ph[d], "aborted", 0)
    <3>1. h \in Handler /\ h.k = "op" /\ h.d = d /\ h.at = ph[d]
      BY <2>1, BasicStreamAssumption DEF OpHandler, Handler
    <3>2. a(d) = <<h>>
      BY <2>1
    <3> HIDE DEF h, a
    <3> QED BY <2>1, <3>1, <3>2, OpAlone
  <2>2. CASE ph[d] \notin AtSocket
    <3>1. a(d) = <<>>
      BY <2>2
    <3> HIDE DEF a
    <3> QED BY <2>2, <3>1, NoHandler
  <2> QED BY <2>1, <2>2
<1>3. Dir = {"read", "write"} /\ "read" # "write"
  BY DEF Dir
<1> HIDE DEF a
<1> DEFINE r == a("read")
           w == a("write")
<1>4. r \in Seq(Handler) /\ w \in Seq(Handler)
  BY <1>2, <1>3
<1>5. \A d, t : /\ r \o w \in Seq(Handler)
                /\ HasOp(r \o w, d) <=> HasOp(r, d) \/ HasOp(w, d)
                /\ \A x : HasOpAt(r \o w, d, x) <=> HasOpAt(r, d, x) \/ HasOpAt(w, d, x)
                /\ HasLive(r \o w, d, t) <=> HasLive(r, d, t) \/ HasLive(w, d, t)
                /\ OneOp(r, d) /\ OneOp(w, d) /\ ~(HasOp(r, d) /\ HasOp(w, d)) => OneOp(r \o w, d)
                /\ OneLive(r, d, t) /\ OneLive(w, d, t) /\ ~(HasLive(r, d, t) /\ HasLive(w, d, t))
                     => OneLive(r \o w, d, t)
                /\ NoneAhead(r, d, t) /\ NoneAhead(w, d, t) => NoneAhead(r \o w, d, t)
  BY <1>4, Joined
<1>6. /\ \A c : /\ HasOp(r, c) <=> c = "read" /\ ph["read"] \in AtSocket
                /\ HasOp(w, c) <=> c = "write" /\ ph["write"] \in AtSocket
                /\ OneOp(r, c) /\ OneOp(w, c)
      /\ \A c, x : /\ HasOpAt(r, c, x) <=> c = "read" /\ ph["read"] = x /\ x \in AtSocket
                   /\ HasOpAt(w, c, x) <=> c = "write" /\ ph["write"] = x /\ x \in AtSocket
      /\ \A c, t : /\ ~HasLive(r, c, t) /\ OneLive(r, c, t) /\ NoneAhead(r, c, t)
                   /\ ~HasLive(w, c, t) /\ OneLive(w, c, t) /\ NoneAhead(w, c, t)
  BY <1>2, <1>3
<1> HIDE DEF r, w
<1>7. r \o w = SocketAborts(ph)
  BY <1>1 DEF r, w
<1>8. \A d \in Dir : /\ HasOp(r \o w, d) <=> ph[d] \in AtSocket
                    /\ OneOp(r \o w, d)
  BY <1>3, <1>5, <1>6
<1>9. \A d \in Dir : \A x : HasOpAt(r \o w, d, x) <=> ph[d] = x /\ x \in AtSocket
  BY <1>3, <1>5, <1>6
<1>10. \A d, t : ~HasLive(r \o w, d, t) /\ OneLive(r \o w, d, t) /\ NoneAhead(r \o w, d, t)
  BY <1>5, <1>6
<1>11. r \o w \in Seq(Handler)
  BY <1>5
<1> QED BY <1>7, <1>8, <1>9, <1>10, <1>11

(* cancel() and close(), in a handler that leaves `q` of ready and `ph` of *)
(* phase: what waited at the socket is due, and no deadline is heard of.   *)
LEMMA Cancelled ==
  ASSUME rateWaits = <<>>, NEW q \in Seq(Handler), NEW ph \in [Dir -> {"idle", "due"} \cup AtSocket],
         \A d \in Dir : OneOp(q, d) /\ (HasOp(q, d) => ph[d] = "due"),
         CancelAll(q, ph)
  PROVE  /\ ready' \in Seq(Handler)
         /\ rateWaits' = <<>>
         /\ phase' \in [Dir -> {"idle", "due"}]
         /\ \A d \in Dir : /\ phase'[d] = "idle" <=> ph[d] = "idle"
                           /\ OneOp(ready', d)
                           /\ HasOp(ready', d) => phase'[d] = "due"
         /\ \A d \in Dir : \A x \in AtSocket :
              HasOpAt(ready', d, x) <=> HasOpAt(q, d, x) \/ ph[d] = x
         /\ \A d \in Dir : \A t : /\ HasLive(ready', d, t) => HasLive(q, d, t)
                                  /\ OneLive(q, d, t) => OneLive(ready', d, t)
                                  /\ NoneAhead(q, d, t) => NoneAhead(ready', d, t)
<1> DEFINE e == SocketAborts(ph)
<1>1. RateAborts = <<>>
  BY DEF RateAborts
<1>2. /\ e \in Seq(Handler)
      /\ \A d \in Dir : HasOp(e, d) <=> ph[d] \in AtSocket
      /\ \A d \in Dir : \A x : HasOpAt(e, d, x) <=> ph[d] = x /\ x \in AtSocket
      /\ \A d \in Dir : OneOp(e, d)
      /\ \A d, t : ~HasLive(e, d, t) /\ OneLive(e, d, t) /\ NoneAhead(e, d, t)
  BY SocketAborted
<1> HIDE DEF e
<1>3. ready' = q \o e
  <2>1. ready' = q \o e \o <<>>
    BY <1>1 DEF CancelAll, e
  <2> QED BY <1>2, <2>1
<1>4. /\ rateWaits' = <<>>
      /\ phase' = [d \in Dir |-> IF ph[d] = "idle" THEN "idle" ELSE "due"]
  BY DEF CancelAll
<1>5. \A d, t : /\ q \o e \in Seq(Handler)
                /\ HasOp(q \o e, d) <=> HasOp(q, d) \/ HasOp(e, d)
                /\ \A x : HasOpAt(q \o e, d, x) <=> HasOpAt(q, d, x) \/ HasOpAt(e, d, x)
                /\ HasLive(q \o e, d, t) <=> HasLive(q, d, t) \/ HasLive(e, d, t)
                /\ OneOp(q, d) /\ OneOp(e, d) /\ ~(HasOp(q, d) /\ HasOp(e, d)) => OneOp(q \o e, d)
                /\ OneLive(q, d, t) /\ OneLive(e, d, t) /\ ~(HasLive(q, d, t) /\ HasLive(e, d, t))
                     => OneLive(q \o e, d, t)
                /\ NoneAhead(q, d, t) /\ NoneAhead(e, d, t) => NoneAhead(q \o e, d, t)
  BY <1>2, Joined
<1>6. \A d \in Dir : /\ phase'[d] = "idle" <=> ph[d] = "idle"
                     /\ OneOp(ready', d)
                     /\ HasOp(ready', d) => phase'[d] = "due"
  BY <1>2, <1>3, <1>4, <1>5 DEF AtSocket
<1>7. \A d \in Dir : \A x \in AtSocket :
        HasOpAt(ready', d, x) <=> HasOpAt(q, d, x) \/ ph[d] = x
  BY <1>2, <1>3, <1>5
<1>8. \A d \in Dir : \A t : /\ HasLive(ready', d, t) => HasLive(q, d, t)
                            /\ OneLive(q, d, t) => OneLive(ready', d, t)
                            /\ NoneAhead(q, d, t) => NoneAhead(ready', d, t)
  BY <1>2, <1>3, <1>5
<1> QED BY <1>3, <1>4, <1>5, <1>6, <1>7, <1>8

------------------------------------------------------------------------------
LEMMA Initially == Init => IInv
<1> SUFFICES ASSUME Init PROVE IInv
  OBVIOUS
<1>1. TypeOK
  BY BasicStreamAssumption DEF Init, TypeOK, AtSocket
<1>2. HandlersInv
  BY NoHandler DEF Init, HandlersInv
<1>3. DeadlineInv
  BY NoHandler DEF Init, DeadlineInv, Quiet, At
<1>4. PendingInv
  BY NoHandler DEF Init, PendingInv, At
<1> QED BY <1>1, <1>2, <1>3, <1>4 DEF IInv

LEMMA ReadyType == IInv => ready \in Seq(Handler)
BY DEF IInv, HandlersInv

LEMMA SetExpiryKeeps ==
  ASSUME IInv, NEW x \in {"never", "future", "past"}, SetExpiry(x)
  PROVE  IInv'
<1> DEFINE a(d) == IF pending[d] THEN <<>>
                   ELSE [i \in DOMAIN waits[d] |-> DeadlineHandler(d, waits[d][i], "aborted")]
<1> USE DEF IInv
<1>1. \A d \in Dir : ~pending[d] => waits[d] = <<>>
  BY DEF PendingInv, DeadlineInv, Quiet
<1>2. \A d \in Dir : a(d) = <<>>
  BY <1>1
<1>3. ready' = ready
  <2>1. ready' = ready \o a("read") \o a("write")
    BY DEF SetExpiry
  <2>2. ready' = ready \o <<>> \o <<>>
    BY <1>2, <2>1 DEF Dir
  <2> QED BY <2>2, ReadyType
<1>4. waits' = waits
  <2>1. waits' = [d \in Dir |-> IF pending[d] THEN waits[d] ELSE <<>>]
    BY DEF SetExpiry
  <2>2. waits \in [Dir -> Seq(0 .. MaxOps)]
    BY DEF TypeOK
  <2> QED BY <1>1, <2>1, <2>2
<1>5. /\ expiry' = [d \in Dir |-> IF pending[d] THEN expiry[d] ELSE x]
      /\ UNCHANGED <<open, pending, timeout, tick, phase, room, rateVars, ops, last>>
  BY DEF SetExpiry
<1>6. TypeOK'
  BY <1>4, <1>5 DEF TypeOK, rateVars
<1>7. HandlersInv'
  BY <1>3, <1>5 DEF HandlersInv, rateVars
<1>8. DeadlineInv'
  <2>1. \A d \in Dir : expiry'[d] = "never" => expiry[d] = "never" \/ phase[d] = "idle"
    BY <1>5 DEF PendingInv
  <2> QED BY <1>3, <1>4, <1>5, <2>1 DEF DeadlineInv, Quiet, At
<1>9. PendingInv'
  BY <1>3, <1>5 DEF PendingInv, At
<1> QED BY <1>6, <1>7, <1>8, <1>9

LEMMA CancelKeeps ==
  ASSUME IInv, Cancel \/ Close
  PROVE  IInv'
<1> USE DEF IInv
<1>1. /\ rateWaits = <<>>
      /\ ready \in Seq(Handler)
      /\ phase \in [Dir -> {"idle", "due"} \cup AtSocket]
      /\ \A d \in Dir : OneOp(ready, d) /\ (HasOp(ready, d) => phase[d] = "due")
  BY DEF HandlersInv, TypeOK
<1>2. CancelAll(ready, phase)
  BY DEF Cancel, Close, CloseImpl
<1>3. /\ ready' \in Seq(Handler)
      /\ rateWaits' = <<>>
      /\ phase' \in [Dir -> {"idle", "due"}]
      /\ \A d \in Dir : /\ phase'[d] = "idle" <=> phase[d] = "idle"
                        /\ OneOp(ready', d)
                        /\ HasOp(ready', d) => phase'[d] = "due"
      /\ \A d \in Dir : \A x \in AtSocket :
           HasOpAt(ready', d, x) <=> HasOpAt(ready, d, x) \/ phase[d] = x
      /\ \A d \in Dir : \A t : /\ HasLive(ready', d, t) => HasLive(ready, d, t)
                               /\ OneLive(ready, d, t) => OneLive(ready', d, t)
                               /\ NoneAhead(ready, d, t) => NoneAhead(ready', d, t)
  BY <1>1, <1>2, Cancelled
<1>4. /\ open' = open \/ open' = FALSE
      /\ UNCHANGED <<pending, timerVars, room, rateExpiry, waiting, remain, sliced, over, ops, last>>
  BY DEF Cancel, Close, CloseImpl
<1>5. TypeOK'
  <2>1. phase' \in [Dir -> {"idle", "rate", "due"} \cup AtSocket]
    BY <1>3
  <2>2. rateWaits' \in Seq(Dir \cup {"slice"})
    BY <1>3
  <2>3. open' \in BOOLEAN
    BY <1>4 DEF TypeOK
  <2> QED BY <1>4, <2>1, <2>2, <2>3 DEF TypeOK, timerVars
<1>6. HandlersInv'
  BY <1>3, <1>4 DEF HandlersInv, timerVars
<1>7. \A d \in Dir : \A x \in AtSocket : At(d, x)' <=> At(d, x)
  BY <1>3 DEF At, AtSocket
<1>8. DeadlineInv'
  BY <1>3, <1>4, <1>7 DEF DeadlineInv, Quiet, timerVars, AtSocket
<1>9. PendingInv'
  <2>1. \A d \in Dir : phase'[d] = "idle" <=> phase[d] = "idle"
    BY <1>3
  <2>2. \A d \in Dir : At(d, "connect")' <=> At(d, "connect")
    BY <1>7 DEF AtSocket
  <2> QED BY <1>4, <2>1, <2>2 DEF PendingInv, timerVars, Dir
<1> QED BY <1>5, <1>6, <1>8, <1>9

LEMMA NeverRated == ASSUME IInv, Unlimited, NEW d \in Dir PROVE Available(d) = MaxBytes
BY DEF Unlimited, Available

LEMMA StartTransferKeeps ==
  ASSUME IInv, Unlimited, NEW d \in Dir, NEW n \in 0 .. MaxBytes, StartTransfer(d, n)
  PROVE  IInv'
<1> USE DEF IInv
<1>1. Quiet(d) /\ phase[d] = "idle" /\ ~pending[d] /\ ops < MaxOps
  BY DEF StartTransfer, PendingInv, DeadlineInv
<1>2. /\ ops' = ops + 1
      /\ pending' = [pending EXCEPT ![d] = TRUE]
      /\ UNCHANGED <<open, timeout, tick, expiry, rateExpiry, remain, ready, sliced, over, last>>
  BY DEF StartTransfer
<1>3. /\ UNCHANGED <<waiting, rateWaits>>
      /\ \/ phase' = [phase EXCEPT ![d] = "noop"] /\ UNCHANGED <<waits, room>>
         \/ /\ phase' = [phase EXCEPT ![d] = "io"]
            /\ Arm(d)
            /\ room' = [room EXCEPT ![d] = Min({n, MaxBytes})]
  BY NeverRated, BasicStreamAssumption DEF StartTransfer
<1>4. Min({n, MaxBytes}) \in 0 .. MaxBytes
  BY BasicStreamAssumption DEF Min
<1>5. /\ \A c \in Dir : /\ waits'[c] = <<>> \/ waits'[c] = <<tick[c]>>
                        /\ c # d \/ expiry[d] = "never" \/ phase'[d] = "noop" => waits'[c] = waits[c]
      /\ waits' \in [Dir -> Seq(0 .. MaxOps)]
  <2>1. waits \in [Dir -> Seq(0 .. MaxOps)] /\ tick \in [Dir -> 0 .. MaxOps] /\ waits[d] = <<>>
    BY <1>1 DEF TypeOK, Quiet
  <2>2. \/ waits' = waits
        \/ /\ phase' = [phase EXCEPT ![d] = "io"]
           /\ expiry[d] # "never"
           /\ waits' = [waits EXCEPT ![d] = Append(@, tick[d])]
    BY <1>3 DEF Arm
  <2>3. \/ waits' = waits
        \/ /\ expiry[d] # "never"
           /\ phase'[d] # "noop"
           /\ waits' = [waits EXCEPT ![d] = <<tick[d]>>]
    <3>1. phase' = [phase EXCEPT ![d] = "io"] => phase'[d] # "noop"
      BY DEF TypeOK
    <3>2. Append(waits[d], tick[d]) = <<tick[d]>>
      BY <2>1
    <3>3. [waits EXCEPT ![d] = Append(@, tick[d])] = [waits EXCEPT ![d] = <<tick[d]>>]
      BY <3>2
    <3> QED BY <2>2, <3>1, <3>3
  <2>4. CASE waits' = waits
    BY <2>1, <2>4 DEF DeadlineInv
  <2>5. CASE expiry[d] # "never" /\ phase'[d] # "noop" /\ waits' = [waits EXCEPT ![d] = <<tick[d]>>]
    BY <2>1, <2>5 DEF DeadlineInv
  <2> QED BY <2>3, <2>4, <2>5
<1>6. \A c \in Dir : /\ c # d => phase'[c] = phase[c]
                     /\ phase'[d] \in {"noop", "io"}
                     /\ ~HasOp(ready, d)
                     /\ \A x : HasOpAt(ready, d, x) => HasOp(ready, d)
  BY <1>1, <1>3 DEF TypeOK, HandlersInv, HasOp, HasOpAt, IsOpAt
<1>7. TypeOK'
  <2>1. phase' \in [Dir -> {"idle", "rate", "due"} \cup AtSocket]
    BY <1>3 DEF TypeOK, AtSocket
  <2>2. room' \in [Dir -> 0 .. MaxBytes]
    BY <1>3, <1>4, ZenonT(60) DEF TypeOK
  <2>3. ops' \in 0 .. MaxOps
    BY <1>1, <1>2, BasicStreamAssumption DEF TypeOK
  <2> QED BY <1>2, <1>3, <1>5, <2>1, <2>2, <2>3 DEF TypeOK
<1>8. HandlersInv'
  BY <1>1, <1>2, <1>3, <1>6 DEF HandlersInv
<1>9. DeadlineInv'
  <2> SUFFICES ASSUME NEW c \in Dir
               PROVE  /\ waits'[c] = <<>> \/ waits'[c] = <<tick[c]>>
                      /\ HasLive(ready, c, tick[c]) => waits'[c] = <<>>
                      /\ timeout[c] => waits'[c] = <<>> /\ ~HasLive(ready, c, tick[c]) /\ ~open
                      /\ phase'[c] = "idle" \/ At(c, "noop")' \/ expiry[c] = "never"
                           => waits'[c] = <<>> /\ ~timeout[c] /\ ~HasLive(ready, c, tick[c])
    BY <1>2 DEF DeadlineInv, Quiet
  <2>1. CASE c = d
    BY <1>1, <1>2, <1>5, <1>6, <2>1 DEF Quiet, At
  <2>2. CASE c # d
    BY <1>2, <1>5, <1>6, <2>2 DEF DeadlineInv, Quiet, At
  <2> QED BY <2>1, <2>2
<1>10. PendingInv'
  <2>1. \A c \in Dir : At(c, "connect")' => At(c, "connect") /\ c # d
    BY <1>2, <1>6 DEF At
  <2>2. pending \in [Dir -> BOOLEAN] /\ ops \in Nat /\ \A c \in Dir : tick[c] \in Nat
    BY DEF TypeOK
  <2>3. \A c \in Dir : At(c, "connect") => d # "read"
    BY <1>1 DEF PendingInv
  <2> QED BY <1>1, <1>2, <1>6, <2>1, <2>2, <2>3 DEF PendingInv, Dir
<1> QED BY <1>7, <1>8, <1>9, <1>10

LEMMA StartConnectKeeps ==
  ASSUME IInv, StartConnect
  PROVE  IInv'
<1> USE DEF IInv
<1>1. \A d \in Dir : Quiet(d) /\ phase[d] = "idle" /\ ~pending[d]
  BY DEF StartConnect, PendingInv, DeadlineInv, Dir
<1>2. /\ ops < MaxOps
      /\ ops' = ops + 1
      /\ pending' = [d \in Dir |-> TRUE]
      /\ phase' = [phase EXCEPT !["write"] = "connect"]
      /\ open' = TRUE
      /\ UNCHANGED <<timeout, tick, expiry, room, rateVars, ready, last>>
  BY DEF StartConnect
<1>3. "write" \in Dir /\ "read" \in Dir /\ \A d \in Dir : d = "read" \/ d = "write"
  BY DEF Dir
<1>4. /\ \A c \in Dir : /\ waits'[c] = <<>> \/ waits'[c] = <<tick[c]>>
                        /\ c # "write" \/ expiry[c] = "never" => waits'[c] = <<>>
      /\ waits' \in [Dir -> Seq(0 .. MaxOps)]
  <2>1. waits \in [Dir -> Seq(0 .. MaxOps)] /\ tick \in [Dir -> 0 .. MaxOps] /\ \A d \in Dir : waits[d] = <<>>
    BY <1>1 DEF TypeOK, Quiet
  <2>2. \/ waits' = waits /\ expiry["write"] = "never"
        \/ expiry["write"] # "never" /\ waits' = [waits EXCEPT !["write"] = <<tick["write"]>>]
    <3>1. waits["write"] = <<>>
      BY <1>3, <2>1
    <3>2. Append(waits["write"], tick["write"]) = <<tick["write"]>>
      BY <3>1
    <3> QED BY <3>2 DEF StartConnect, Arm
  <2>3. CASE waits' = waits /\ expiry["write"] = "never"
    BY <1>3, <2>1, <2>3
  <2>4. CASE expiry["write"] # "never" /\ waits' = [waits EXCEPT !["write"] = <<tick["write"]>>]
    <3>1. <<tick["write"]>> \in Seq(0 .. MaxOps)
      BY <1>3, <2>1
    <3> QED BY <1>3, <2>1, <2>4, <3>1
  <2> QED BY <2>2, <2>3, <2>4
<1>5. /\ phase'["write"] = "connect" /\ phase'["read"] = "idle"
      /\ \A d \in Dir : ~HasOp(ready, d) /\ \A x : ~HasOpAt(ready, d, x)
  BY <1>1, <1>2, <1>3 DEF TypeOK, HandlersInv, HasOp, HasOpAt, IsOpAt
<1>6. TypeOK'
  <2>1. phase' \in [Dir -> {"idle", "rate", "due"} \cup AtSocket]
    BY <1>2 DEF TypeOK, AtSocket
  <2>2. ops' \in 0 .. MaxOps
    BY <1>2, BasicStreamAssumption DEF TypeOK
  <2> QED BY <1>2, <1>4, <2>1, <2>2 DEF TypeOK, rateVars
<1>7. HandlersInv'
  BY <1>2, <1>3, <1>5 DEF HandlersInv, rateVars
<1>8. DeadlineInv'
  BY <1>1, <1>2, <1>3, <1>4, <1>5 DEF DeadlineInv, Quiet, At
<1>9. PendingInv'
  <2>1. \A d \in Dir : tick'[d] = tick[d] /\ tick[d] \in Nat /\ tick[d] <= ops
    BY <1>2 DEF PendingInv, TypeOK
  <2>2. \A d \in Dir : tick'[d] < ops' /\ tick'[d] <= ops'
    BY <1>2, <2>1 DEF TypeOK
  <2>3. \A d \in Dir : pending'[d]
    BY <1>2
  <2>4. \A d \in Dir : At(d, "connect")' => d = "write" /\ phase'["read"] = "idle" /\ pending'["read"]
    BY <1>2, <1>3, <1>5, <2>3 DEF At
  <2> QED BY <2>2, <2>3, <2>4 DEF PendingInv
<1> QED BY <1>6, <1>7, <1>8, <1>9

LEMMA SocketDoneKeeps ==
  ASSUME IInv, NEW d \in Dir, SocketDone(d)
  PROVE  IInv'
<1> USE DEF IInv
<1>1. PICK h \in Handler : /\ h.k = "op" /\ h.d = d /\ h.at = phase[d]
                           /\ ready' = Append(ready, h)
  <2>1. room[d] \in 0 .. MaxBytes /\ MaxBytes \in Nat
    BY BasicStreamAssumption DEF TypeOK
  <2>2. phase[d] \in AtSocket
    BY DEF SocketDone
  <2>3. PICK ec \in {"ok", "error"}, n \in 0 .. MaxBytes :
          ready' = Append(ready, OpHandler(d, phase[d], ec, n))
    <3>1. CASE phase[d] = "io" /\ \E n \in 1 .. room[d] : ready' = Append(ready, OpHandler(d, "io", "ok", n))
      <4>1. PICK n \in 1 .. room[d] : ready' = Append(ready, OpHandler(d, "io", "ok", n))
        BY <3>1
      <4>2. n \in 0 .. MaxBytes
        BY <2>1
      <4> QED BY <3>1, <4>1, <4>2
    <3>2. CASE ready' = Append(ready, OpHandler(d, phase[d], "ok", 0))
      BY <2>1, <3>2
    <3>3. CASE ready' = Append(ready, OpHandler(d, phase[d], "error", 0))
      BY <2>1, <3>3
    <3> QED BY <3>1, <3>2, <3>3 DEF SocketDone
  <2>4. OpHandler(d, phase[d], ec, n) \in Handler
    BY <2>2, <2>3 DEF OpHandler, Handler
  <2> QED BY <2>3, <2>4 DEF OpHandler
<1>2. ready' = ready \o <<h>>
  BY <1>1, ReadyType, SMTT(40)
<1>3. \A c, t : /\ ready' \in Seq(Handler)
                /\ HasOp(ready', c) <=> HasOp(ready, c) \/ c = d
                /\ \A x : HasOpAt(ready', c, x) <=> HasOpAt(ready, c, x) \/ (c = d /\ x = phase[d])
                /\ HasLive(ready', c, t) <=> HasLive(ready, c, t)
                /\ OneOp(ready, c) /\ ~(HasOp(ready, c) /\ c = d) => OneOp(ready', c)
                /\ OneLive(ready, c, t) => OneLive(ready', c, t)
                /\ NoneAhead(ready, c, t) => NoneAhead(ready', c, t)
  <2> TAKE c, t
  <2>1. /\ <<h>> \in Seq(Handler)
        /\ HasOp(<<h>>, c) <=> c = d
        /\ \A x : HasOpAt(<<h>>, c, x) <=> c = d /\ phase[d] = x
        /\ ~HasLive(<<h>>, c, t) /\ OneOp(<<h>>, c) /\ OneLive(<<h>>, c, t) /\ NoneAhead(<<h>>, c, t)
    BY <1>1, OpAlone
  <2> DEFINE r == ready
             e == <<h>>
  <2>2. r \in Seq(Handler) /\ e \in Seq(Handler)
    BY <2>1, ReadyType
  <2> HIDE DEF r, e
  <2>3. /\ r \o e \in Seq(Handler)
        /\ HasOp(r \o e, c) <=> HasOp(r, c) \/ HasOp(e, c)
        /\ \A x : HasOpAt(r \o e, c, x) <=> HasOpAt(r, c, x) \/ HasOpAt(e, c, x)
        /\ HasLive(r \o e, c, t) <=> HasLive(r, c, t) \/ HasLive(e, c, t)
        /\ OneOp(r, c) /\ OneOp(e, c) /\ ~(HasOp(r, c) /\ HasOp(e, c)) => OneOp(r \o e, c)
        /\ OneLive(r, c, t) /\ OneLive(e, c, t) /\ ~(HasLive(r, c, t) /\ HasLive(e, c, t))
             => OneLive(r \o e, c, t)
        /\ NoneAhead(r, c, t) /\ NoneAhead(e, c, t) => NoneAhead(r \o e, c, t)
    BY <2>2, Joined
  <2>4. ready' = r \o e
    BY <1>2 DEF r, e
  <2>5. /\ HasOp(e, c) <=> c = d
        /\ \A x : HasOpAt(e, c, x) <=> c = d /\ phase[d] = x
        /\ ~HasLive(e, c, t) /\ OneOp(e, c) /\ OneLive(e, c, t) /\ NoneAhead(e, c, t)
    BY <2>1 DEF e
  <2>6. \A x : HasOpAt(r \o e, c, x) <=> HasOpAt(r, c, x) \/ (c = d /\ x = phase[d])
    BY <2>3, <2>5
  <2>7. r = ready
    BY DEF r
  <2> QED BY <2>3, <2>4, <2>5, <2>6, <2>7
<1>4. /\ phase[d] \in AtSocket
      /\ phase' = [phase EXCEPT ![d] = "due"]
      /\ UNCHANGED <<open, pending, timerVars, room, rateVars, ops, last>>
  BY DEF SocketDone
<1>5. /\ phase'[d] = "due"
      /\ \A c \in Dir : /\ phase'[c] = "idle" <=> phase[c] = "idle"
                        /\ c # d => phase'[c] = phase[c]
                        /\ \A x \in AtSocket : At(c, x)' => At(c, x)
  BY <1>3, <1>4 DEF TypeOK, At, AtSocket
<1>6. TypeOK'
  BY <1>4 DEF TypeOK, rateVars, timerVars, AtSocket
<1>7. HandlersInv'
  <2>1. ~HasOp(ready, d)
    BY <1>4 DEF HandlersInv, AtSocket
  <2> QED BY <1>3, <1>4, <1>5, <2>1 DEF HandlersInv, rateVars, timerVars
<1>8. DeadlineInv'
  BY <1>3, <1>4, <1>5 DEF DeadlineInv, Quiet, timerVars, AtSocket
<1>9. PendingInv'
  BY <1>4, <1>5 DEF PendingInv, timerVars, AtSocket, Dir
<1> QED BY <1>6, <1>7, <1>8, <1>9

LEMMA ExpireKeeps ==
  ASSUME IInv, NEW d \in Dir, Expire(d)
  PROVE  IInv'
<1> USE DEF IInv
<1>1. /\ expiry[d] = "future"
      /\ expiry' = [expiry EXCEPT ![d] = "past"]
      /\ UNCHANGED <<open, pending, timeout, tick, waits, phase, room, rateVars, ready, ops, last>>
  BY DEF Expire
<1>2. TypeOK'
  BY <1>1 DEF TypeOK, rateVars
<1>3. HandlersInv'
  BY <1>1 DEF HandlersInv, rateVars
<1>4. DeadlineInv'
  <2>1. \A c \in Dir : expiry'[c] = "never" => expiry[c] = "never"
    BY <1>1 DEF TypeOK
  <2> QED BY <1>1, <2>1 DEF DeadlineInv, Quiet, At
<1>5. PendingInv'
  BY <1>1 DEF PendingInv, At
<1> QED BY <1>2, <1>3, <1>4, <1>5

LEMMA DeadlineDueKeeps ==
  ASSUME IInv, NEW d \in Dir, DeadlineDue(d)
  PROVE  IInv'
<1> DEFINE e == [i \in DOMAIN waits[d] |-> DeadlineHandler(d, waits[d][i], "ok")]
<1> USE DEF IInv
<1>1. /\ waits[d] # <<>>
      /\ ready' = ready \o e
      /\ waits' = [waits EXCEPT ![d] = <<>>]
      /\ UNCHANGED <<open, pending, timeout, tick, expiry, phase, room, rateVars, ops, last>>
  BY DEF DeadlineDue
<1>2. tick[d] \in 0 .. MaxOps /\ (waits[d] = <<>> \/ waits[d] = <<tick[d]>>)
  BY DEF TypeOK, DeadlineInv
<1>3. /\ e \in Seq(Handler)
      /\ \A c : ~HasOp(e, c) /\ OneOp(e, c)
      /\ \A c, x : ~HasOpAt(e, c, x)
      /\ \A c, u : HasLive(e, c, u) => c = d /\ u = tick[d]
      /\ \A c, u : OneLive(e, c, u)
      /\ \A c : \A u \in Nat : c # d \/ tick[d] <= u => NoneAhead(e, c, u)
  <2> DEFINE w == waits[d]
             t == tick[d]
  <2>1. e = [i \in DOMAIN w |-> DeadlineHandler(d, w[i], "ok")]
    OBVIOUS
  <2> HIDE DEF e, w, t
  <2>2. t \in 0 .. MaxOps /\ (w = <<>> \/ w = <<t>>)
    BY <1>2 DEF w, t
  <2>3. /\ e \in Seq(Handler)
        /\ \A c : ~HasOp(e, c) /\ OneOp(e, c)
        /\ \A c, x : ~HasOpAt(e, c, x)
        /\ \A c, u : HasLive(e, c, u) => c = d /\ u = t /\ "ok" = "ok" /\ w # <<>>
        /\ \A c, u : OneLive(e, c, u)
        /\ \A c : \A u \in Nat : c # d \/ t <= u \/ "ok" = "aborted" => NoneAhead(e, c, u)
    BY <2>1, <2>2, WaitEnded
  <2> QED BY <2>3 DEF t
<1> HIDE DEF e
<1>4. \A c, t : /\ ready' \in Seq(Handler)
                /\ HasOp(ready', c) <=> HasOp(ready, c)
                /\ \A x : HasOpAt(ready', c, x) <=> HasOpAt(ready, c, x)
                /\ HasLive(ready', c, t) => HasLive(ready, c, t) \/ c = d
                /\ OneOp(ready, c) => OneOp(ready', c)
                /\ OneLive(ready, c, t) /\ ~(HasLive(ready, c, t) /\ c = d) => OneLive(ready', c, t)
                /\ NoneAhead(ready, c, t) /\ NoneAhead(e, c, t) => NoneAhead(ready', c, t)
  BY <1>1, <1>3, ReadyType, Joined
<1>5. /\ waits'[d] = <<>> /\ \A c \in Dir : c # d => waits'[c] = waits[c]
      /\ ~HasLive(ready, d, tick[d])
      /\ ~timeout[d]
      /\ ~(phase[d] = "idle" \/ At(d, "noop") \/ expiry[d] = "never")
  BY <1>1 DEF TypeOK, DeadlineInv, Quiet
<1>6. \A c \in Dir : tick[c] \in Nat /\ NoneAhead(e, c, tick[c])
  BY <1>3, SMTT(40) DEF TypeOK
<1>7. TypeOK'
  BY <1>1, SMTT(40) DEF TypeOK, rateVars
<1>8. HandlersInv'
  BY <1>1, <1>4, <1>5, <1>6 DEF HandlersInv, rateVars
<1>9. \A c \in Dir : \A x : At(c, x)' <=> At(c, x)
  BY <1>1, <1>4 DEF At
<1>10. DeadlineInv'
  BY <1>1, <1>4, <1>5, <1>9 DEF DeadlineInv, Quiet
<1>11. PendingInv'
  BY <1>1, <1>9 DEF PendingInv
<1> QED BY <1>7, <1>8, <1>10, <1>11

------------------------------------------------------------------------------
(* The handler at the head of the queue, and what it leaves behind.        *)
LEMMA AtHead ==
  ASSUME IInv, ready # <<>>
  PROVE  /\ Head(ready) \in Handler
         /\ due \in Seq(Handler)
         /\ \A d \in Dir :
              /\ OneOp(due, d)
              /\ HasOp(due, d) => phase[d] = "due"
              /\ \A x : HasOpAt(due, d, x) => HasOpAt(ready, d, x)
              /\ HasLive(due, d, tick[d]) => HasLive(ready, d, tick[d])
              /\ OneLive(due, d, tick[d])
              /\ NoneAhead(due, d, tick[d])
              /\ IsOp(Head(ready), d) => ~HasOp(due, d) /\ phase[d] = "due"
              /\ \A x : IsOpAt(Head(ready), d, x) => HasOpAt(ready, d, x)
              /\ IsLive(Head(ready), d, tick[d])
                   => ~HasLive(due, d, tick[d]) /\ HasLive(ready, d, tick[d])
              /\ (Head(ready).k = "deadline" /\ Head(ready).d = d /\ Head(ready).ec = "ok")
                   => Head(ready).tick <= tick[d]
BY ReadyType, Left DEF IInv, HandlersInv, due

LEMMA HasOpAtHasOp ==
  ASSUME NEW r, NEW d, NEW x, HasOpAt(r, d, x)
  PROVE  HasOp(r, d)
BY DEF HasOpAt, HasOp, IsOpAt

(* A tick makes every deadline handler of its direction stale.             *)
LEMMA Ticked ==
  ASSUME NEW r \in Seq(Handler), NEW d, NEW t \in Nat, NoneAhead(r, d, t)
  PROVE  ~HasLive(r, d, t + 1) /\ OneLive(r, d, t + 1) /\ NoneAhead(r, d, t + 1)
<1>1. \A i \in 1 .. Len(r) : r[i] \in Handler
  OBVIOUS
<1>2. \A i \in 1 .. Len(r) : r[i].k = "deadline" => r[i].tick \in Nat
  BY <1>1, BasicStreamAssumption DEF Handler
<1>3. ~HasLive(r, d, t + 1)
  BY <1>2 DEF HasLive, IsLive, NoneAhead
<1>4. OneLive(r, d, t + 1)
  BY <1>3 DEF OneLive, HasLive
<1>5. NoneAhead(r, d, t + 1)
  BY <1>2 DEF NoneAhead
<1> QED BY <1>3, <1>4, <1>5

(* A handler that finds nothing to do.                                     *)
LEMMA DropKeeps ==
  ASSUME IInv, ready # <<>>, ready' = due,
         UNCHANGED <<open, pending, timerVars, phase, room, rateVars, ops, last>>
  PROVE  IInv'
<1> USE DEF IInv
<1>1. TypeOK'
  BY DEF TypeOK, rateVars, timerVars
<1>2. HandlersInv'
  BY AtHead DEF HandlersInv, rateVars, timerVars
<1>3. \A d \in Dir : \A x : At(d, x)' => At(d, x)
  BY AtHead DEF At
<1>4. DeadlineInv'
  BY AtHead, <1>3 DEF DeadlineInv, Quiet, timerVars
<1>5. PendingInv'
  BY <1>3 DEF PendingInv, timerVars
<1> QED BY <1>1, <1>2, <1>4, <1>5

LEMMA OnDeadlineKeeps ==
  ASSUME IInv, ready # <<>>, Head(ready).k = "deadline", OnDeadline(Head(ready))
  PROVE  IInv'
<1> DEFINE hd == Head(ready)
<1>1. CASE ready' = due /\ UNCHANGED <<open, pending, timerVars, phase, room, rateVars, ops, last>>
  BY <1>1, DropKeeps
<1>2. CASE /\ hd.ec = "ok"
           /\ hd.tick = tick[hd.d]
           /\ CloseImpl(due, phase)
           /\ timeout' = [timeout EXCEPT ![hd.d] = TRUE]
           /\ UNCHANGED <<pending, tick, expiry, waits, room, rateExpiry, waiting, remain,
                          sliced, over, ops, last>>
  <2> USE DEF IInv
  <2> DEFINE d == hd.d
  <2>1. hd.d \in Dir
    BY AtHead DEF Handler
  <2>2. IsLive(hd, d, tick[d])
    BY <1>2 DEF IsLive
  <2> HIDE DEF d
  <2>3. d \in Dir /\ timeout' = [timeout EXCEPT ![d] = TRUE] /\ timeout'[d]
    BY <1>2, <2>1 DEF d, TypeOK
  <2>4. ~HasLive(due, d, tick[d]) /\ HasLive(ready, d, tick[d])
    BY <2>2, <2>3, AtHead
  <2>5. /\ rateWaits = <<>>
        /\ due \in Seq(Handler)
        /\ phase \in [Dir -> {"idle", "due"} \cup AtSocket]
        /\ \A c \in Dir : OneOp(due, c) /\ (HasOp(due, c) => phase[c] = "due")
    BY AtHead DEF HandlersInv, TypeOK
  <2>6. CancelAll(due, phase) /\ open' = FALSE
    BY <1>2 DEF CloseImpl
  <2>7. /\ ready' \in Seq(Handler)
        /\ rateWaits' = <<>>
        /\ phase' \in [Dir -> {"idle", "due"}]
        /\ \A c \in Dir : /\ phase'[c] = "idle" <=> phase[c] = "idle"
                          /\ OneOp(ready', c)
                          /\ HasOp(ready', c) => phase'[c] = "due"
        /\ \A c \in Dir : \A x \in AtSocket :
             HasOpAt(ready', c, x) <=> HasOpAt(due, c, x) \/ phase[c] = x
        /\ \A c \in Dir : \A t : /\ HasLive(ready', c, t) => HasLive(due, c, t)
                                 /\ OneLive(due, c, t) => OneLive(ready', c, t)
                                 /\ NoneAhead(due, c, t) => NoneAhead(ready', c, t)
    BY <2>5, <2>6, Cancelled
  <2>8. TypeOK'
    <3>1. phase' \in [Dir -> {"idle", "rate", "due"} \cup AtSocket]
      BY <2>7
    <3>2. rateWaits' \in Seq(Dir \cup {"slice"})
      BY <2>7
    <3>3. timeout' \in [Dir -> BOOLEAN]
      BY <2>3 DEF TypeOK
    <3> QED BY <1>2, <2>6, <3>1, <3>2, <3>3 DEF TypeOK
  <2>9. HandlersInv'
    BY <1>2, <2>7, AtHead DEF HandlersInv
  <2>10. \A c \in Dir : \A x \in AtSocket : At(c, x)' => At(c, x)
    BY <2>7, AtHead DEF At, AtSocket
  <2>11. DeadlineInv'
    <3>1. \A c \in Dir : /\ phase'[c] = "idle" <=> phase[c] = "idle"
                         /\ At(c, "noop")' => At(c, "noop")
                         /\ HasLive(ready', c, tick[c]) => HasLive(due, c, tick[c])
                         /\ HasLive(due, c, tick[c]) => HasLive(ready, c, tick[c])
                         /\ c # d => timeout'[c] = timeout[c]
      BY <2>3, <2>7, <2>10, AtHead DEF AtSocket, TypeOK
    <3>2. waits' = waits /\ tick' = tick /\ expiry' = expiry
      BY <1>2
    <3> QED BY <2>3, <2>4, <2>6, <3>1, <3>2 DEF DeadlineInv, Quiet
  <2>12. PendingInv'
    <3>1. \A c \in Dir : phase'[c] = "idle" <=> phase[c] = "idle"
      BY <2>7
    <3>2. \A c \in Dir : At(c, "connect")' => At(c, "connect")
      BY <2>10 DEF AtSocket
    <3> QED BY <1>2, <3>1, <3>2 DEF PendingInv, Dir
  <2> QED BY <2>8, <2>9, <2>11, <2>12
<1> QED BY <1>1, <1>2 DEF OnDeadline

(* Disarm ends the wait of d and makes every handler of it stale.          *)
LEMMA Disarmed ==
  ASSUME IInv, ready # <<>>, NEW d \in Dir, Disarm(d), phase[d] # "idle"
  PROVE  /\ ready' \in Seq(Handler)
         /\ \A c \in Dir : /\ OneOp(ready', c)
                           /\ HasOp(ready', c) => HasOp(due, c)
                           /\ \A x : HasOpAt(ready', c, x) => HasOpAt(due, c, x)
                           /\ OneLive(ready', c, tick'[c])
                           /\ NoneAhead(ready', c, tick'[c])
                           /\ HasLive(ready', c, tick'[c]) => c # d /\ HasLive(due, c, tick[c])
         /\ waits' \in [Dir -> Seq(0 .. MaxOps)]
         /\ tick' \in [Dir -> 0 .. MaxOps]
         /\ timeout' \in [Dir -> BOOLEAN]
         /\ waits'[d] = <<>> /\ ~timeout'[d]
         /\ tick'[d] <= ops
         /\ \A c \in Dir : c # d => /\ waits'[c] = waits[c] /\ tick'[c] = tick[c]
                                    /\ timeout'[c] = timeout[c]
<1> USE DEF IInv
<1>1. /\ tick \in [Dir -> 0 .. MaxOps] /\ ops \in 0 .. MaxOps
      /\ waits \in [Dir -> Seq(0 .. MaxOps)] /\ timeout \in [Dir -> BOOLEAN]
      /\ tick[d] < ops
      /\ waits[d] = <<>> \/ waits[d] = <<tick[d]>>
      /\ timeout[d] => waits[d] = <<>>
  BY DEF TypeOK, PendingInv, DeadlineInv
<1>2. CASE expiry[d] = "never"
  <2>1. Quiet(d)
    BY <1>2 DEF DeadlineInv
  <2>2. ready' = due /\ UNCHANGED <<tick, waits, timeout>>
    BY <1>2 DEF Disarm
  <2> QED BY <1>1, <2>1, <2>2, AtHead DEF Quiet
<1>3. CASE expiry[d] # "never"
  <2> DEFINE w == waits[d]
             t == tick[d]
             q == due
             e == [i \in DOMAIN w |-> DeadlineHandler(d, w[i], "aborted")]
  <2>1. /\ ready' = q \o e
        /\ tick' = [tick EXCEPT ![d] = @ + 1]
        /\ waits' = [waits EXCEPT ![d] = <<>>]
        /\ timeout' = [timeout EXCEPT ![d] = @ /\ waits[d] # <<>>]
    BY <1>3 DEF Disarm
  <2>2. e = [i \in DOMAIN w |-> DeadlineHandler(d, w[i], "aborted")]
    OBVIOUS
  <2> HIDE DEF e, w, t, q
  <2>3. t \in 0 .. MaxOps /\ (w = <<>> \/ w = <<t>>)
    BY <1>1 DEF w, t
  <2>4. /\ e \in Seq(Handler)
        /\ \A c : ~HasOp(e, c) /\ OneOp(e, c)
        /\ \A c, x : ~HasOpAt(e, c, x)
        /\ \A c, u : HasLive(e, c, u) => c = d /\ u = t /\ "aborted" = "ok" /\ w # <<>>
        /\ \A c, u : OneLive(e, c, u)
        /\ \A c : \A u \in Nat : c # d \/ t <= u \/ "aborted" = "aborted" => NoneAhead(e, c, u)
    BY <2>2, <2>3, WaitEnded
  <2>5. q \in Seq(Handler) /\ \A c \in Dir : /\ OneOp(q, c)
                                             /\ OneLive(q, c, tick[c])
                                             /\ NoneAhead(q, c, tick[c])
    BY AtHead DEF q
  <2>6. \A c, u : /\ q \o e \in Seq(Handler)
                  /\ HasOp(q \o e, c) <=> HasOp(q, c) \/ HasOp(e, c)
                  /\ \A x : HasOpAt(q \o e, c, x) <=> HasOpAt(q, c, x) \/ HasOpAt(e, c, x)
                  /\ HasLive(q \o e, c, u) <=> HasLive(q, c, u) \/ HasLive(e, c, u)
                  /\ OneOp(q, c) /\ OneOp(e, c) /\ ~(HasOp(q, c) /\ HasOp(e, c)) => OneOp(q \o e, c)
                  /\ OneLive(q, c, u) /\ OneLive(e, c, u) /\ ~(HasLive(q, c, u) /\ HasLive(e, c, u))
                       => OneLive(q \o e, c, u)
                  /\ NoneAhead(q, c, u) /\ NoneAhead(e, c, u) => NoneAhead(q \o e, c, u)
    BY <2>4, <2>5, Joined
  <2>7. tick[d] \in Nat /\ tick'[d] = tick[d] + 1 /\ \A c \in Dir : c # d => tick'[c] = tick[c]
    BY <1>1, <2>1
  <2>8. ~HasLive(q, d, tick'[d]) /\ OneLive(q, d, tick'[d]) /\ NoneAhead(q, d, tick'[d])
    BY <2>5, <2>7, Ticked
  <2>9. \A c \in Dir : OneLive(q, c, tick'[c]) /\ NoneAhead(q, c, tick'[c]) /\ tick'[c] \in Nat
    <3> TAKE c \in Dir
    <3>1. CASE c = d
      BY <2>7, <2>8, <3>1
    <3>2. CASE c # d
      BY <1>1, <2>5, <2>7, <3>2
    <3> QED BY <3>1, <3>2
  <2>10. \A c \in Dir : /\ OneOp(q \o e, c)
                        /\ HasOp(q \o e, c) => HasOp(q, c)
                        /\ \A x : HasOpAt(q \o e, c, x) => HasOpAt(q, c, x)
    BY <2>4, <2>5, <2>6
  <2>11. \A c \in Dir : /\ OneLive(q \o e, c, tick'[c])
                        /\ NoneAhead(q \o e, c, tick'[c])
                        /\ HasLive(q \o e, c, tick'[c]) => c # d /\ HasLive(q, c, tick[c])
    BY <2>4, <2>6, <2>7, <2>8, <2>9
  <2>12. /\ waits' \in [Dir -> Seq(0 .. MaxOps)]
         /\ tick' \in [Dir -> 0 .. MaxOps]
         /\ timeout' \in [Dir -> BOOLEAN]
         /\ waits'[d] = <<>> /\ ~timeout'[d]
         /\ tick'[d] <= ops
         /\ \A c \in Dir : c # d => waits'[c] = waits[c] /\ timeout'[c] = timeout[c]
    <3>1. tick[d] + 1 \in 0 .. MaxOps /\ tick[d] + 1 <= ops
      BY <1>1, BasicStreamAssumption
    <3>2. tick' \in [Dir -> 0 .. MaxOps] /\ tick'[d] <= ops
      BY <1>1, <2>1, <3>1
    <3>3. /\ waits' \in [Dir -> Seq(0 .. MaxOps)] /\ waits'[d] = <<>>
          /\ \A c \in Dir : c # d => waits'[c] = waits[c]
      <4>1. <<>> \in Seq(0 .. MaxOps)
        OBVIOUS
      <4> QED BY <1>1, <2>1, <4>1
    <3>4. /\ timeout' \in [Dir -> BOOLEAN]
          /\ \A c \in Dir : c # d => timeout'[c] = timeout[c]
      BY <1>1, <2>1
    <3>5. ~timeout'[d]
      BY <1>1, <2>1
    <3> QED BY <3>2, <3>3, <3>4, <3>5
  <2>13. q \o e \in Seq(Handler)
    BY <2>6
  <2> QED BY <2>1, <2>7, <2>10, <2>11, <2>12, <2>13 DEF q
<1> QED BY <1>2, <1>3

LEMMA ResultType ==
  ASSUME IInv, NEW d \in Dir, NEW ec \in {"ok", "error", "aborted"}
  PROVE  Result(d, ec) \in {"none", "ok", "error", "aborted", "timeout"}
BY DEF Result

LEMMA OnTransferKeeps ==
  ASSUME IInv, Unlimited, ready # <<>>, Head(ready).k = "op", Head(ready).at = "io",
         OnTransfer(Head(ready))
  PROVE  IInv'
<1> USE DEF IInv
<1>0. PICK hd \in Handler : hd = Head(ready)
  BY AtHead
<1>d. PICK d \in Dir : d = hd.d
  BY <1>0, AtHead DEF Handler
<1>1. hd \in Handler /\ d \in Dir /\ hd.ec \in {"ok", "error", "aborted"} /\ hd.n \in 0 .. MaxBytes
  BY <1>0 DEF Handler
<1>2. IsOp(hd, d)
  BY <1>0, <1>d DEF IsOp
<1>3. /\ Disarm(d)
      /\ Upcall({d}, d, Result(d, hd.ec))
      /\ TransferBytes(d, hd.n)
      /\ phase' = [phase EXCEPT ![d] = "idle"]
      /\ UNCHANGED <<open, expiry, room, rateExpiry, rateWaits, waiting, over, ops>>
  BY <1>0, <1>d DEF OnTransfer
<1>4. ~HasOp(due, d) /\ phase[d] = "due"
  BY <1>1, <1>2, AtHead, <1>0
<1>5. /\ ready' \in Seq(Handler)
      /\ \A c \in Dir : /\ OneOp(ready', c)
                        /\ HasOp(ready', c) => HasOp(due, c)
                        /\ \A x : HasOpAt(ready', c, x) => HasOpAt(due, c, x)
                        /\ OneLive(ready', c, tick'[c])
                        /\ NoneAhead(ready', c, tick'[c])
                        /\ HasLive(ready', c, tick'[c]) => c # d /\ HasLive(due, c, tick[c])
      /\ waits' \in [Dir -> Seq(0 .. MaxOps)]
      /\ tick' \in [Dir -> 0 .. MaxOps]
      /\ timeout' \in [Dir -> BOOLEAN]
      /\ waits'[d] = <<>> /\ ~timeout'[d]
      /\ tick'[d] <= ops
      /\ \A c \in Dir : c # d => /\ waits'[c] = waits[c] /\ tick'[c] = tick[c]
                                 /\ timeout'[c] = timeout[c]
  BY <1>1, <1>3, <1>4, Disarmed
<1>6. /\ phase'[d] = "idle"
      /\ pending' = [e \in Dir |-> pending[e] /\ e # d]
      /\ \A c \in Dir : c # d => phase'[c] = phase[c]
  BY <1>1, <1>3 DEF TypeOK, Upcall
<1>7. TypeOK'
  <2>1. pending' \in [Dir -> BOOLEAN]
    BY <1>6
  <2>2. last' \in [Dir -> {"none", "ok", "error", "aborted", "timeout"}]
    BY <1>1, <1>3, ResultType DEF TypeOK, Upcall
  <2>3. remain' \in [Dir -> 0 .. Limit] /\ sliced' \in [Dir -> Nat]
    <3>1. hd.n \in Nat
      BY <1>1, BasicStreamAssumption
    <3>2. remain' = remain /\ sliced' = [sliced EXCEPT ![d] = @ + hd.n]
      BY <1>3 DEF TransferBytes, Unlimited
    <3> QED BY <1>1, <3>1, <3>2 DEF TypeOK
  <2>4. phase' \in [Dir -> {"idle", "rate", "due"} \cup AtSocket]
    BY <1>3 DEF TypeOK
  <2> QED BY <1>3, <1>5, <2>1, <2>2, <2>3, <2>4 DEF TypeOK
<1>8. HandlersInv'
  BY <1>3, <1>4, <1>5, <1>6, AtHead DEF HandlersInv
<1>9. \A c \in Dir : \A x : c # d /\ At(c, x)' => At(c, x)
  BY <1>5, <1>6, AtHead DEF At
<1>10. \A x \in AtSocket : ~At(d, x)'
  BY <1>4, <1>5, <1>6, <1>1, HasOpAtHasOp DEF At, AtSocket
<1>11. DeadlineInv'
  <2> SUFFICES ASSUME NEW c \in Dir
               PROVE  /\ waits'[c] = <<>> \/ waits'[c] = <<tick'[c]>>
                      /\ HasLive(ready', c, tick'[c]) => waits'[c] = <<>>
                      /\ timeout'[c] => waits'[c] = <<>> /\ ~HasLive(ready', c, tick'[c]) /\ ~open
                      /\ phase'[c] = "idle" \/ At(c, "noop")' \/ expiry[c] = "never"
                           => waits'[c] = <<>> /\ ~timeout'[c] /\ ~HasLive(ready', c, tick'[c])
    BY <1>3 DEF DeadlineInv, Quiet
  <2>1. CASE c = d
    BY <1>5, <2>1
  <2>2. CASE c # d
    <3>1. /\ waits'[c] = waits[c] /\ tick'[c] = tick[c] /\ timeout'[c] = timeout[c]
          /\ phase'[c] = phase[c]
          /\ HasLive(ready', c, tick'[c]) => HasLive(ready, c, tick[c])
          /\ At(c, "noop")' => At(c, "noop")
      BY <1>5, <1>6, <1>9, <2>2, AtHead
    <3> QED BY <3>1 DEF DeadlineInv, Quiet
  <2> QED BY <2>1, <2>2
<1>12. PendingInv'
  <2>1. \A c \in Dir : At(c, "connect")' => At(c, "connect") /\ c # d
    BY <1>9, <1>10 DEF AtSocket
  <2>2. \A c \in Dir : At(c, "connect") => d # "read"
    BY <1>4 DEF PendingInv
  <2>3. "read" \in Dir /\ pending \in [Dir -> BOOLEAN]
    BY DEF Dir, TypeOK
  <2>4. ops' = ops
    BY <1>3
  <2>5. \A c \in Dir : /\ phase'[c] # "idle" => pending'[c] /\ tick'[c] < ops
                       /\ tick'[c] <= ops
    BY <1>5, <1>6 DEF PendingInv
  <2>6. \A c \in Dir : At(c, "connect")' => c = "write" /\ phase'["read"] = "idle" /\ pending'["read"]
    BY <1>6, <2>1, <2>2, <2>3 DEF PendingInv
  <2> QED BY <2>4, <2>5, <2>6 DEF PendingInv
<1> QED BY <1>7, <1>8, <1>11, <1>12

LEMMA OnConnectKeeps ==
  ASSUME IInv, ready # <<>>, Head(ready).k = "op", Head(ready).at = "connect",
         OnConnect(Head(ready))
  PROVE  IInv'
<1> USE DEF IInv
<1>0. PICK hd \in Handler : hd = Head(ready)
  BY AtHead
<1>d. PICK d \in Dir : d = hd.d
  BY <1>0, AtHead DEF Handler
<1>1. hd \in Handler /\ d \in Dir /\ hd.ec \in {"ok", "error", "aborted"}
  BY <1>0 DEF Handler
<1>2. IsOp(hd, d) /\ IsOpAt(hd, d, "connect")
  BY <1>0, <1>d DEF IsOp, IsOpAt
<1>3. /\ Disarm("write")
      /\ Upcall(Dir, "write", Result("write", hd.ec))
      /\ phase' = [phase EXCEPT !["write"] = "idle"]
      /\ UNCHANGED <<open, expiry, room, rateVars, ops>>
  BY <1>0, <1>d DEF OnConnect
<1>4. d = "write" /\ phase["read"] = "idle" /\ ~HasOp(due, "write") /\ phase["write"] = "due"
  <2>1. At(d, "connect")
    BY <1>1, <1>2, AtHead, <1>0 DEF At
  <2>2. d = "write" /\ phase["read"] = "idle"
    BY <1>1, <2>1 DEF PendingInv
  <2>3. ~HasOp(due, d) /\ phase[d] = "due"
    BY <1>1, <1>2, AtHead, <1>0
  <2> QED BY <2>2, <2>3
<1>5. "write" \in Dir /\ "read" \in Dir /\ \A c \in Dir : c = "read" \/ c = "write"
  BY DEF Dir
<1>6. /\ ready' \in Seq(Handler)
      /\ \A c \in Dir : /\ OneOp(ready', c)
                        /\ HasOp(ready', c) => HasOp(due, c)
                        /\ \A x : HasOpAt(ready', c, x) => HasOpAt(due, c, x)
                        /\ OneLive(ready', c, tick'[c])
                        /\ NoneAhead(ready', c, tick'[c])
                        /\ HasLive(ready', c, tick'[c]) => c # "write" /\ HasLive(due, c, tick[c])
      /\ waits' \in [Dir -> Seq(0 .. MaxOps)]
      /\ tick' \in [Dir -> 0 .. MaxOps]
      /\ timeout' \in [Dir -> BOOLEAN]
      /\ waits'["write"] = <<>> /\ ~timeout'["write"]
      /\ tick'["write"] <= ops
      /\ \A c \in Dir : c # "write" => /\ waits'[c] = waits[c] /\ tick'[c] = tick[c]
                                       /\ timeout'[c] = timeout[c]
  BY <1>3, <1>4, <1>5, Disarmed
<1>7. \A c \in Dir : phase'[c] = "idle" /\ ~HasOp(ready', c)
  <2>1. \A c \in Dir : phase'[c] = "idle"
    BY <1>3, <1>4, <1>5 DEF TypeOK
  <2>2. ~HasOp(due, "read")
    BY <1>4, <1>5, AtHead
  <2> QED BY <1>4, <1>5, <1>6, <2>1, <2>2
<1>8. \A c \in Dir : \A x \in AtSocket : ~At(c, x)'
  BY <1>7, HasOpAtHasOp DEF At, AtSocket
<1>9. \A c \in Dir : waits'[c] = <<>> /\ ~timeout'[c] /\ ~HasLive(ready', c, tick'[c])
  <2>1. Quiet("read")
    BY <1>4, <1>5 DEF DeadlineInv
  <2>2. waits'["read"] = <<>> /\ ~timeout'["read"] /\ ~HasLive(ready', "read", tick'["read"])
    BY <1>5, <1>6, <2>1, AtHead DEF Quiet
  <2> QED BY <1>5, <1>6, <2>2
<1>10. TypeOK'
  <2>1. pending' \in [Dir -> BOOLEAN]
    BY <1>3 DEF Upcall, TypeOK
  <2>2. last' \in [Dir -> {"none", "ok", "error", "aborted", "timeout"}]
    BY <1>1, <1>3, <1>5, ResultType DEF TypeOK, Upcall
  <2>3. phase' \in [Dir -> {"idle", "rate", "due"} \cup AtSocket]
    BY <1>3 DEF TypeOK
  <2> QED BY <1>3, <1>6, <2>1, <2>2, <2>3 DEF TypeOK, rateVars
<1>11. HandlersInv'
  BY <1>3, <1>6, <1>7 DEF HandlersInv, rateVars
<1>12. DeadlineInv'
  BY <1>9 DEF DeadlineInv, Quiet
<1>13. PendingInv'
  <2>1. \A c \in Dir : tick'[c] <= ops
    BY <1>5, <1>6 DEF PendingInv
  <2> QED BY <1>3, <1>7, <1>8, <2>1 DEF PendingInv, AtSocket
<1> QED BY <1>10, <1>11, <1>12, <1>13

LEMMA OnNoopKeeps ==
  ASSUME IInv, ready # <<>>, Head(ready).k = "op", Head(ready).at = "noop",
         OnNoop(Head(ready))
  PROVE  IInv'
<1> USE DEF IInv
<1>0. PICK hd \in Handler : hd = Head(ready)
  BY AtHead
<1>d. PICK d \in Dir : d = hd.d
  BY <1>0 DEF Handler
<1> DEFINE ph == [phase EXCEPT ![d] = "idle"]
<1>1. hd \in Handler /\ d \in Dir /\ hd.ec \in {"ok", "error", "aborted"}
  BY <1>0 DEF Handler
<1>2. IsOp(hd, d) /\ IsOpAt(hd, d, "noop")
  BY <1>0, <1>d DEF IsOp, IsOpAt
<1>3. /\ \/ CancelAll(due, ph) /\ open' = FALSE
         \/ ready' = due /\ phase' = ph /\ UNCHANGED <<open, rateWaits>>
      /\ \E ec \in {"ok", "error", "aborted", "timeout"} : Upcall({d}, d, ec)
      /\ UNCHANGED <<timerVars, room, rateExpiry, waiting, remain, sliced, over, ops>>
  BY <1>0, <1>d, <1>1 DEF OnNoop, CloseImpl
<1>4. ~HasOp(due, d) /\ phase[d] = "due" /\ Quiet(d)
  <2>1. At(d, "noop")
    BY <1>1, <1>2, AtHead, <1>0 DEF At
  <2>2. Quiet(d)
    BY <1>1, <2>1 DEF DeadlineInv
  <2> QED BY <1>1, <1>2, <2>2, AtHead, <1>0
<1>5. /\ ph \in [Dir -> {"idle", "due"} \cup AtSocket]
      /\ ph[d] = "idle"
      /\ \A c \in Dir : c # d => ph[c] = phase[c]
  BY <1>1 DEF TypeOK, HandlersInv
<1> HIDE DEF ph
<1>6. /\ due \in Seq(Handler)
      /\ rateWaits = <<>>
      /\ \A c \in Dir : OneOp(due, c) /\ (HasOp(due, c) => ph[c] = "due")
  BY <1>4, <1>5, AtHead DEF HandlersInv
<1>7. /\ ready' \in Seq(Handler)
      /\ rateWaits' = <<>>
      /\ phase' \in [Dir -> {"idle", "due"} \cup AtSocket]
      /\ \A c \in Dir : /\ phase'[c] = "idle" <=> ph[c] = "idle"
                        /\ OneOp(ready', c)
                        /\ HasOp(ready', c) => phase'[c] = "due"
      /\ \A c \in Dir : \A x \in AtSocket : At(c, x)' => HasOpAt(due, c, x) \/ ph[c] = x
      /\ \A c \in Dir : /\ HasLive(ready', c, tick[c]) => HasLive(due, c, tick[c])
                        /\ OneLive(due, c, tick[c]) => OneLive(ready', c, tick[c])
                        /\ NoneAhead(due, c, tick[c]) => NoneAhead(ready', c, tick[c])
  <2>1. CASE CancelAll(due, ph)
    <3>1. /\ ready' \in Seq(Handler)
          /\ rateWaits' = <<>>
          /\ phase' \in [Dir -> {"idle", "due"}]
          /\ \A c \in Dir : /\ phase'[c] = "idle" <=> ph[c] = "idle"
                            /\ OneOp(ready', c)
                            /\ HasOp(ready', c) => phase'[c] = "due"
          /\ \A c \in Dir : \A x \in AtSocket :
               HasOpAt(ready', c, x) <=> HasOpAt(due, c, x) \/ ph[c] = x
          /\ \A c \in Dir : \A t : /\ HasLive(ready', c, t) => HasLive(due, c, t)
                                   /\ OneLive(due, c, t) => OneLive(ready', c, t)
                                   /\ NoneAhead(due, c, t) => NoneAhead(ready', c, t)
      BY <1>5, <1>6, <2>1, Cancelled
    <3>2. \A c \in Dir : \A x \in AtSocket : At(c, x)' => HasOpAt(due, c, x) \/ ph[c] = x
      BY <3>1 DEF At, AtSocket
    <3>3. phase' \in [Dir -> {"idle", "due"} \cup AtSocket]
      BY <3>1
    <3> QED BY <3>1, <3>2, <3>3
  <2>2. CASE ready' = due /\ phase' = ph /\ UNCHANGED <<open, rateWaits>>
    BY <1>5, <1>6, <2>2 DEF At
  <2> QED BY <1>3, <2>1, <2>2
<1>8. pending' = [e \in Dir |-> pending[e] /\ e # d] /\ (open' = open \/ open' = FALSE)
  BY <1>3 DEF Upcall
<1>9. TypeOK'
  <2>1. pending' \in [Dir -> BOOLEAN] /\ open' \in BOOLEAN
    BY <1>8 DEF TypeOK
  <2>2. last' \in [Dir -> {"none", "ok", "error", "aborted", "timeout"}]
    BY <1>1, <1>3 DEF TypeOK, Upcall
  <2>3. phase' \in [Dir -> {"idle", "rate", "due"} \cup AtSocket]
    BY <1>7
  <2>4. rateWaits' \in Seq(Dir \cup {"slice"})
    BY <1>7
  <2> QED BY <1>3, <2>1, <2>2, <2>3, <2>4 DEF TypeOK, timerVars
<1>10. HandlersInv'
  <2>1. \A c \in Dir : phase'[c] # "rate"
    BY <1>7 DEF AtSocket
  <2> QED BY <1>3, <1>7, <2>1, AtHead DEF HandlersInv, timerVars
<1>11. \A c \in Dir : \A x \in AtSocket : At(c, x)' => c # d /\ At(c, x)
  <2>1. \A x \in AtSocket : ~At(d, x)'
    BY <1>1, <1>4, <1>5, <1>7, HasOpAtHasOp DEF AtSocket
  <2>2. \A c \in Dir : \A x \in AtSocket : c # d /\ At(c, x)' => At(c, x)
    BY <1>5, <1>7, AtHead DEF At
  <2> QED BY <2>1, <2>2
<1>12. DeadlineInv'
  <2> SUFFICES ASSUME NEW c \in Dir
               PROVE  /\ waits[c] = <<>> \/ waits[c] = <<tick[c]>>
                      /\ HasLive(ready', c, tick[c]) => waits[c] = <<>>
                      /\ timeout[c] => waits[c] = <<>> /\ ~HasLive(ready', c, tick[c]) /\ ~open'
                      /\ phase'[c] = "idle" \/ At(c, "noop")' \/ expiry[c] = "never"
                           => waits[c] = <<>> /\ ~timeout[c] /\ ~HasLive(ready', c, tick[c])
    BY <1>3 DEF DeadlineInv, Quiet, timerVars
  <2>1. HasLive(ready', c, tick[c]) => HasLive(ready, c, tick[c])
    BY <1>7, AtHead
  <2>2. CASE c = d
    BY <1>4, <2>1, <2>2 DEF Quiet
  <2>3. CASE c # d
    <3>1. phase'[c] = "idle" => phase[c] = "idle"
      BY <1>5, <1>7, <2>3
    <3>2. At(c, "noop")' => At(c, "noop")
      BY <1>11 DEF AtSocket
    <3> QED BY <1>8, <2>1, <3>1, <3>2 DEF DeadlineInv, Quiet
  <2> QED BY <2>2, <2>3
<1>13. PendingInv'
  <2>1. \A c \in Dir : At(c, "connect")' => c # d /\ At(c, "connect")
    BY <1>11 DEF AtSocket
  <2>2. \A c \in Dir : phase'[c] # "idle" => c # d /\ phase[c] # "idle"
    BY <1>5, <1>7
  <2>3. \A c \in Dir : At(c, "connect") => d # "read"
    BY <1>4 DEF PendingInv
  <2>4. "read" \in Dir /\ \A c \in Dir : phase[c] = "idle" => phase'[c] = "idle"
    BY <1>5, <1>7 DEF Dir
  <2>5. ops' = ops /\ tick' = tick
    BY <1>3 DEF timerVars
  <2> QED BY <1>8, <2>1, <2>2, <2>3, <2>4, <2>5 DEF PendingInv
<1> QED BY <1>9, <1>10, <1>12, <1>13

LEMMA NextKeeps ==
  ASSUME IInv, Unlimited, [Next]_vars
  PROVE  IInv'
<1>1. CASE ExpiresAfter \/ ExpiresAt \/ ExpiresNever
  BY <1>1, SetExpiryKeeps DEF ExpiresAfter, ExpiresAt, ExpiresNever
<1>2. CASE Cancel \/ Close
  BY <1>2, CancelKeeps
<1>3. CASE StartConnect
  BY <1>3, StartConnectKeeps
<1>4. CASE \E d \in Dir, n \in 0 .. MaxBytes : StartTransfer(d, n)
  BY <1>4, StartTransferKeeps
<1>5. CASE RunHandler
  <2>1. ready # <<>> /\ Head(ready) \in Handler
    BY <1>5, AtHead DEF RunHandler
  <2>2. Head(ready).k # "slice" /\ (Head(ready).k = "op" => Head(ready).at # "rate")
    BY <2>1 DEF Handler, AtSocket
  <2>3. CASE Head(ready).k = "deadline" /\ OnDeadline(Head(ready))
    BY <2>1, <2>3, OnDeadlineKeeps
  <2>4. CASE Head(ready).k = "op" /\ Head(ready).at = "io" /\ OnTransfer(Head(ready))
    BY <2>1, <2>4, OnTransferKeeps
  <2>5. CASE Head(ready).k = "op" /\ Head(ready).at = "noop" /\ OnNoop(Head(ready))
    BY <2>1, <2>5, OnNoopKeeps
  <2>6. CASE Head(ready).k = "op" /\ Head(ready).at = "connect" /\ OnConnect(Head(ready))
    BY <2>1, <2>6, OnConnectKeeps
  <2> QED BY <1>5, <2>2, <2>3, <2>4, <2>5, <2>6 DEF RunHandler
<1>6. CASE RateExpire
  <2>1. /\ rateExpiry' = "past"
        /\ UNCHANGED <<open, pending, timerVars, phase, room, rateWaits, waiting, remain, ready,
                       ops, sliced, over, last>>
    BY <1>6 DEF RateExpire
  <2> QED BY <2>1 DEF IInv, TypeOK, HandlersInv, DeadlineInv, PendingInv, Quiet, At, timerVars
<1>7. CASE RateDue
  BY <1>7 DEF RateDue, IInv, HandlersInv
<1>8. CASE \E d \in Dir : SocketDone(d) \/ Expire(d) \/ DeadlineDue(d)
  BY <1>8, SocketDoneKeeps, ExpireKeeps, DeadlineDueKeeps
<1>9. CASE UNCHANGED vars
  BY <1>9 DEF IInv, TypeOK, HandlersInv, DeadlineInv, PendingInv, Quiet, At, vars
<1> QED BY <1>1, <1>2, <1>3, <1>4, <1>5, <1>6, <1>7, <1>8, <1>9 DEF Next, User

------------------------------------------------------------------------------
(* The inductive invariant of basic_stream: which handlers are due, and    *)
(* what each deadline can still do.                                        *)
THEOREM StreamInvariant == ASSUME Unlimited PROVE Spec => []IInv
<1>1. IInv /\ [Next]_vars => IInv'
  BY NextKeeps
<1> QED BY Initially, <1>1, PTL DEF Spec

(* Type correctness of basic_stream, for buffers of any size.              *)
THEOREM StreamTypeCorrect == ASSUME Unlimited PROVE Spec => []TypeOK
<1>1. IInv => TypeOK
  BY DEF IInv
<1> QED BY StreamInvariant, <1>1, PTL

(* No operation leaves a wait on its deadline behind                       *)
(* (impl/basic_stream.hpp, the BOOST_VERIFY of expires_after and reset).   *)
THEOREM LeavesNoWait == ASSUME Unlimited PROVE Spec => []NoWaitLeft
<1>1. IInv => NoWaitLeft
  BY DEF IInv, NoWaitLeft, PendingInv, DeadlineInv, Quiet
<1> QED BY StreamInvariant, <1>1, PTL

(* A timeout is told to the operation whose deadline passed, even if its   *)
(* handler lost the race against the end of the operation.                 *)
THEOREM TimesOutItsOwn == ASSUME Unlimited PROVE Spec => []TimeoutHasOp
<1>1. IInv => TimeoutHasOp
  <2> SUFFICES ASSUME IInv, NEW d \in Dir
               PROVE  /\ timeout[d] => pending[d] /\ waits[d] = <<>>
                      /\ \A i \in DOMAIN ready :
                           (/\ ready[i].k = "deadline" /\ ready[i].d = d
                            /\ ready[i].ec = "ok" /\ ready[i].tick = tick[d])
                             => pending[d] /\ ~timeout[d]
    BY DEF TimeoutHasOp
  <2>1. pending[d] \/ Quiet(d)
    BY DEF IInv, PendingInv, DeadlineInv
  <2>2. timeout[d] => waits[d] = <<>> /\ ~HasLive(ready, d, tick[d])
    BY DEF IInv, DeadlineInv
  <2>3. ASSUME NEW i \in DOMAIN ready,
               ready[i].k = "deadline" /\ ready[i].d = d,
               ready[i].ec = "ok" /\ ready[i].tick = tick[d]
        PROVE  HasLive(ready, d, tick[d])
    <3>1. i \in 1 .. Len(ready)
      BY ReadyType
    <3> QED BY <2>3, <3>1 DEF HasLive, IsLive
  <2> QED BY <2>1, <2>2, <2>3 DEF Quiet
<1> QED BY StreamInvariant, <1>1, PTL

------------------------------------------------------------------------------
(* The refinement: each action of the stream is one of TimedStream or a    *)
(* stutter.  The runs of handlers that end an operation are End.           *)
HasDeadline == [d \in Dir |-> expiry[d] # "never"]

LEMMA SameDir == Timed!Dir = Dir
BY DEF Timed!Dir, Dir

LEMMA StepRefines ==
  ASSUME IInv, IInv', Unlimited, [Next]_vars
  PROVE  [Timed!Next]_(Timed!vars)
<1> USE SameDir DEF IInv
<1>1. ASSUME NEW x \in {"never", "future", "past"}, SetExpiry(x)
      PROVE  Timed!SetDeadline
  <2>1. /\ expiry' = [d \in Dir |-> IF pending[d] THEN expiry[d] ELSE x]
        /\ UNCHANGED <<open, pending, last>>
    BY <1>1 DEF SetExpiry
  <2>2. HasDeadline' = [d \in Dir |-> IF pending[d] THEN HasDeadline[d] ELSE x # "never"]
    BY <2>1 DEF HasDeadline
  <2>3. (x # "never") \in BOOLEAN
    OBVIOUS
  <2> QED BY <2>1, <2>2, <2>3 DEF Timed!SetDeadline, HasDeadline
<1>2. CASE Cancel
  BY <1>2 DEF Cancel, timerVars, Timed!vars
<1>3. CASE Close
  BY <1>3 DEF Close, CloseImpl, timerVars, Timed!Close, Timed!Next
<1>4. CASE StartConnect
  BY <1>4 DEF StartConnect, Timed!Connect, Timed!Next, Dir
<1>5. ASSUME NEW d \in Dir, NEW n \in 0 .. MaxBytes, StartTransfer(d, n)
      PROVE  Timed!Begin(d)
  BY <1>5 DEF StartTransfer, Timed!Begin
<1>6. ASSUME NEW d \in Dir, SocketDone(d) \/ Expire(d) \/ DeadlineDue(d)
      PROVE  UNCHANGED Timed!vars
  <2>1. CASE SocketDone(d)
    BY <2>1 DEF SocketDone, timerVars, Timed!vars
  <2>2. CASE Expire(d)
    <3>1. /\ expiry[d] = "future" /\ expiry' = [expiry EXCEPT ![d] = "past"]
          /\ UNCHANGED <<open, pending, last>>
      BY <2>2 DEF Expire
    <3>2. HasDeadline' = HasDeadline
      BY <3>1 DEF HasDeadline, TypeOK
    <3> QED BY <3>1, <3>2 DEF Timed!vars, HasDeadline
  <2>3. CASE DeadlineDue(d)
    BY <2>3 DEF DeadlineDue, Timed!vars
  <2> QED BY <1>6, <2>1, <2>2, <2>3
<1>7. CASE RateExpire \/ RateDue
  BY <1>7 DEF RateExpire, RateDue, timerVars, Timed!vars
<1>8. ASSUME ready # <<>>, Head(ready).k = "deadline", OnDeadline(Head(ready))
      PROVE  UNCHANGED Timed!vars \/ \E d \in Dir : Timed!Expire(d)
  <2>1. CASE UNCHANGED <<open, pending, timerVars, last>>
    BY <2>1 DEF timerVars, Timed!vars
  <2>2. CASE /\ Head(ready).ec = "ok" /\ Head(ready).tick = tick[Head(ready).d]
             /\ CloseImpl(due, phase) /\ UNCHANGED <<pending, expiry, last>>
    <3>1. PICK d \in Dir : d = Head(ready).d
      BY <1>8, AtHead DEF Handler
    <3>2. IsLive(Head(ready), d, tick[d])
      BY <1>8, <2>2, <3>1 DEF IsLive
    <3>3. HasLive(ready, d, tick[d])
      BY <1>8, <3>2, AtHead
    <3>4. pending[d] /\ expiry[d] # "never"
      BY <3>3 DEF DeadlineInv, PendingInv, Quiet
    <3> QED BY <2>2, <3>4 DEF CloseImpl, Timed!Expire
  <2> QED BY <1>8, <2>1, <2>2 DEF OnDeadline
<1>9. ASSUME ready # <<>>, NEW d \in Dir, IsOp(Head(ready), d)
      PROVE  /\ phase[d] = "due" /\ pending[d]
             /\ Head(ready).ec \in {"ok", "error", "aborted"}
             /\ \A ec \in {"ok", "error", "aborted"} :
                  /\ Result(d, ec) \in {"ok", "error", "aborted", "timeout"}
                  /\ Result(d, ec) = "timeout" => expiry[d] # "never" /\ ~open
  <2>1. phase[d] = "due" /\ Head(ready) \in Handler
    BY <1>9, AtHead
  <2>2. Head(ready).ec \in {"ok", "error", "aborted"}
    BY <1>9, <2>1 DEF Handler, IsOp
  <2>3. pending[d]
    BY <2>1 DEF PendingInv
  <2>4. timeout[d] => ~open
    BY DEF DeadlineInv
  <2> QED BY <2>1, <2>2, <2>3, <2>4 DEF Result
<1>10. ASSUME ready # <<>>, Head(ready).k = "op", Head(ready).at = "io", OnTransfer(Head(ready))
       PROVE  \E d \in Dir : Timed!End(d)
  <2>1. PICK d \in Dir : d = Head(ready).d
    BY <1>10, AtHead DEF Handler
  <2>2. IsOp(Head(ready), d)
    BY <1>10, <2>1 DEF IsOp
  <2>3. PICK ec \in {"ok", "error", "aborted", "timeout"} :
          /\ Upcall({d}, d, ec)
          /\ ec = "timeout" => expiry[d] # "never" /\ ~open
    BY <1>9, <1>10, <2>1, <2>2 DEF OnTransfer
  <2>4. open' = open /\ expiry' = expiry /\ pending[d]
    BY <1>9, <1>10, <2>2 DEF OnTransfer
  <2>5. pending' = [pending EXCEPT ![d] = FALSE]
    BY <2>3 DEF Upcall, TypeOK
  <2> QED BY <2>3, <2>4, <2>5 DEF Upcall, Timed!End
<1>11. ASSUME ready # <<>>, Head(ready).k = "op", Head(ready).at = "noop", OnNoop(Head(ready))
       PROVE  \E d \in Dir : Timed!End(d)
  <2>1. PICK d \in Dir : d = Head(ready).d
    BY <1>11, AtHead DEF Handler
  <2>2. IsOp(Head(ready), d)
    BY <1>11, <2>1 DEF IsOp
  <2>3. PICK ec \in {"ok", "error", "aborted", "timeout"} :
          /\ Upcall({d}, d, ec)
          /\ ec = "timeout" => expiry[d] # "never" /\ open' = FALSE
          /\ ec # "timeout" => open' = open
          /\ open' = open \/ open' = FALSE
    BY <1>9, <1>11, <2>1, <2>2 DEF OnNoop, CloseImpl
  <2>4. expiry' = expiry /\ pending[d]
    BY <1>9, <1>11, <2>2 DEF OnNoop, timerVars
  <2>5. pending' = [pending EXCEPT ![d] = FALSE]
    BY <2>3 DEF Upcall, TypeOK
  <2> QED BY <2>3, <2>4, <2>5 DEF Upcall, Timed!End
<1>12. ASSUME ready # <<>>, Head(ready).k = "op", Head(ready).at = "connect", OnConnect(Head(ready))
       PROVE  \E d \in Dir : Timed!End(d)
  <2>1. PICK d \in Dir : d = Head(ready).d
    BY <1>12, AtHead DEF Handler
  <2>2. IsOp(Head(ready), d) /\ IsOpAt(Head(ready), d, "connect")
    BY <1>12, <2>1 DEF IsOp, IsOpAt
  <2>3. d = "write"
    <3>1. At(d, "connect")
      BY <1>12, <2>2, AtHead DEF At
    <3> QED BY <3>1 DEF PendingInv
  <2>4. PICK ec \in {"ok", "error", "aborted", "timeout"} :
          /\ Upcall(Dir, "write", ec)
          /\ ec = "timeout" => expiry["write"] # "never" /\ ~open
    BY <1>9, <1>12, <2>2, <2>3 DEF OnConnect
  <2>5. open' = open /\ expiry' = expiry /\ pending["write"]
    BY <1>9, <1>12, <2>2, <2>3 DEF OnConnect
  <2>6. pending' = [e \in Dir |-> FALSE]
    BY <2>4 DEF Upcall
  <2> QED BY <2>3, <2>4, <2>5, <2>6 DEF Upcall, Timed!End
<1>13. CASE RunHandler
  <2>1. ready # <<>> /\ Head(ready) \in Handler
    BY <1>13, AtHead DEF RunHandler
  <2>2. Head(ready).k # "slice" /\ (Head(ready).k = "op" => Head(ready).at # "rate")
    BY <2>1 DEF Handler, AtSocket
  <2> QED BY <1>8, <1>10, <1>11, <1>12, <1>13, <2>1, <2>2 DEF RunHandler, Timed!Next
<1>14. CASE UNCHANGED vars
  BY <1>14 DEF vars, Timed!vars
<1>15. CASE ExpiresAfter \/ ExpiresAt \/ ExpiresNever
  BY <1>1, <1>15 DEF ExpiresAfter, ExpiresAt, ExpiresNever, Timed!Next
<1>16. CASE Close \/ StartConnect \/ \E d \in Dir, n \in 0 .. MaxBytes : StartTransfer(d, n)
  BY <1>3, <1>4, <1>5, <1>16 DEF Timed!Next
<1> QED BY <1>2, <1>6, <1>7, <1>13, <1>14, <1>15, <1>16 DEF Next, User

(* A stream without a rate limit implements TimedStream: only its user, or *)
(* the deadline of an operation that is pending, closes the socket, and    *)
(* only a deadline that passed is reported as a timeout.                   *)
THEOREM StreamRefinesTimed == ASSUME Unlimited PROVE Spec => ImplementsTimed
<1>1. Init => Timed!Init
  BY SameDir DEF Init, Timed!Init
<1>2. IInv /\ IInv' /\ [Next]_vars => [Timed!Next]_(Timed!vars)
  BY StepRefines
<1> QED BY StreamInvariant, <1>1, <1>2, PTL DEF Spec, ImplementsTimed, Timed!Spec

------------------------------------------------------------------------------
(***************************************************************************)
(* The rate policy, limited or not.                                        *)
(***************************************************************************)
PacedHandler ==
  [k : {"op"}, d : Dir, at : AtSocket \cup {"rate"}, ec : {"ok", "error", "aborted"},
   n : 0 .. MaxBytes]
    \cup [k : {"deadline"}, d : Dir, tick : Nat, ec : {"ok", "aborted"}]
    \cup [k : {"slice"}, ec : {"ok", "aborted"}]

(* No transfer of d that is due has more than m bytes.                     *)
Within(r, d, m) == \A i \in 1 .. Len(r) : IsOpAt(r[i], d, "io") => r[i].n <= m

(* d waits on the rate timer, in one place.                                *)
Waiter(w, d)    == \E i \in 1 .. Len(w) : w[i] = d
OneWaiter(w, d) == \A i, j \in 1 .. Len(w) : w[i] = d /\ w[j] = d => i = j

PacedType ==
  /\ pending \in [Dir -> BOOLEAN]
  /\ tick \in [Dir -> Nat]
  /\ waits \in [Dir -> Seq(Nat)]
  /\ phase \in [Dir -> {"idle", "rate", "due"} \cup AtSocket]
  /\ room \in [Dir -> 0 .. MaxBytes]
  /\ remain \in [Dir -> 0 .. Limit]
  /\ sliced \in [Dir -> Nat]
  /\ over \in [Dir -> Nat]
  /\ rateWaits \in Seq(Dir \cup {"slice"})
  /\ ready \in Seq(PacedHandler)

(* An operation is in one place: at the socket, on the rate timer, or its  *)
(* handler is due.                                                         *)
InOnePlace ==
  \A d \in Dir :
    /\ OneOp(ready, d)
    /\ HasOp(ready, d) => phase[d] = "due"
    /\ OneWaiter(rateWaits, d)
    /\ Waiter(rateWaits, d) => phase[d] = "rate"
    /\ phase[d] # "idle" => pending[d]
    /\ At(d, "connect") => d = "write" /\ phase["read"] = "idle" /\ pending["read"]

(* What a transfer may take, and what remains of the slice, is within the  *)
(* limit and what was granted beyond it.                                   *)
WithinLimit ==
  \A d \in Dir :
    /\ Within(ready, d, room[d])
    /\ Limited => sliced[d] + remain[d] <= Limit + over[d]
    /\ Limited /\ At(d, "io") => room[d] <= Limit /\ sliced[d] + room[d] <= Limit + over[d]

PaceInv == PacedType /\ InOnePlace /\ WithinLimit

LEMMA PacedJoined ==
  ASSUME NEW r \in Seq(PacedHandler), NEW e \in Seq(PacedHandler)
  PROVE  /\ r \o e \in Seq(PacedHandler)
         /\ \A d : /\ HasOp(r \o e, d) <=> HasOp(r, d) \/ HasOp(e, d)
                   /\ \A x : HasOpAt(r \o e, d, x) <=> HasOpAt(r, d, x) \/ HasOpAt(e, d, x)
                   /\ OneOp(r, d) /\ OneOp(e, d) /\ ~(HasOp(r, d) /\ HasOp(e, d)) => OneOp(r \o e, d)
                   /\ \A m : Within(r, d, m) /\ Within(e, d, m) => Within(r \o e, d, m)
<1> DEFINE s == r \o e
<1>1. s \in Seq(PacedHandler) /\ Len(s) = Len(r) + Len(e) /\ Len(r) \in Nat /\ Len(e) \in Nat
  OBVIOUS
<1>2. \A i \in 1 .. Len(r) : i \in 1 .. Len(s) /\ s[i] = r[i]
  OBVIOUS
<1>3. \A i \in 1 .. Len(e) : Len(r) + i \in 1 .. Len(s) /\ s[Len(r) + i] = e[i]
  OBVIOUS
<1>4. \A i \in 1 .. Len(s) : \/ i \in 1 .. Len(r) /\ s[i] = r[i]
                             \/ /\ i \notin 1 .. Len(r)
                                /\ i - Len(r) \in 1 .. Len(e)
                                /\ s[i] = e[i - Len(r)]
  OBVIOUS
<1> HIDE DEF s
<1>5. \A d : HasOp(s, d) <=> HasOp(r, d) \/ HasOp(e, d)
  BY <1>1, <1>2, <1>3, <1>4 DEF HasOp
<1>6. \A d, x : HasOpAt(s, d, x) <=> HasOpAt(r, d, x) \/ HasOpAt(e, d, x)
  BY <1>1, <1>2, <1>3, <1>4 DEF HasOpAt
<1>7. ASSUME NEW d, OneOp(r, d), OneOp(e, d), ~(HasOp(r, d) /\ HasOp(e, d)) PROVE OneOp(s, d)
  <2> SUFFICES ASSUME NEW i \in 1 .. Len(s), NEW j \in 1 .. Len(s), IsOp(s[i], d), IsOp(s[j], d)
               PROVE  i = j
    BY DEF OneOp
  <2>1. i \in 1 .. Len(r) \/ j \in 1 .. Len(r) => i \in 1 .. Len(r) /\ j \in 1 .. Len(r)
    BY <1>4, <1>7 DEF HasOp
  <2>2. CASE i \in 1 .. Len(r) /\ j \in 1 .. Len(r)
    BY <1>4, <1>7, <2>2 DEF OneOp
  <2>3. CASE i \notin 1 .. Len(r) /\ j \notin 1 .. Len(r)
    <3>1. i - Len(r) = j - Len(r)
      BY <1>4, <1>7, <2>3 DEF OneOp
    <3> QED BY <1>1, <3>1
  <2> QED BY <2>1, <2>2, <2>3
<1>8. ASSUME NEW d, NEW m, Within(r, d, m), Within(e, d, m) PROVE Within(s, d, m)
  BY <1>4, <1>8 DEF Within
<1> QED BY <1>1, <1>5, <1>6, <1>7, <1>8 DEF s

LEMMA PacedLeft ==
  ASSUME NEW r \in Seq(PacedHandler), r # <<>>
  PROVE  /\ Head(r) \in PacedHandler
         /\ Tail(r) \in Seq(PacedHandler)
         /\ \A d : /\ IsOp(Head(r), d) => HasOp(r, d)
                   /\ \A x : IsOpAt(Head(r), d, x) => HasOpAt(r, d, x)
                   /\ HasOp(Tail(r), d) => HasOp(r, d)
                   /\ \A x : HasOpAt(Tail(r), d, x) => HasOpAt(r, d, x)
                   /\ OneOp(r, d) => OneOp(Tail(r), d) /\ ~(IsOp(Head(r), d) /\ HasOp(Tail(r), d))
                   /\ \A m : Within(r, d, m)
                        => /\ Within(Tail(r), d, m)
                           /\ IsOpAt(Head(r), d, "io") => Head(r).n <= m
<1> DEFINE s == Tail(r)
           h == Head(r)
<1>1. /\ s \in Seq(PacedHandler) /\ Len(s) = Len(r) - 1 /\ Len(r) \in Nat \ {0}
      /\ h = r[1] /\ h \in PacedHandler /\ 1 \in 1 .. Len(r)
  OBVIOUS
<1>2. \A i \in 1 .. Len(s) : i + 1 \in 1 .. Len(r) /\ i + 1 # 1 /\ s[i] = r[i + 1]
  OBVIOUS
<1> HIDE DEF s, h
<1>3. \A d : /\ IsOp(h, d) => HasOp(r, d)
             /\ HasOp(s, d) => HasOp(r, d)
  BY <1>1, <1>2 DEF HasOp
<1>4. \A d, x : /\ IsOpAt(h, d, x) => HasOpAt(r, d, x)
                /\ HasOpAt(s, d, x) => HasOpAt(r, d, x)
  BY <1>1, <1>2 DEF HasOpAt
<1>5. \A d : OneOp(r, d) => OneOp(s, d) /\ ~(IsOp(h, d) /\ HasOp(s, d))
  BY <1>1, <1>2, SMTT(40) DEF OneOp, HasOp
<1>6. \A d, m : Within(r, d, m) => Within(s, d, m) /\ (IsOpAt(h, d, "io") => h.n <= m)
  BY <1>1, <1>2 DEF Within
<1> QED BY <1>1, <1>3, <1>4, <1>5, <1>6 DEF s, h

LEMMA PacedNone ==
  /\ <<>> \in Seq(PacedHandler)
  /\ \A d : ~HasOp(<<>>, d) /\ OneOp(<<>>, d)
  /\ \A d, x : ~HasOpAt(<<>>, d, x)
  /\ \A d, m : Within(<<>>, d, m)
<1>1. <<>> \in Seq(PacedHandler) /\ Len(<<>>) = 0
  OBVIOUS
<1>2. \A i : i \notin 1 .. Len(<<>>)
  OBVIOUS
<1> QED BY <1>1, <1>2 DEF HasOp, HasOpAt, OneOp, Within

LEMMA PacedAlone ==
  ASSUME NEW h \in PacedHandler, h.k = "op"
  PROVE  /\ <<h>> \in Seq(PacedHandler)
         /\ \A d : HasOp(<<h>>, d) <=> h.d = d
         /\ \A d, x : HasOpAt(<<h>>, d, x) <=> h.d = d /\ h.at = x
         /\ \A d : OneOp(<<h>>, d)
         /\ \A d, m : h.d = d /\ h.at = "io" /\ h.n <= m => Within(<<h>>, d, m)
         /\ \A d, m : ~(h.d = d /\ h.at = "io") => Within(<<h>>, d, m)
<1>1. <<h>> \in Seq(PacedHandler) /\ Len(<<h>>) = 1 /\ <<h>>[1] = h
  OBVIOUS
<1>2. \A i : i \in 1 .. Len(<<h>>) <=> i = 1
  OBVIOUS
<1> QED BY <1>1, <1>2 DEF HasOp, HasOpAt, OneOp, Within, IsOp, IsOpAt

(* The handlers of waits on a deadline resume no operation.                *)
LEMMA PacedDeadlines ==
  ASSUME NEW d \in Dir, NEW w \in Seq(Nat), NEW ec \in {"ok", "aborted"},
         NEW e, e = [i \in DOMAIN w |-> DeadlineHandler(d, w[i], ec)]
  PROVE  /\ e \in Seq(PacedHandler)
         /\ \A c : ~HasOp(e, c) /\ OneOp(e, c)
         /\ \A c, x : ~HasOpAt(e, c, x)
         /\ \A c, m : Within(e, c, m)
<1>1. \A i \in 1 .. Len(w) : e[i] \in PacedHandler /\ e[i].k = "deadline"
  BY DEF DeadlineHandler, PacedHandler
<1>2. e \in Seq(PacedHandler) /\ Len(e) = Len(w)
  <2>1. DOMAIN w = 1 .. Len(w) /\ Len(w) \in Nat
    OBVIOUS
  <2>2. e \in [1 .. Len(w) -> PacedHandler]
    BY <1>1, <2>1
  <2> QED BY <2>1, <2>2
<1> QED BY <1>1, <1>2 DEF HasOp, HasOpAt, OneOp, Within, IsOp, IsOpAt

(* Those of waits on the rate timer.                                       *)
LEMMA PacedRates ==
  ASSUME NEW w \in Seq(Dir \cup {"slice"}), NEW ec \in {"ok", "aborted"},
         NEW e, e = [i \in DOMAIN w |-> RateHandler(w[i], ec)]
  PROVE  /\ e \in Seq(PacedHandler)
         /\ \A d \in Dir : /\ HasOp(e, d) <=> Waiter(w, d)
                           /\ OneWaiter(w, d) => OneOp(e, d)
         /\ \A c, x : HasOpAt(e, c, x) => x = "rate"
         /\ \A c, m : Within(e, c, m)
<1>1. \A i \in 1 .. Len(w) : /\ e[i] \in PacedHandler
                             /\ \A d \in Dir : IsOp(e[i], d) <=> w[i] = d
                             /\ \A c, x : IsOpAt(e[i], c, x) => x = "rate"
  <2> TAKE i \in 1 .. Len(w)
  <2>1. e[i] = RateHandler(w[i], ec) /\ w[i] \in Dir \cup {"slice"}
    OBVIOUS
  <2>2. CASE w[i] = "slice"
    <3>1. e[i] = [k |-> "slice", ec |-> ec]
      BY <2>1, <2>2 DEF RateHandler, SliceHandler
    <3> QED BY <2>2, <3>1 DEF PacedHandler, IsOp, IsOpAt, Dir
  <2>3. CASE w[i] # "slice"
    <3>1. e[i] = [k |-> "op", d |-> w[i], at |-> "rate", ec |-> ec, n |-> 0]
      BY <2>1, <2>3 DEF RateHandler, OpHandler
    <3>2. w[i] \in Dir /\ 0 \in 0 .. MaxBytes
      BY <2>1, <2>3, BasicStreamAssumption
    <3> QED BY <3>1, <3>2 DEF PacedHandler, IsOp, IsOpAt
  <2> QED BY <2>2, <2>3
<1>2. e \in Seq(PacedHandler) /\ Len(e) = Len(w)
  <2>1. DOMAIN w = 1 .. Len(w) /\ Len(w) \in Nat
    OBVIOUS
  <2>2. e \in [1 .. Len(w) -> PacedHandler]
    BY <1>1, <2>1
  <2> QED BY <2>1, <2>2
<1>3. \A d \in Dir : HasOp(e, d) <=> Waiter(w, d)
  BY <1>1, <1>2 DEF HasOp, Waiter
<1>4. \A d \in Dir : OneWaiter(w, d) => OneOp(e, d)
  <2> SUFFICES ASSUME NEW d \in Dir, OneWaiter(w, d),
                      NEW i \in 1 .. Len(e), NEW j \in 1 .. Len(e), IsOp(e[i], d), IsOp(e[j], d)
               PROVE  i = j
    BY DEF OneOp
  <2>1. w[i] = d /\ w[j] = d
    BY <1>1, <1>2
  <2> QED BY <1>2, <2>1 DEF OneWaiter
<1>5. /\ \A c, x : HasOpAt(e, c, x) => x = "rate"
      /\ \A c, m : Within(e, c, m)
  BY <1>1, <1>2 DEF HasOpAt, Within
<1> QED BY <1>2, <1>3, <1>4, <1>5

(* Nothing is aborted that does not wait.                                  *)
LEMMA PacedAborted ==
  ASSUME NEW ph \in [Dir -> {"idle", "rate", "due"} \cup AtSocket]
  PROVE  LET e == SocketAborts(ph)
         IN /\ e \in Seq(PacedHandler)
            /\ \A d \in Dir : /\ HasOp(e, d) <=> ph[d] \in AtSocket
                              /\ \A x : HasOpAt(e, d, x) => ph[d] = x
                              /\ OneOp(e, d)
                              /\ \A m \in Nat : Within(e, d, m)
<1> DEFINE a(d) == IF ph[d] \in AtSocket THEN <<OpHandler(d, ph[d], "aborted", 0)>> ELSE <<>>
<1>1. SocketAborts(ph) = a("read") \o a("write")
  BY DEF SocketAborts
<1>2. \A d \in Dir :
        /\ a(d) \in Seq(PacedHandler)
        /\ \A c : /\ HasOp(a(d), c) <=> c = d /\ ph[d] \in AtSocket
                  /\ \A x : HasOpAt(a(d), c, x) => c = d /\ ph[d] = x
                  /\ OneOp(a(d), c)
                  /\ \A m \in Nat : Within(a(d), c, m)
  <2> TAKE d \in Dir
  <2>1. CASE ph[d] \in AtSocket
    <3> DEFINE h == OpHandler(d, ph[d], "aborted", 0)
    <3>1. h \in PacedHandler /\ h.k = "op" /\ h.d = d /\ h.at = ph[d] /\ h.n = 0
      BY <2>1, BasicStreamAssumption DEF OpHandler, PacedHandler
    <3>2. a(d) = <<h>>
      BY <2>1
    <3> HIDE DEF h, a
    <3>3. \A m \in Nat : h.n <= m
      BY <3>1
    <3> QED BY <2>1, <3>1, <3>2, <3>3, PacedAlone
  <2>2. CASE ph[d] \notin AtSocket
    <3>1. a(d) = <<>>
      BY <2>2
    <3> HIDE DEF a
    <3> QED BY <2>2, <3>1, PacedNone
  <2> QED BY <2>1, <2>2
<1>3. Dir = {"read", "write"} /\ "read" # "write"
  BY DEF Dir
<1> HIDE DEF a
<1> DEFINE r == a("read")
           w == a("write")
<1>4. r \in Seq(PacedHandler) /\ w \in Seq(PacedHandler)
  BY <1>2, <1>3
<1>5. /\ r \o w \in Seq(PacedHandler)
      /\ \A d : /\ HasOp(r \o w, d) <=> HasOp(r, d) \/ HasOp(w, d)
                /\ \A x : HasOpAt(r \o w, d, x) <=> HasOpAt(r, d, x) \/ HasOpAt(w, d, x)
                /\ OneOp(r, d) /\ OneOp(w, d) /\ ~(HasOp(r, d) /\ HasOp(w, d)) => OneOp(r \o w, d)
                /\ \A m : Within(r, d, m) /\ Within(w, d, m) => Within(r \o w, d, m)
  BY <1>4, PacedJoined
<1>6. \A c : /\ HasOp(r, c) <=> c = "read" /\ ph["read"] \in AtSocket
             /\ HasOp(w, c) <=> c = "write" /\ ph["write"] \in AtSocket
             /\ \A x : /\ HasOpAt(r, c, x) => c = "read" /\ ph["read"] = x
                       /\ HasOpAt(w, c, x) => c = "write" /\ ph["write"] = x
             /\ OneOp(r, c) /\ OneOp(w, c)
             /\ \A m \in Nat : Within(r, c, m) /\ Within(w, c, m)
  BY <1>2, <1>3
<1> HIDE DEF r, w
<1>7. r \o w = SocketAborts(ph)
  BY <1>1 DEF r, w
<1>8. \A d \in Dir : /\ HasOp(r \o w, d) <=> ph[d] \in AtSocket
                     /\ \A x : HasOpAt(r \o w, d, x) => ph[d] = x
                     /\ OneOp(r \o w, d)
                     /\ \A m \in Nat : Within(r \o w, d, m)
  <2>1. \A d : /\ HasOp(r, d) <=> d = "read" /\ ph["read"] \in AtSocket
               /\ HasOp(w, d) <=> d = "write" /\ ph["write"] \in AtSocket
    BY <1>6
  <2>2. \A d : HasOp(r \o w, d) <=> HasOp(r, d) \/ HasOp(w, d)
    BY <1>5
  <2>3. \A d \in Dir : HasOp(r \o w, d) <=> ph[d] \in AtSocket
    BY <1>3, <2>1, <2>2
  <2>4. ASSUME NEW d \in Dir, NEW x, HasOpAt(r \o w, d, x) PROVE ph[d] = x
    <3>1. HasOpAt(r, d, x) \/ HasOpAt(w, d, x)
      BY <1>5, <2>4
    <3> QED BY <1>6, <3>1
  <2>5. ASSUME NEW d \in Dir PROVE OneOp(r \o w, d)
    <3>1. OneOp(r, d) /\ OneOp(w, d)
      BY <1>6
    <3>2. ~(HasOp(r, d) /\ HasOp(w, d))
      BY <1>3, <2>1
    <3> QED BY <1>5, <3>1, <3>2
  <2>6. ASSUME NEW d \in Dir, NEW m \in Nat PROVE Within(r \o w, d, m)
    <3>1. Within(r, d, m) /\ Within(w, d, m)
      BY <1>6
    <3> QED BY <1>5, <3>1
  <2> QED BY <2>3, <2>4, <2>5, <2>6
<1> QED BY <1>5, <1>7, <1>8

(* cancel() and close(), in a handler that leaves q of ready and ph of     *)
(* phase: everything that waits is due, in the one place it was in.        *)
LEMMA PacedCancelled ==
  ASSUME NEW q \in Seq(PacedHandler), NEW ph \in [Dir -> {"idle", "rate", "due"} \cup AtSocket],
         rateWaits \in Seq(Dir \cup {"slice"}), room \in [Dir -> 0 .. MaxBytes],
         \A d \in Dir : /\ OneOp(q, d) /\ (HasOp(q, d) => ph[d] = "due")
                        /\ OneWaiter(rateWaits, d) /\ (Waiter(rateWaits, d) => ph[d] = "rate")
                        /\ Within(q, d, room[d]),
         CancelAll(q, ph)
  PROVE  /\ ready' \in Seq(PacedHandler)
         /\ rateWaits' = <<>>
         /\ phase' \in [Dir -> {"idle", "due"}]
         /\ \A d \in Dir : /\ phase'[d] = "idle" <=> ph[d] = "idle"
                           /\ OneOp(ready', d)
                           /\ HasOp(ready', d) => phase'[d] = "due"
                           /\ \A x \in AtSocket : HasOpAt(ready', d, x) => HasOpAt(q, d, x) \/ ph[d] = x
                           /\ Within(ready', d, room[d])
<1> DEFINE e == SocketAborts(ph)
           f == RateAborts
<1>1. /\ e \in Seq(PacedHandler)
      /\ \A d \in Dir : /\ HasOp(e, d) <=> ph[d] \in AtSocket
                        /\ \A x : HasOpAt(e, d, x) => ph[d] = x
                        /\ OneOp(e, d)
                        /\ \A m \in Nat : Within(e, d, m)
  BY PacedAborted
<1>2. f = [i \in DOMAIN rateWaits |-> RateHandler(rateWaits[i], "aborted")]
  BY DEF RateAborts
<1>3. /\ f \in Seq(PacedHandler)
      /\ \A d \in Dir : HasOp(f, d) <=> Waiter(rateWaits, d)
      /\ \A d \in Dir : OneWaiter(rateWaits, d) => OneOp(f, d)
      /\ \A c, x : HasOpAt(f, c, x) => x = "rate"
      /\ \A c, m : Within(f, c, m)
  BY <1>2, PacedRates
<1>4. /\ ready' = (q \o e) \o f
      /\ rateWaits' = <<>>
      /\ phase' = [d \in Dir |-> IF ph[d] = "idle" THEN "idle" ELSE "due"]
  BY DEF CancelAll
<1>5. \A d \in Dir : room[d] \in Nat
  BY BasicStreamAssumption
<1> HIDE DEF e, f
<1> DEFINE s == q \o e
<1>6. /\ s \in Seq(PacedHandler)
      /\ \A d : /\ HasOp(s, d) <=> HasOp(q, d) \/ HasOp(e, d)
                /\ \A x : HasOpAt(s, d, x) <=> HasOpAt(q, d, x) \/ HasOpAt(e, d, x)
                /\ OneOp(q, d) /\ OneOp(e, d) /\ ~(HasOp(q, d) /\ HasOp(e, d)) => OneOp(s, d)
                /\ \A m : Within(q, d, m) /\ Within(e, d, m) => Within(s, d, m)
  BY <1>1, PacedJoined
<1> HIDE DEF s
<1>7. /\ s \o f \in Seq(PacedHandler)
      /\ \A d : /\ HasOp(s \o f, d) <=> HasOp(s, d) \/ HasOp(f, d)
                /\ \A x : HasOpAt(s \o f, d, x) <=> HasOpAt(s, d, x) \/ HasOpAt(f, d, x)
                /\ OneOp(s, d) /\ OneOp(f, d) /\ ~(HasOp(s, d) /\ HasOp(f, d)) => OneOp(s \o f, d)
                /\ \A m : Within(s, d, m) /\ Within(f, d, m) => Within(s \o f, d, m)
  BY <1>3, <1>6, PacedJoined
<1>8. ready' = s \o f
  BY <1>4 DEF s
<1>9. \A d \in Dir : ~(HasOp(q, d) /\ HasOp(e, d)) /\ ~(HasOp(s, d) /\ HasOp(f, d))
  BY <1>1, <1>3, <1>6 DEF AtSocket
<1>10. \A d \in Dir : /\ phase'[d] = "idle" <=> ph[d] = "idle"
                      /\ HasOp(ready', d) => phase'[d] = "due"
  <2>1. \A d \in Dir : HasOp(ready', d) => HasOp(q, d) \/ HasOp(e, d) \/ HasOp(f, d)
    BY <1>6, <1>7, <1>8
  <2>2. \A d \in Dir : HasOp(ready', d) => ph[d] # "idle"
    BY <1>1, <1>3, <2>1 DEF AtSocket
  <2> QED BY <1>4, <2>2
<1>11. \A d \in Dir : OneOp(ready', d)
  BY <1>1, <1>3, <1>6, <1>7, <1>8, <1>9
<1>12. \A d \in Dir : \A x \in AtSocket : HasOpAt(ready', d, x) => HasOpAt(q, d, x) \/ ph[d] = x
  BY <1>1, <1>3, <1>6, <1>7, <1>8 DEF AtSocket
<1>13. \A d \in Dir : Within(ready', d, room[d])
  BY <1>1, <1>3, <1>5, <1>6, <1>7, <1>8
<1> QED BY <1>4, <1>7, <1>8, <1>10, <1>11, <1>12, <1>13

Fired(d, w, ec) == [i \in DOMAIN w |-> DeadlineHandler(d, w[i], ec)]

(* What becomes of the deadlines does not concern the operations.          *)
LEMMA PacedDeadlinesJoined ==
  ASSUME NEW r \in Seq(PacedHandler), NEW d \in Dir, NEW w \in Seq(Nat), NEW ec \in {"ok", "aborted"},
         NEW s, s = r \o Fired(d, w, ec)
  PROVE  /\ s \in Seq(PacedHandler)
         /\ \A c : HasOp(s, c) <=> HasOp(r, c)
         /\ \A c, x : HasOpAt(s, c, x) <=> HasOpAt(r, c, x)
         /\ \A c : OneOp(r, c) => OneOp(s, c)
         /\ \A c, m : Within(r, c, m) => Within(s, c, m)
<1> DEFINE e == Fired(d, w, ec)
<1>0. e = [i \in DOMAIN w |-> DeadlineHandler(d, w[i], ec)]
  BY DEF Fired
<1> HIDE DEF e
<1>1. /\ e \in Seq(PacedHandler)
      /\ \A c : ~HasOp(e, c) /\ OneOp(e, c)
      /\ \A c, x : ~HasOpAt(e, c, x)
      /\ \A c, m : Within(e, c, m)
  BY <1>0, PacedDeadlines
<1>2. s = r \o e
  BY DEF e
<1>3. /\ r \o e \in Seq(PacedHandler)
      /\ \A c : /\ HasOp(r \o e, c) <=> HasOp(r, c)
                /\ \A x : HasOpAt(r \o e, c, x) <=> HasOpAt(r, c, x)
                /\ OneOp(r, c) => OneOp(r \o e, c)
                /\ \A m : Within(r, c, m) => Within(r \o e, c, m)
  BY <1>1, PacedJoined
<1> QED BY <1>2, <1>3

(* A step that leaves the operations and the rate alone.                   *)
LEMMA PacedAside ==
  ASSUME PaceInv,
         UNCHANGED <<pending, phase, room, remain, sliced, over, rateWaits>>,
         tick' \in [Dir -> Nat], waits' \in [Dir -> Seq(Nat)],
         ready' \in Seq(PacedHandler),
         \A c \in Dir : /\ HasOp(ready', c) => HasOp(ready, c)
                        /\ \A x : HasOpAt(ready', c, x) => HasOpAt(ready, c, x)
                        /\ OneOp(ready, c) => OneOp(ready', c)
                        /\ \A m : Within(ready, c, m) => Within(ready', c, m)
  PROVE  PaceInv'
<1>1. PacedType'
  BY DEF PaceInv, PacedType
<1>2. \A c \in Dir : \A x : At(c, x)' => At(c, x)
  BY DEF At
<1>3. InOnePlace'
  BY <1>2 DEF PaceInv, InOnePlace
<1>4. WithinLimit'
  BY <1>2 DEF PaceInv, WithinLimit
<1> QED BY <1>1, <1>3, <1>4 DEF PaceInv

LEMMA PaceInit == Init => PaceInv
<1> SUFFICES ASSUME Init PROVE PaceInv
  OBVIOUS
<1>1. PacedType
  BY BasicStreamAssumption, PacedNone DEF Init, PacedType
<1>2. InOnePlace
  <2>1. \A d : ~Waiter(<<>>, d) /\ OneWaiter(<<>>, d)
    BY DEF Waiter, OneWaiter
  <2> QED BY <2>1, PacedNone DEF Init, InOnePlace, At
<1>3. WithinLimit
  BY BasicStreamAssumption, PacedNone DEF Init, WithinLimit, At
<1> QED BY <1>1, <1>2, <1>3 DEF PaceInv

LEMMA SetExpiryPaced ==
  ASSUME PaceInv, NEW x, SetExpiry(x)
  PROVE  PaceInv'
<1> DEFINE a(d) == IF pending[d] THEN <<>>
                   ELSE [i \in DOMAIN waits[d] |-> DeadlineHandler(d, waits[d][i], "aborted")]
           r == ready \o a("read")
<1>1. /\ waits' = [d \in Dir |-> IF pending[d] THEN waits[d] ELSE <<>>]
      /\ ready' = ready \o a("read") \o a("write")
      /\ UNCHANGED <<open, pending, timeout, tick, phase, room, rateVars, ops, last>>
  BY DEF SetExpiry
<1>2. /\ ready \in Seq(PacedHandler)
      /\ \A d \in Dir : waits[d] \in Seq(Nat)
      /\ "read" \in Dir /\ "write" \in Dir
  BY DEF PaceInv, PacedType, Dir
<1>3. ASSUME NEW q \in Seq(PacedHandler), NEW d \in Dir
      PROVE  /\ q \o a(d) \in Seq(PacedHandler)
             /\ \A c : HasOp(q \o a(d), c) <=> HasOp(q, c)
             /\ \A c, y : HasOpAt(q \o a(d), c, y) <=> HasOpAt(q, c, y)
             /\ \A c : OneOp(q, c) => OneOp(q \o a(d), c)
             /\ \A c, m : Within(q, c, m) => Within(q \o a(d), c, m)
  <2>1. CASE pending[d]
    <3>1. q \o a(d) = q
      BY <2>1
    <3> HIDE DEF a
    <3> QED BY <3>1
  <2>2. CASE ~pending[d]
    <3>1. q \o a(d) = q \o Fired(d, waits[d], "aborted") /\ waits[d] \in Seq(Nat)
      BY <1>2, <2>2 DEF Fired
    <3> HIDE DEF a
    <3> QED BY <3>1, PacedDeadlinesJoined
  <2> QED BY <2>1, <2>2
<1> HIDE DEF a
<1>4. /\ r \in Seq(PacedHandler)
      /\ \A c : HasOp(r, c) <=> HasOp(ready, c)
      /\ \A c, y : HasOpAt(r, c, y) <=> HasOpAt(ready, c, y)
      /\ \A c : OneOp(ready, c) => OneOp(r, c)
      /\ \A c, m : Within(ready, c, m) => Within(r, c, m)
  BY <1>2, <1>3
<1> HIDE DEF r
<1>5. ready' = r \o a("write")
  BY <1>1 DEF r
<1>6. /\ ready' \in Seq(PacedHandler)
      /\ \A c : HasOp(ready', c) <=> HasOp(r, c)
      /\ \A c, y : HasOpAt(ready', c, y) <=> HasOpAt(r, c, y)
      /\ \A c : OneOp(r, c) => OneOp(ready', c)
      /\ \A c, m : Within(r, c, m) => Within(ready', c, m)
  BY <1>2, <1>3, <1>4, <1>5
<1>7. waits' \in [Dir -> Seq(Nat)] /\ tick' \in [Dir -> Nat]
  BY <1>1 DEF PaceInv, PacedType
<1> QED BY <1>1, <1>4, <1>6, <1>7, PacedAside DEF rateVars

LEMMA DeadlineDuePaced ==
  ASSUME PaceInv, NEW d \in Dir, DeadlineDue(d)
  PROVE  PaceInv'
<1> DEFINE e == Fired(d, waits[d], "ok")
<1>1. /\ ready' = ready \o e
      /\ waits' = [waits EXCEPT ![d] = <<>>]
      /\ UNCHANGED <<open, pending, timeout, tick, expiry, phase, room, rateVars, ops, last>>
  BY DEF DeadlineDue, Fired
<1>2. ready \in Seq(PacedHandler) /\ waits[d] \in Seq(Nat)
  BY DEF PaceInv, PacedType
<1>3. ASSUME NEW q \in Seq(PacedHandler)
      PROVE  /\ q \o e \in Seq(PacedHandler)
             /\ \A c : HasOp(q \o e, c) <=> HasOp(q, c)
             /\ \A c, x : HasOpAt(q \o e, c, x) <=> HasOpAt(q, c, x)
             /\ \A c : OneOp(q, c) => OneOp(q \o e, c)
             /\ \A c, m : Within(q, c, m) => Within(q \o e, c, m)
  <2>1. q \o e = q \o Fired(d, waits[d], "ok")
    OBVIOUS
  <2> HIDE DEF e
  <2> QED BY <1>2, <2>1, PacedDeadlinesJoined
<1> HIDE DEF e
<1>4. /\ ready' \in Seq(PacedHandler)
      /\ \A c : HasOp(ready', c) <=> HasOp(ready, c)
      /\ \A c, x : HasOpAt(ready', c, x) <=> HasOpAt(ready, c, x)
      /\ \A c : OneOp(ready, c) => OneOp(ready', c)
      /\ \A c, m : Within(ready, c, m) => Within(ready', c, m)
  BY <1>1, <1>2, <1>3
<1>5. waits' \in [Dir -> Seq(Nat)] /\ tick' \in [Dir -> Nat]
  BY <1>1 DEF PaceInv, PacedType
<1> QED BY <1>1, <1>4, <1>5, PacedAside DEF rateVars

(* The handler that runs has left the queue.                               *)
LEMMA PacedHead ==
  ASSUME PaceInv, ready # <<>>
  PROVE  /\ Head(ready) \in PacedHandler
         /\ due \in Seq(PacedHandler)
         /\ \A d \in Dir : /\ HasOp(due, d) => HasOp(ready, d)
                           /\ \A x : HasOpAt(due, d, x) => HasOpAt(ready, d, x)
                           /\ OneOp(due, d)
                           /\ Within(due, d, room[d])
                           /\ IsOp(Head(ready), d) => ~HasOp(due, d) /\ phase[d] = "due" /\ pending[d]
                           /\ \A x : IsOpAt(Head(ready), d, x) => At(d, x)
                           /\ IsOpAt(Head(ready), d, "io") => Head(ready).n <= room[d]
<1>1. /\ ready \in Seq(PacedHandler)
      /\ \A d \in Dir : /\ OneOp(ready, d)
                        /\ HasOp(ready, d) => phase[d] = "due"
                        /\ phase[d] # "idle" => pending[d]
                        /\ Within(ready, d, room[d])
  BY DEF PaceInv, PacedType, InOnePlace, WithinLimit
<1> QED BY <1>1, PacedLeft DEF due, At

LEMMA PacedDropped ==
  ASSUME PaceInv, ready # <<>>, ready' = due,
         UNCHANGED <<pending, tick, waits, phase, room, remain, sliced, over, rateWaits>>
  PROVE  PaceInv'
<1>1. ready \in Seq(PacedHandler)
  BY DEF PaceInv, PacedType
<1>2. /\ due \in Seq(PacedHandler)
      /\ \A d : /\ HasOp(due, d) => HasOp(ready, d)
                /\ \A x : HasOpAt(due, d, x) => HasOpAt(ready, d, x)
                /\ OneOp(ready, d) => OneOp(due, d)
                /\ \A m : Within(ready, d, m) => Within(due, d, m)
  BY <1>1, PacedLeft DEF due
<1>3. tick' \in [Dir -> Nat] /\ waits' \in [Dir -> Seq(Nat)]
  BY DEF PaceInv, PacedType
<1> QED BY <1>2, <1>3, PacedAside

LEMMA CancelPaced ==
  ASSUME PaceInv, NEW q \in Seq(PacedHandler), NEW ph \in [Dir -> {"idle", "rate", "due"} \cup AtSocket],
         CancelAll(q, ph),
         UNCHANGED <<tick, waits, room, remain, sliced, over>>, pending' \in [Dir -> BOOLEAN],
         \A d \in Dir : /\ OneOp(q, d) /\ (HasOp(q, d) => ph[d] = "due")
                        /\ Waiter(rateWaits, d) => ph[d] = "rate"
                        /\ Within(q, d, room[d])
                        /\ ph[d] = phase[d] \/ ph[d] = "idle"
                        /\ ph[d] # "idle" => pending'[d]
                        /\ phase[d] = "idle" /\ pending[d] => pending'[d]
                        /\ \A x \in AtSocket : HasOpAt(q, d, x) => HasOpAt(ready, d, x)
  PROVE  PaceInv'
<1>1. /\ rateWaits \in Seq(Dir \cup {"slice"}) /\ room \in [Dir -> 0 .. MaxBytes]
      /\ \A d \in Dir : OneWaiter(rateWaits, d)
  BY DEF PaceInv, PacedType, InOnePlace
<1>2. /\ ready' \in Seq(PacedHandler)
      /\ rateWaits' = <<>>
      /\ phase' \in [Dir -> {"idle", "due"}]
      /\ \A d \in Dir : /\ phase'[d] = "idle" <=> ph[d] = "idle"
                        /\ OneOp(ready', d)
                        /\ HasOp(ready', d) => phase'[d] = "due"
                        /\ \A x \in AtSocket : HasOpAt(ready', d, x) => HasOpAt(q, d, x) \/ ph[d] = x
                        /\ Within(ready', d, room[d])
  BY <1>1, PacedCancelled
<1>3. \A d \in Dir : \A x \in AtSocket : At(d, x)' => At(d, x)
  BY <1>2 DEF At, AtSocket
<1>4. \A d : ~Waiter(<<>>, d) /\ OneWaiter(<<>>, d)
  BY DEF Waiter, OneWaiter
<1>5. PacedType'
  BY <1>2 DEF PaceInv, PacedType
<1>6. InOnePlace'
  <2>1. phase["read"] = "idle" => phase'["read"] = "idle"
    BY <1>2 DEF Dir
  <2>2. \A d \in Dir : At(d, "connect")' => d = "write" /\ phase'["read"] = "idle" /\ pending'["read"]
    BY <1>3, <2>1 DEF PaceInv, InOnePlace, AtSocket, Dir
  <2>3. \A d \in Dir : phase'[d] # "idle" => pending'[d]
    BY <1>2
  <2> QED BY <1>2, <1>4, <2>2, <2>3 DEF InOnePlace
<1>7. WithinLimit'
  BY <1>2, <1>3 DEF PaceInv, WithinLimit, AtSocket
<1> QED BY <1>5, <1>6, <1>7 DEF PaceInv

LEMMA UserCancelPaced ==
  ASSUME PaceInv, Cancel \/ Close
  PROVE  PaceInv'
<1>1. /\ CancelAll(ready, phase)
      /\ UNCHANGED <<pending, timerVars, room, rateExpiry, waiting, remain, sliced, over, ops, last>>
  BY DEF Cancel, Close, CloseImpl
<1>2. /\ ready \in Seq(PacedHandler) /\ phase \in [Dir -> {"idle", "rate", "due"} \cup AtSocket]
      /\ pending' \in [Dir -> BOOLEAN]
  BY <1>1 DEF PaceInv, PacedType
<1>3. \A d \in Dir : /\ OneOp(ready, d) /\ (HasOp(ready, d) => phase[d] = "due")
                     /\ Waiter(rateWaits, d) => phase[d] = "rate"
                     /\ Within(ready, d, room[d])
                     /\ phase[d] # "idle" => pending'[d]
  BY <1>1 DEF PaceInv, InOnePlace, WithinLimit
<1> QED BY <1>1, <1>2, <1>3, CancelPaced DEF timerVars

LEMMA OnDeadlinePaced ==
  ASSUME PaceInv, ready # <<>>, OnDeadline(Head(ready)), Head(ready).k = "deadline"
  PROVE  PaceInv'
<1> DEFINE hd == Head(ready)
<1>1. CASE CloseImpl(due, phase) /\ UNCHANGED <<pending, tick, expiry, waits, room, rateExpiry, waiting,
                                                 remain, sliced, over, ops, last>>
  <2>1. /\ due \in Seq(PacedHandler) /\ phase \in [Dir -> {"idle", "rate", "due"} \cup AtSocket]
        /\ pending' \in [Dir -> BOOLEAN]
    BY <1>1, PacedHead DEF PaceInv, PacedType
  <2>2. \A d \in Dir : /\ OneOp(due, d) /\ (HasOp(due, d) => phase[d] = "due")
                       /\ Waiter(rateWaits, d) => phase[d] = "rate"
                       /\ Within(due, d, room[d])
                       /\ phase[d] # "idle" => pending'[d]
                       /\ \A x : HasOpAt(due, d, x) => HasOpAt(ready, d, x)
    BY <1>1, PacedHead DEF PaceInv, InOnePlace
  <2>3. CancelAll(due, phase)
    BY <1>1 DEF CloseImpl
  <2> QED BY <1>1, <2>1, <2>2, <2>3, CancelPaced
<1>2. CASE ready' = due /\ UNCHANGED <<open, pending, timerVars, phase, room, rateVars, ops, last>>
  BY <1>2, PacedDropped DEF timerVars, rateVars
<1> QED BY <1>1, <1>2 DEF OnDeadline

LEMMA OnNoopPaced ==
  ASSUME PaceInv, ready # <<>>, Head(ready).k = "op", Head(ready).at = "noop", OnNoop(Head(ready))
  PROVE  PaceInv'
<1> DEFINE hd == Head(ready)
           d  == hd.d
           ph == [phase EXCEPT ![d] = "idle"]
<1>1. /\ d \in Dir /\ IsOp(hd, d) /\ hd \in PacedHandler
      /\ ~HasOp(due, d) /\ phase[d] = "due"
  BY PacedHead DEF PacedHandler, IsOp
<1>2. /\ pending' = [e \in Dir |-> pending[e] /\ e # d]
      /\ UNCHANGED <<timerVars, room, rateExpiry, waiting, remain, sliced, over, ops>>
  BY DEF OnNoop, Upcall
<1>3. /\ due \in Seq(PacedHandler)
      /\ ph \in [Dir -> {"idle", "rate", "due"} \cup AtSocket]
      /\ pending' \in [Dir -> BOOLEAN]
      /\ \A c \in Dir : ph[c] = IF c = d THEN "idle" ELSE phase[c]
  BY <1>1, <1>2, PacedHead DEF PaceInv, PacedType
<1>7. \A c \in Dir : phase[c] = "idle" /\ pending[c] => pending'[c]
  <2> TAKE c \in Dir
  <2>1. phase[c] = "idle" => c # d
    BY <1>1
  <2>2. pending'[c] = (pending[c] /\ c # d)
    BY <1>2
  <2> QED BY <2>1, <2>2
<1>4. \A c \in Dir : /\ OneOp(due, c) /\ (HasOp(due, c) => ph[c] = "due")
                     /\ Waiter(rateWaits, c) => ph[c] = "rate"
                     /\ OneWaiter(rateWaits, c)
                     /\ Within(due, c, room[c])
                     /\ ph[c] # "idle" => pending'[c]
                     /\ \A x : HasOpAt(due, c, x) => HasOpAt(ready, c, x)
  <2>1. \A c \in Dir : /\ HasOp(ready, c) => phase[c] = "due"
                       /\ Waiter(rateWaits, c) => phase[c] = "rate"
                       /\ OneWaiter(rateWaits, c)
                       /\ phase[c] # "idle" => pending[c]
    BY DEF PaceInv, InOnePlace
  <2>2. \A c \in Dir : /\ OneOp(due, c) /\ (HasOp(due, c) => HasOp(ready, c))
                       /\ Within(due, c, room[c])
                       /\ \A x : HasOpAt(due, c, x) => HasOpAt(ready, c, x)
    BY PacedHead
  <2> QED BY <1>1, <1>2, <1>3, <2>1, <2>2
<1>5. CASE CloseImpl(due, ph)
  <2>1. CancelAll(due, ph)
    BY <1>5 DEF CloseImpl
  <2> HIDE DEF ph, d, hd
  <2> QED BY <1>2, <1>3, <1>4, <1>7, <2>1, CancelPaced DEF timerVars
<1>6. CASE ready' = due /\ phase' = ph /\ rateWaits' = rateWaits
  <2> HIDE DEF ph, d, hd
  <2>1. PacedType'
    BY <1>2, <1>3, <1>6 DEF PaceInv, PacedType, timerVars
  <2>2. \A c \in Dir : \A x \in AtSocket : At(c, x)' => At(c, x)
    BY <1>3, <1>4, <1>6 DEF At, AtSocket
  <2>3. InOnePlace'
    <3>1. phase["read"] = "idle" => phase'["read"] = "idle"
      BY <1>3, <1>6 DEF Dir
    <3>2. \A c \in Dir : At(c, "connect")' => c = "write" /\ phase'["read"] = "idle" /\ pending'["read"]
      <4>1. ASSUME NEW c \in Dir, At(c, "connect")'
            PROVE  c = "write" /\ phase["read"] = "idle" /\ pending["read"]
        BY <2>2, <4>1 DEF PaceInv, InOnePlace, AtSocket
      <4> QED BY <1>7, <3>1, <4>1 DEF Dir
    <3> QED BY <1>4, <1>6, <3>2 DEF InOnePlace
  <2>4. WithinLimit'
    BY <1>2, <1>4, <1>6, <2>2 DEF PaceInv, WithinLimit, AtSocket
  <2> QED BY <2>1, <2>3, <2>4 DEF PaceInv
<1> QED BY <1>5, <1>6 DEF OnNoop

LEMMA PacedDisarmed ==
  ASSUME PaceInv, ready # <<>>, NEW d \in Dir, Disarm(d)
  PROVE  /\ tick' \in [Dir -> Nat] /\ waits' \in [Dir -> Seq(Nat)]
         /\ ready' \in Seq(PacedHandler)
         /\ \A c \in Dir : /\ HasOp(ready', c) <=> HasOp(due, c)
                           /\ \A x : HasOpAt(ready', c, x) <=> HasOpAt(due, c, x)
                           /\ OneOp(ready', c)
                           /\ Within(ready', c, room[c])
<1>1. /\ due \in Seq(PacedHandler)
      /\ \A c \in Dir : OneOp(due, c) /\ Within(due, c, room[c])
  BY PacedHead
<1>2. tick \in [Dir -> Nat] /\ waits \in [Dir -> Seq(Nat)]
  BY DEF PaceInv, PacedType
<1>3. CASE ready' = due /\ UNCHANGED <<tick, waits>>
  BY <1>1, <1>2, <1>3
<1>4. CASE /\ tick' = [tick EXCEPT ![d] = @ + 1]
           /\ ready' = due \o Fired(d, waits[d], "aborted")
           /\ waits' = [waits EXCEPT ![d] = <<>>]
  <2> DEFINE e == Fired(d, waits[d], "aborted")
             q == due
  <2>1. /\ q \o e \in Seq(PacedHandler)
        /\ \A c : HasOp(q \o e, c) <=> HasOp(q, c)
        /\ \A c, x : HasOpAt(q \o e, c, x) <=> HasOpAt(q, c, x)
        /\ \A c : OneOp(q, c) => OneOp(q \o e, c)
        /\ \A c, m : Within(q, c, m) => Within(q \o e, c, m)
    <3>1. q \in Seq(PacedHandler) /\ waits[d] \in Seq(Nat)
      BY <1>1, <1>2
    <3>2. q \o e = q \o Fired(d, waits[d], "aborted")
      OBVIOUS
    <3> HIDE DEF e, q
    <3> QED BY <3>1, <3>2, PacedDeadlinesJoined
  <2>2. ready' = q \o e
    BY <1>4
  <2>3. waits' \in [Dir -> Seq(Nat)] /\ tick' \in [Dir -> Nat]
    BY <1>2, <1>4
  <2>4. \A c \in Dir : OneOp(q, c) /\ Within(q, c, room[c])
    BY <1>1
  <2>5. \A c : (HasOp(due, c) <=> HasOp(q, c)) /\ \A x : HasOpAt(due, c, x) <=> HasOpAt(q, c, x)
    OBVIOUS
  <2> HIDE DEF e, q
  <2> QED BY <2>1, <2>2, <2>3, <2>4, <2>5
<1> QED BY <1>3, <1>4 DEF Disarm, Fired

LEMMA NoneWithin ==
  ASSUME NEW r, NEW d, ~HasOp(r, d)
  PROVE  (\A x : ~HasOpAt(r, d, x)) /\ (\A m : Within(r, d, m))
BY DEF HasOp, HasOpAt, Within, IsOpAt

LEMMA OnTransferPaced ==
  ASSUME PaceInv, ready # <<>>, Head(ready).k = "op", Head(ready).at = "io", OnTransfer(Head(ready))
  PROVE  PaceInv'
<1>0. PICK hd \in PacedHandler : hd = Head(ready)
  BY PacedHead
<1>d. PICK d \in Dir : d = hd.d
  BY <1>0 DEF PacedHandler
<1>1. IsOp(hd, d) /\ IsOpAt(hd, d, "io") /\ hd.n \in Nat
  BY <1>0, <1>d, BasicStreamAssumption DEF IsOp, IsOpAt, PacedHandler
<1>2. /\ ~HasOp(due, d) /\ phase[d] = "due" /\ At(d, "io") /\ hd.n <= room[d]
      /\ \A c \in Dir : (HasOp(due, c) => HasOp(ready, c)) /\ \A x : HasOpAt(due, c, x) => HasOpAt(ready, c, x)
  BY <1>0, <1>1, PacedHead
<1>3. /\ Disarm(d)
      /\ pending' = [e \in Dir |-> pending[e] /\ e \notin {d}]
      /\ TransferBytes(d, hd.n)
      /\ phase' = [phase EXCEPT ![d] = "idle"]
      /\ UNCHANGED <<open, expiry, room, rateExpiry, rateWaits, waiting, over, ops>>
  BY <1>0, <1>d DEF OnTransfer, Upcall
<1>4. /\ tick' \in [Dir -> Nat] /\ waits' \in [Dir -> Seq(Nat)]
      /\ ready' \in Seq(PacedHandler)
      /\ \A c \in Dir : /\ HasOp(ready', c) <=> HasOp(due, c)
                        /\ \A x : HasOpAt(ready', c, x) <=> HasOpAt(due, c, x)
                        /\ OneOp(ready', c)
                        /\ Within(ready', c, room[c])
  BY <1>3, PacedDisarmed
<1>5. \A c \in Dir : phase'[c] = IF c = d THEN "idle" ELSE phase[c]
  BY <1>3 DEF PaceInv, PacedType
<1>6. \A x : ~HasOpAt(ready', d, x)
  BY <1>2, <1>4, NoneWithin
<1>7. \A c \in Dir : \A x \in AtSocket : At(c, x)' => c # d /\ At(c, x)
  BY <1>2, <1>4, <1>5, <1>6 DEF At, AtSocket
<1>8. /\ room \in [Dir -> 0 .. MaxBytes] /\ remain \in [Dir -> 0 .. Limit]
      /\ sliced \in [Dir -> Nat] /\ over \in [Dir -> Nat]
  BY DEF PaceInv, PacedType
<1>9. /\ sliced' \in [Dir -> Nat] /\ sliced'[d] = sliced[d] + hd.n
      /\ \A c \in Dir : c # d => sliced'[c] = sliced[c] /\ remain'[c] = remain[c]
      /\ remain' \in [Dir -> 0 .. Limit]
      /\ Limited => remain'[d] = IF hd.n < remain[d] THEN remain[d] - hd.n ELSE 0
  BY <1>1, <1>3, <1>8, BasicStreamAssumption DEF TransferBytes
<1>10. PacedType'
  <2>1. phase' \in [Dir -> {"idle", "rate", "due"} \cup AtSocket] /\ pending' \in [Dir -> BOOLEAN]
    BY <1>3 DEF PaceInv, PacedType
  <2> QED BY <1>3, <1>4, <1>9, <2>1 DEF PaceInv, PacedType
<1>11. InOnePlace'
  <2>1. phase["read"] = "idle" => phase'["read"] = "idle"
    BY <1>5 DEF Dir
  <2>2. \A c \in Dir : At(c, "connect")' => c = "write" /\ phase'["read"] = "idle" /\ pending'["read"]
    <3>1. ASSUME NEW c \in Dir, At(c, "connect")'
          PROVE  c = "write" /\ phase["read"] = "idle" /\ pending["read"]
      BY <1>7, <3>1 DEF PaceInv, InOnePlace, AtSocket
    <3>2. phase["read"] = "idle" /\ pending["read"] => pending'["read"]
      <4>1. phase["read"] = "idle" => d # "read"
        BY <1>2
      <4>2. pending'["read"] = (pending["read"] /\ "read" # d)
        BY <1>3 DEF Dir
      <4> QED BY <4>1, <4>2
    <3> QED BY <2>1, <3>1, <3>2
  <2>3. \A c \in Dir : /\ HasOp(ready', c) => phase'[c] = "due"
                       /\ OneWaiter(rateWaits', c)
                       /\ Waiter(rateWaits', c) => phase'[c] = "rate"
                       /\ phase'[c] # "idle" => pending'[c]
    <3> TAKE c \in Dir
    <3>1. /\ HasOp(ready, c) => phase[c] = "due"
          /\ OneWaiter(rateWaits, c)
          /\ Waiter(rateWaits, c) => phase[c] = "rate"
          /\ phase[c] # "idle" => pending[c]
      BY DEF PaceInv, InOnePlace
    <3>2. rateWaits' = rateWaits /\ pending'[c] = (pending[c] /\ c # d)
      BY <1>3
    <3>3. HasOp(ready', c) => HasOp(ready, c) /\ c # d
      BY <1>2, <1>4
    <3> QED BY <1>2, <1>5, <3>1, <3>2, <3>3
  <2> QED BY <1>4, <2>2, <2>3 DEF InOnePlace
<1>12. WithinLimit'
  <2> SUFFICES ASSUME NEW c \in Dir
               PROVE  /\ Within(ready', c, room'[c])
                      /\ Limited => sliced'[c] + remain'[c] <= Limit + over'[c]
                      /\ Limited /\ At(c, "io")' => room'[c] <= Limit /\ sliced'[c] + room'[c] <= Limit + over'[c]
    BY DEF WithinLimit
  <2>1. Within(ready', c, room'[c])
    BY <1>3, <1>4
  <2>2. CASE c = d
    <3>1. ~At(d, "io")'
      BY <1>7 DEF AtSocket
    <3>2. Limited => sliced[d] + remain[d] <= Limit + over[d] /\ sliced[d] + room[d] <= Limit + over[d]
      BY <1>2 DEF PaceInv, WithinLimit
    <3>3. /\ room[d] \in Nat /\ remain[d] \in Nat /\ sliced[d] \in Nat /\ over[d] \in Nat
          /\ over'[d] = over[d] /\ hd.n \in Nat /\ Limit \in Nat
      BY <1>1, <1>3, <1>8, BasicStreamAssumption
    <3>4. ASSUME Limited PROVE sliced'[d] + remain'[d] <= Limit + over'[d]
      <4>1. /\ sliced'[d] = sliced[d] + hd.n
            /\ remain'[d] = IF hd.n < remain[d] THEN remain[d] - hd.n ELSE 0
            /\ hd.n <= room[d]
        BY <1>2, <1>9, <3>4
      <4>2. CASE hd.n < remain[d]
        <5>1. sliced'[d] + remain'[d] = sliced[d] + remain[d]
          BY <3>3, <4>1, <4>2
        <5> QED BY <3>2, <3>3, <3>4, <5>1
      <4>3. CASE ~(hd.n < remain[d])
        <5>1. sliced'[d] + remain'[d] <= sliced[d] + room[d]
          BY <3>3, <4>1, <4>3
        <5>2. sliced'[d] + remain'[d] \in Nat
          BY <3>3, <4>1, <4>3
        <5> QED BY <3>2, <3>3, <3>4, <5>1, <5>2
      <4> QED BY <4>2, <4>3
    <3> QED BY <2>1, <2>2, <3>1, <3>4
  <2>3. CASE c # d
    <3>1. UNCHANGED <<room, over>> /\ sliced'[c] = sliced[c] /\ remain'[c] = remain[c]
      BY <1>3, <1>9, <2>3
    <3>2. At(c, "io")' => At(c, "io")
      BY <1>7 DEF AtSocket
    <3> QED BY <2>1, <3>1, <3>2 DEF PaceInv, WithinLimit
  <2> QED BY <2>2, <2>3
<1> QED BY <1>10, <1>11, <1>12 DEF PaceInv

LEMMA OnConnectPaced ==
  ASSUME PaceInv, ready # <<>>, Head(ready).k = "op", Head(ready).at = "connect", OnConnect(Head(ready))
  PROVE  PaceInv'
<1>0. PICK hd \in PacedHandler : hd = Head(ready)
  BY PacedHead
<1>d. PICK d \in Dir : d = hd.d
  BY <1>0 DEF PacedHandler
<1>1. IsOp(hd, d) /\ IsOpAt(hd, d, "connect")
  BY <1>0, <1>d DEF IsOp, IsOpAt
<1>2. /\ ~HasOp(due, d) /\ phase[d] = "due" /\ At(d, "connect")
      /\ \A c \in Dir : (HasOp(due, c) => HasOp(ready, c)) /\ \A x : HasOpAt(due, c, x) => HasOpAt(ready, c, x)
  BY <1>0, <1>1, PacedHead
<1>3. d = "write" /\ phase["read"] = "idle"
  BY <1>2 DEF PaceInv, InOnePlace
<1>4. /\ Disarm("write")
      /\ pending' = [e \in Dir |-> pending[e] /\ e \notin Dir]
      /\ phase' = [phase EXCEPT !["write"] = "idle"]
      /\ UNCHANGED <<open, expiry, room, rateVars, ops>>
  BY DEF OnConnect, Upcall
<1>5. /\ tick' \in [Dir -> Nat] /\ waits' \in [Dir -> Seq(Nat)]
      /\ ready' \in Seq(PacedHandler)
      /\ \A c \in Dir : /\ HasOp(ready', c) <=> HasOp(due, c)
                        /\ \A x : HasOpAt(ready', c, x) <=> HasOpAt(due, c, x)
                        /\ OneOp(ready', c)
                        /\ Within(ready', c, room[c])
  BY <1>3, <1>4, PacedDisarmed
<1>6. /\ \A c \in Dir : phase'[c] = "idle"
      /\ \A c \in Dir : ~HasOp(ready, c) \/ c = d
  <2>1. phase \in [Dir -> {"idle", "rate", "due"} \cup AtSocket] /\ \A c \in Dir : c = "read" \/ c = "write"
    BY DEF PaceInv, PacedType, Dir
  <2>2. \A c \in Dir : phase'[c] = "idle"
    BY <1>3, <1>4, <2>1
  <2>3. \A c \in Dir : HasOp(ready, c) => phase[c] = "due"
    BY DEF PaceInv, InOnePlace
  <2> QED BY <1>3, <2>1, <2>2, <2>3
<1>7. \A c \in Dir : ~HasOp(ready', c)
  BY <1>2, <1>5, <1>6
<1>8. \A c \in Dir : \A x \in AtSocket : ~At(c, x)'
  BY <1>6, <1>7, NoneWithin DEF At, AtSocket
<1>9. \A c \in Dir : ~Waiter(rateWaits, c)
  <2>1. \A c \in Dir : phase[c] # "rate"
    BY <1>2, <1>3 DEF Dir
  <2> QED BY <2>1 DEF PaceInv, InOnePlace
<1>10. PacedType'
  <2>1. phase' \in [Dir -> {"idle", "rate", "due"} \cup AtSocket] /\ pending' \in [Dir -> BOOLEAN]
    BY <1>4 DEF PaceInv, PacedType
  <2> QED BY <1>4, <1>5, <2>1 DEF PaceInv, PacedType, rateVars
<1>11. InOnePlace'
  <2>1. \A c \in Dir : OneWaiter(rateWaits', c) /\ ~Waiter(rateWaits', c)
    BY <1>4, <1>9 DEF PaceInv, InOnePlace, rateVars
  <2> QED BY <1>5, <1>6, <1>7, <1>8, <2>1 DEF InOnePlace, AtSocket
<1>12. WithinLimit'
  BY <1>4, <1>5, <1>8 DEF PaceInv, WithinLimit, rateVars, AtSocket
<1> QED BY <1>10, <1>11, <1>12 DEF PaceInv

LEMMA StartConnectPaced ==
  ASSUME PaceInv, StartConnect
  PROVE  PaceInv'
<1>1. /\ \A d \in Dir : ~pending[d]
      /\ pending' = [d \in Dir |-> TRUE]
      /\ phase' = [phase EXCEPT !["write"] = "connect"]
      /\ waits' = waits \/ waits' = [waits EXCEPT !["write"] = Append(@, tick["write"])]
      /\ UNCHANGED <<timeout, tick, expiry, room, rateVars, ready, last>>
  BY DEF StartConnect, Arm, Dir
<1>2. /\ \A d \in Dir : phase[d] = "idle" /\ ~HasOp(ready, d) /\ ~Waiter(rateWaits, d)
      /\ "read" \in Dir /\ "write" \in Dir
  BY <1>1 DEF PaceInv, InOnePlace, Dir
<1>3. /\ phase'["read"] = "idle" /\ phase'["write"] = "connect"
      /\ \A d \in Dir : d = "read" \/ d = "write"
  BY <1>1, <1>2 DEF PaceInv, PacedType, Dir
<1>4. PacedType'
  <2>1. waits \in [Dir -> Seq(Nat)] /\ tick \in [Dir -> Nat]
    BY DEF PaceInv, PacedType
  <2>2. waits' \in [Dir -> Seq(Nat)]
    <3>1. Append(waits["write"], tick["write"]) \in Seq(Nat)
      BY <1>2, <2>1
    <3> QED BY <1>1, <2>1, <3>1
  <2>3. phase' \in [Dir -> {"idle", "rate", "due"} \cup AtSocket] /\ pending' \in [Dir -> BOOLEAN]
    BY <1>1 DEF PaceInv, PacedType, AtSocket
  <2> QED BY <1>1, <2>2, <2>3 DEF PaceInv, PacedType, rateVars
<1>5. \A d \in Dir : \A x : At(d, x)' => phase'[d] = x
  BY <1>1, <1>2, NoneWithin DEF At
<1>6. InOnePlace'
  BY <1>1, <1>2, <1>3, <1>5 DEF PaceInv, InOnePlace, rateVars
<1>7. WithinLimit'
  <2>1. \A d \in Dir : ~At(d, "io")'
    BY <1>3, <1>5
  <2> QED BY <1>1, <2>1 DEF PaceInv, WithinLimit, rateVars
<1> QED BY <1>4, <1>6, <1>7 DEF PaceInv

LEMMA SocketDonePaced ==
  ASSUME PaceInv, NEW d \in Dir, SocketDone(d)
  PROVE  PaceInv'
<1>1. /\ phase[d] \in AtSocket
      /\ phase' = [phase EXCEPT ![d] = "due"]
      /\ UNCHANGED <<open, pending, timerVars, room, rateVars, ops, last>>
  BY DEF SocketDone
<1>2. /\ ready \in Seq(PacedHandler) /\ ~HasOp(ready, d)
      /\ room[d] \in 0 .. MaxBytes /\ \A c \in Dir : room[c] \in Nat
  BY <1>1, BasicStreamAssumption DEF PaceInv, PacedType, InOnePlace, AtSocket
<1>3. PICK h \in PacedHandler : /\ ready' = ready \o <<h>>
                                /\ h.k = "op" /\ h.d = d /\ h.at = phase[d]
                                /\ h.at = "io" => h.n <= room[d]
  <2>1. CASE phase[d] = "io" /\ \E n \in 1 .. room[d] : ready' = Append(ready, OpHandler(d, "io", "ok", n))
    <3>1. PICK n \in 1 .. room[d] : ready' = Append(ready, OpHandler(d, "io", "ok", n))
      BY <2>1
    <3>2. OpHandler(d, "io", "ok", n) \in PacedHandler
      BY <1>2, BasicStreamAssumption DEF OpHandler, PacedHandler, AtSocket
    <3>3. Append(ready, OpHandler(d, "io", "ok", n)) = ready \o <<OpHandler(d, "io", "ok", n)>>
      BY <1>2, <3>2
    <3>4. n <= room[d]
      BY <1>2
    <3> QED BY <2>1, <3>1, <3>2, <3>3, <3>4 DEF OpHandler
  <2>2. ASSUME NEW ec \in {"ok", "error"}, ready' = Append(ready, OpHandler(d, phase[d], ec, 0))
        PROVE  \E h \in PacedHandler : /\ ready' = ready \o <<h>>
                                       /\ h.k = "op" /\ h.d = d /\ h.at = phase[d]
                                       /\ h.at = "io" => h.n <= room[d]
    <3>1. OpHandler(d, phase[d], ec, 0) \in PacedHandler
      BY <1>1, BasicStreamAssumption DEF OpHandler, PacedHandler
    <3>2. Append(ready, OpHandler(d, phase[d], ec, 0)) = ready \o <<OpHandler(d, phase[d], ec, 0)>>
      BY <1>2, <3>1
    <3>3. 0 <= room[d]
      BY <1>2, BasicStreamAssumption
    <3> QED BY <2>2, <3>1, <3>2, <3>3 DEF OpHandler
  <2> QED BY <2>1, <2>2 DEF SocketDone
<1>4. /\ <<h>> \in Seq(PacedHandler)
      /\ \A c : HasOp(<<h>>, c) <=> h.d = c
      /\ \A c, x : HasOpAt(<<h>>, c, x) <=> h.d = c /\ h.at = x
      /\ \A c : OneOp(<<h>>, c)
      /\ \A c : Within(<<h>>, c, room[c])
  <2>1. /\ <<h>> \in Seq(PacedHandler)
        /\ \A c : HasOp(<<h>>, c) <=> h.d = c
        /\ \A c, x : HasOpAt(<<h>>, c, x) <=> h.d = c /\ h.at = x
        /\ \A c : OneOp(<<h>>, c)
        /\ \A c, m : h.d = c /\ h.at = "io" /\ h.n <= m => Within(<<h>>, c, m)
        /\ \A c, m : ~(h.d = c /\ h.at = "io") => Within(<<h>>, c, m)
    BY <1>3, PacedAlone
  <2>2. \A c : Within(<<h>>, c, room[c])
    BY <1>3, <2>1
  <2> QED BY <2>1, <2>2
<1>5. /\ ready' \in Seq(PacedHandler)
      /\ \A c : /\ HasOp(ready', c) <=> HasOp(ready, c) \/ HasOp(<<h>>, c)
                /\ \A x : HasOpAt(ready', c, x) <=> HasOpAt(ready, c, x) \/ HasOpAt(<<h>>, c, x)
                /\ OneOp(ready, c) /\ OneOp(<<h>>, c) /\ ~(HasOp(ready, c) /\ HasOp(<<h>>, c)) => OneOp(ready', c)
                /\ \A m : Within(ready, c, m) /\ Within(<<h>>, c, m) => Within(ready', c, m)
  BY <1>2, <1>3, <1>4, PacedJoined
<1>6. \A c \in Dir : phase'[c] = IF c = d THEN "due" ELSE phase[c]
  BY <1>1 DEF PaceInv, PacedType
<1>7. \A c \in Dir : \A x \in AtSocket : At(c, x)' => At(c, x)
  BY <1>3, <1>4, <1>5, <1>6 DEF At, AtSocket
<1>8. PacedType'
  <2>1. phase' \in [Dir -> {"idle", "rate", "due"} \cup AtSocket]
    BY <1>1 DEF PaceInv, PacedType
  <2> QED BY <1>1, <1>5, <2>1 DEF PaceInv, PacedType, timerVars, rateVars
<1>9. InOnePlace'
  <2>1. phase["read"] = "idle" => phase'["read"] = "idle"
    BY <1>1, <1>6 DEF Dir, AtSocket
  <2>2. \A c \in Dir : At(c, "connect")' => c = "write" /\ phase'["read"] = "idle" /\ pending'["read"]
    BY <1>1, <1>7, <2>1 DEF PaceInv, InOnePlace, AtSocket
  <2>3. \A c \in Dir : OneOp(ready', c) /\ (HasOp(ready', c) => phase'[c] = "due")
    <3> TAKE c \in Dir
    <3>1. OneOp(ready, c) /\ (HasOp(ready, c) => phase[c] = "due") /\ (HasOp(<<h>>, c) <=> c = d)
      BY <1>3, <1>4 DEF PaceInv, InOnePlace
    <3> QED BY <1>2, <1>4, <1>5, <1>6, <3>1
  <2>4. \A c \in Dir : /\ OneWaiter(rateWaits', c)
                       /\ Waiter(rateWaits', c) => phase'[c] = "rate"
                       /\ phase'[c] # "idle" => pending'[c]
    <3> TAKE c \in Dir
    <3>1. /\ OneWaiter(rateWaits, c)
          /\ Waiter(rateWaits, c) => phase[c] = "rate"
          /\ phase[c] # "idle" => pending[c]
      BY DEF PaceInv, InOnePlace
    <3>2. rateWaits' = rateWaits /\ pending' = pending
      BY <1>1 DEF rateVars
    <3> QED BY <1>1, <1>6, <3>1, <3>2 DEF AtSocket
  <2> QED BY <2>2, <2>3, <2>4 DEF InOnePlace
<1>10. WithinLimit'
  <2>1. \A c \in Dir : Within(ready', c, room[c])
    BY <1>4, <1>5 DEF PaceInv, WithinLimit
  <2> QED BY <1>1, <1>7, <2>1 DEF PaceInv, WithinLimit, rateVars, AtSocket
<1> QED BY <1>8, <1>9, <1>10 DEF PaceInv

LEMMA LeastOfTwo ==
  ASSUME NEW a \in Nat, NEW b \in Nat
  PROVE  /\ Min({a, b}) = IF a <= b THEN a ELSE b
         /\ Max({a, b}) = IF a <= b THEN b ELSE a
BY DEF Min, Max

(* A wait on the rate timer joins those that are there.                    *)
LEMMA WaiterJoins ==
  ASSUME NEW w \in Seq(Dir \cup {"slice"}), NEW x \in Dir \cup {"slice"}
  PROVE  /\ Append(w, x) \in Seq(Dir \cup {"slice"})
         /\ \A d : /\ Waiter(Append(w, x), d) <=> Waiter(w, d) \/ d = x
                   /\ OneWaiter(w, d) /\ ~(d = x /\ Waiter(w, d)) => OneWaiter(Append(w, x), d)
<1> DEFINE v == Append(w, x)
<1>1. /\ v \in Seq(Dir \cup {"slice"}) /\ Len(v) = Len(w) + 1 /\ Len(w) \in Nat /\ v[Len(v)] = x
      /\ \A i \in 1 .. Len(w) : v[i] = w[i]
  OBVIOUS
<1> HIDE DEF v
<1>2. /\ Len(v) \in 1 .. Len(v)
      /\ \A i \in 1 .. Len(w) : i \in 1 .. Len(v)
      /\ \A i \in 1 .. Len(v) : i = Len(v) \/ i \in 1 .. Len(w)
  BY <1>1
<1>3. \A d : Waiter(v, d) <=> Waiter(w, d) \/ d = x
  BY <1>1, <1>2 DEF Waiter
<1>4. ASSUME NEW d, OneWaiter(w, d), ~(d = x /\ Waiter(w, d)) PROVE OneWaiter(v, d)
  BY <1>1, <1>2, <1>4 DEF OneWaiter, Waiter
<1> QED BY <1>1, <1>3, <1>4 DEF v

LEMMA StartTransferPaced ==
  ASSUME PaceInv, NEW d \in Dir, NEW n \in 0 .. MaxBytes, StartTransfer(d, n)
  PROVE  PaceInv'
<1>1. /\ ~pending[d]
      /\ pending' = [pending EXCEPT ![d] = TRUE]
      /\ waits' = waits \/ waits' = [waits EXCEPT ![d] = Append(@, tick[d])]
      /\ UNCHANGED <<open, timeout, tick, expiry, rateExpiry, remain, ready, sliced, over, last>>
  BY DEF StartTransfer, Arm
<1>2. PICK x \in {"noop", "io", "rate"} :
        /\ phase' = [phase EXCEPT ![d] = x]
        /\ x = "noop" => room' = room
        /\ x = "io" => Available(d) > 0 /\ room' = [room EXCEPT ![d] = Min({n, Available(d)})]
        /\ x = "rate" => room' = [room EXCEPT ![d] = n]
        /\ rateWaits' = IF x = "rate" THEN Append(rateWaits, d) ELSE rateWaits
  BY DEF StartTransfer
<1>3. /\ phase[d] = "idle" /\ ~HasOp(ready, d) /\ ~Waiter(rateWaits, d)
      /\ \A y : ~HasOpAt(ready, d, y)
  <2>1. phase[d] = "idle" /\ ~HasOp(ready, d) /\ ~Waiter(rateWaits, d)
    BY <1>1 DEF PaceInv, InOnePlace
  <2> QED BY <2>1, NoneWithin
<1>4. \A c \in Dir : phase'[c] = IF c = d THEN x ELSE phase[c]
  BY <1>2 DEF PaceInv, PacedType
<1>5. \A c \in Dir : \A y : At(c, y)' <=> IF c = d THEN x = y ELSE At(c, y)
  BY <1>1, <1>3, <1>4 DEF At
<1>6. /\ Available(d) \in Nat
      /\ Limited => Available(d) = remain[d]
  BY BasicStreamAssumption DEF Available, PaceInv, PacedType
<1>7. room' \in [Dir -> 0 .. MaxBytes]
  <2>1. Min({n, Available(d)}) \in 0 .. MaxBytes
    BY <1>6, LeastOfTwo, BasicStreamAssumption
  <2> QED BY <1>2, <2>1 DEF PaceInv, PacedType
<1>8. /\ rateWaits' \in Seq(Dir \cup {"slice"})
      /\ \A c \in Dir : /\ OneWaiter(rateWaits', c)
                        /\ Waiter(rateWaits', c) => IF c = d THEN x = "rate" ELSE Waiter(rateWaits, c)
  <2>1. rateWaits \in Seq(Dir \cup {"slice"}) /\ \A c \in Dir : OneWaiter(rateWaits, c)
    BY DEF PaceInv, PacedType, InOnePlace
  <2>2. CASE x = "rate"
    <3>1. rateWaits' = Append(rateWaits, d) /\ d \in Dir \cup {"slice"}
      BY <1>2, <2>2
    <3>2. /\ rateWaits' \in Seq(Dir \cup {"slice"})
          /\ \A c : /\ Waiter(rateWaits', c) <=> Waiter(rateWaits, c) \/ c = d
                    /\ OneWaiter(rateWaits, c) /\ ~(c = d /\ Waiter(rateWaits, c)) => OneWaiter(rateWaits', c)
      BY <2>1, <3>1, WaiterJoins
    <3> QED BY <1>3, <2>1, <2>2, <3>2
  <2>3. CASE x # "rate"
    BY <1>2, <1>3, <2>1, <2>3
  <2> QED BY <2>2, <2>3
<1>9. PacedType'
  <2>1. waits' \in [Dir -> Seq(Nat)]
    <3>1. waits \in [Dir -> Seq(Nat)] /\ tick \in [Dir -> Nat]
      BY DEF PaceInv, PacedType
    <3>2. Append(waits[d], tick[d]) \in Seq(Nat)
      BY <3>1
    <3> QED BY <1>1, <3>1, <3>2
  <2>2. phase' \in [Dir -> {"idle", "rate", "due"} \cup AtSocket] /\ pending' \in [Dir -> BOOLEAN]
    BY <1>1, <1>2 DEF PaceInv, PacedType, AtSocket
  <2> QED BY <1>1, <1>7, <1>8, <2>1, <2>2 DEF PaceInv, PacedType
<1>10. InOnePlace'
  <2>1. \A c \in Dir : At(c, "connect")' => c = "write" /\ phase'["read"] = "idle" /\ pending'["read"]
    <3>1. ASSUME NEW c \in Dir, At(c, "connect")' PROVE c = "write" /\ phase'["read"] = "idle" /\ pending'["read"]
      <4>1. c # d /\ At(c, "connect")
        BY <1>5, <3>1
      <4>2. c = "write" /\ phase["read"] = "idle" /\ pending["read"]
        BY <4>1 DEF PaceInv, InOnePlace
      <4>3. d # "read"
        BY <1>1, <4>2
      <4> QED BY <1>1, <1>4, <4>2, <4>3 DEF Dir
    <3> QED BY <3>1
  <2>2. \A c \in Dir : OneOp(ready', c) /\ (HasOp(ready', c) => phase'[c] = "due")
    BY <1>1, <1>3, <1>4 DEF PaceInv, InOnePlace
  <2>3. \A c \in Dir : (Waiter(rateWaits', c) => phase'[c] = "rate") /\ (phase'[c] # "idle" => pending'[c])
    BY <1>1, <1>4, <1>8, SMTT(40) DEF PaceInv, InOnePlace, PacedType
  <2> QED BY <1>8, <2>1, <2>2, <2>3 DEF InOnePlace
<1>11. WithinLimit'
  <2> SUFFICES ASSUME NEW c \in Dir
               PROVE  /\ Within(ready', c, room'[c])
                      /\ Limited => sliced'[c] + remain'[c] <= Limit + over'[c]
                      /\ Limited /\ At(c, "io")' => room'[c] <= Limit /\ sliced'[c] + room'[c] <= Limit + over'[c]
    BY DEF WithinLimit
  <2>1. /\ Within(ready, c, room[c])
        /\ Limited => sliced[c] + remain[c] <= Limit + over[c]
        /\ Limited /\ At(c, "io") => room[c] <= Limit /\ sliced[c] + room[c] <= Limit + over[c]
    BY DEF PaceInv, WithinLimit
  <2>2. CASE c # d
    <3>1. room'[c] = room[c]
      BY <1>2, <2>2 DEF PaceInv, PacedType
    <3> QED BY <1>1, <1>5, <2>1, <2>2, <3>1
  <2>3. CASE c = d
    <3>1. Within(ready', c, room'[c])
      BY <1>1, <1>3, <2>3, NoneWithin
    <3>2. ASSUME Limited, x = "io" PROVE room'[d] <= Limit /\ sliced[d] + room'[d] <= Limit + over[d]
      <4>1. room'[d] = Min({n, remain[d]})
        BY <1>2, <1>6, <3>2 DEF PaceInv, PacedType
      <4>2. n \in Nat /\ remain[d] \in Nat /\ remain[d] <= Limit /\ Limit \in Nat /\ sliced[d] \in Nat /\ over[d] \in Nat
        BY BasicStreamAssumption DEF PaceInv, PacedType
      <4>3. room'[d] \in Nat /\ room'[d] <= remain[d]
        BY <4>1, <4>2, LeastOfTwo
      <4>4. sliced[d] + remain[d] <= Limit + over[d]
        BY <2>1, <2>3, <3>2
      <4> QED BY <4>2, <4>3, <4>4
    <3> QED BY <1>1, <1>5, <2>1, <2>3, <3>1, <3>2
  <2> QED BY <2>2, <2>3
<1> QED BY <1>9, <1>10, <1>11 DEF PaceInv

LEMMA RateDuePaced ==
  ASSUME PaceInv, RateDue
  PROVE  PaceInv'
<1> DEFINE e == [i \in DOMAIN rateWaits |-> RateHandler(rateWaits[i], "ok")]
<1>1. /\ ready' = ready \o e
      /\ phase' = [d \in Dir |-> IF phase[d] = "rate" THEN "due" ELSE phase[d]]
      /\ rateWaits' = <<>>
      /\ UNCHANGED <<open, pending, timerVars, room, rateExpiry, waiting, remain, ops, sliced, over, last>>
  BY DEF RateDue
<1>2. /\ rateWaits \in Seq(Dir \cup {"slice"}) /\ ready \in Seq(PacedHandler)
      /\ phase \in [Dir -> {"idle", "rate", "due"} \cup AtSocket]
      /\ \A d \in Dir : /\ OneWaiter(rateWaits, d)
                        /\ Waiter(rateWaits, d) => phase[d] = "rate"
                        /\ HasOp(ready, d) => phase[d] = "due"
                        /\ OneOp(ready, d)
                        /\ phase[d] # "idle" => pending[d]
  BY DEF PaceInv, PacedType, InOnePlace
<1>3. e = [i \in DOMAIN rateWaits |-> RateHandler(rateWaits[i], "ok")]
  OBVIOUS
<1> HIDE DEF e
<1>4. /\ e \in Seq(PacedHandler)
      /\ \A d \in Dir : /\ HasOp(e, d) <=> Waiter(rateWaits, d)
                        /\ OneWaiter(rateWaits, d) => OneOp(e, d)
      /\ \A c, x : HasOpAt(e, c, x) => x = "rate"
      /\ \A c, m : Within(e, c, m)
  BY <1>2, <1>3, PacedRates
<1>5. /\ ready \o e \in Seq(PacedHandler)
      /\ \A d : /\ HasOp(ready \o e, d) <=> HasOp(ready, d) \/ HasOp(e, d)
                /\ \A x : HasOpAt(ready \o e, d, x) <=> HasOpAt(ready, d, x) \/ HasOpAt(e, d, x)
                /\ OneOp(ready, d) /\ OneOp(e, d) /\ ~(HasOp(ready, d) /\ HasOp(e, d)) => OneOp(ready \o e, d)
                /\ \A m : Within(ready, d, m) /\ Within(e, d, m) => Within(ready \o e, d, m)
  BY <1>2, <1>4, PacedJoined
<1>6. \A d \in Dir : phase'[d] = IF phase[d] = "rate" THEN "due" ELSE phase[d]
  BY <1>1
<1>7. \A d \in Dir : /\ OneOp(ready', d)
                     /\ HasOp(ready', d) => phase'[d] = "due"
  <2> TAKE d \in Dir
  <2>1. ~(HasOp(ready, d) /\ HasOp(e, d)) /\ OneOp(e, d)
    BY <1>2, <1>4
  <2>2. HasOp(ready', d) => phase[d] = "due" \/ phase[d] = "rate"
    BY <1>1, <1>2, <1>4, <1>5
  <2> QED BY <1>1, <1>2, <1>5, <1>6, <2>1, <2>2
<1>8. \A d \in Dir : \A x \in AtSocket : At(d, x)' => At(d, x)
  BY <1>1, <1>4, <1>5, <1>6 DEF At, AtSocket
<1>9. PacedType'
  <2>1. phase' \in [Dir -> {"idle", "rate", "due"} \cup AtSocket]
    BY <1>1, <1>2
  <2>2. rateWaits' \in Seq(Dir \cup {"slice"})
    BY <1>1
  <2> QED BY <1>1, <1>5, <2>1, <2>2 DEF PaceInv, PacedType, timerVars
<1>10. InOnePlace'
  <2>1. phase["read"] = "idle" => phase'["read"] = "idle"
    BY <1>6 DEF Dir
  <2>2. \A d \in Dir : At(d, "connect")' => d = "write" /\ phase'["read"] = "idle" /\ pending'["read"]
    BY <1>1, <1>8, <2>1 DEF PaceInv, InOnePlace, AtSocket
  <2>3. \A d : ~Waiter(<<>>, d) /\ OneWaiter(<<>>, d)
    BY DEF Waiter, OneWaiter
  <2> QED BY <1>1, <1>2, <1>6, <1>7, <2>2, <2>3 DEF InOnePlace
<1>11. WithinLimit'
  <2>1. \A d \in Dir : Within(ready', d, room[d])
    BY <1>1, <1>4, <1>5 DEF PaceInv, WithinLimit
  <2> QED BY <1>1, <1>8, <2>1 DEF PaceInv, WithinLimit, AtSocket
<1> QED BY <1>9, <1>10, <1>11 DEF PaceInv

(* on_timer(), in the handler of an operation of D or of the slice.        *)
LEMMA SliceTurned ==
  ASSUME PaceInv, NEW D, OnTimer, Grant(D)
  PROVE  /\ rateWaits' \in Seq(Dir \cup {"slice"})
         /\ remain' \in [Dir -> 0 .. Limit] /\ sliced' \in [Dir -> Nat] /\ over' \in [Dir -> Nat]
         /\ \A c \in Dir : /\ OneWaiter(rateWaits', c)
                           /\ Waiter(rateWaits', c) => Waiter(rateWaits, c)
         /\ Limited =>
              \A c \in Dir :
                /\ sliced'[c] + remain'[c] <= Limit + over'[c]
                /\ room[c] <= Limit /\ sliced[c] + room[c] <= Limit + over[c]
                     => sliced'[c] + room[c] <= Limit + over'[c]
                /\ c \in D => sliced'[c] + 1 <= Limit + over'[c]
<1>1. /\ remain \in [Dir -> 0 .. Limit] /\ sliced \in [Dir -> Nat] /\ over \in [Dir -> Nat]
      /\ room \in [Dir -> 0 .. MaxBytes] /\ Limit \in Nat \ {0}
      /\ \A c \in Dir : room[c] \in Nat
      /\ rateWaits \in Seq(Dir \cup {"slice"})
      /\ \A c \in Dir : OneWaiter(rateWaits, c)
      /\ Limited => \A c \in Dir : sliced[c] + remain[c] <= Limit + over[c]
  BY BasicStreamAssumption DEF PaceInv, PacedType, InOnePlace, WithinLimit
<1>2. CASE waiting = 1
  <2>1. /\ rateWaits' = Append(rateWaits, "slice")
        /\ remain' = [d \in Dir |-> Limit]
        /\ sliced' = [d \in Dir |-> 0]
        /\ over' = [d \in Dir |-> 0]
    BY <1>2 DEF OnTimer, Grant
  <2>2. /\ rateWaits' \in Seq(Dir \cup {"slice"})
        /\ \A c : /\ Waiter(rateWaits', c) <=> Waiter(rateWaits, c) \/ c = "slice"
                  /\ OneWaiter(rateWaits, c) /\ ~(c = "slice" /\ Waiter(rateWaits, c)) => OneWaiter(rateWaits', c)
    BY <1>1, <2>1, WaiterJoins
  <2>3. \A c \in Dir : OneWaiter(rateWaits', c) /\ (Waiter(rateWaits', c) => Waiter(rateWaits, c))
    BY <1>1, <2>2 DEF Dir
  <2>4. remain' \in [Dir -> 0 .. Limit] /\ sliced' \in [Dir -> Nat] /\ over' \in [Dir -> Nat]
    BY <1>1, <2>1
  <2>5. \A c \in Dir : remain'[c] = Limit /\ sliced'[c] = 0 /\ over'[c] = 0
    BY <2>1
  <2> QED BY <1>1, <2>2, <2>3, <2>4, <2>5
<1>3. CASE waiting > 1
  <2>1. /\ UNCHANGED <<rateWaits, remain, sliced>> /\ waiting # 1
        /\ over' = [d \in Dir |-> over[d] + IF d \in D /\ remain[d] = 0 THEN 1 ELSE 0]
    BY <1>3 DEF OnTimer, Grant
  <2>2. /\ over' \in [Dir -> Nat]
        /\ \A c \in Dir : over'[c] = over[c] + IF c \in D /\ remain[c] = 0 THEN 1 ELSE 0
    BY <1>1, <2>1
  <2>3. ASSUME Limited, NEW c \in Dir
        PROVE  /\ sliced[c] + remain[c] <= Limit + over'[c]
               /\ sliced[c] + room[c] <= Limit + over[c] => sliced[c] + room[c] <= Limit + over'[c]
               /\ c \in D => sliced[c] + 1 <= Limit + over'[c]
    <3>1. /\ remain[c] \in Nat /\ sliced[c] \in Nat /\ over[c] \in Nat /\ room[c] \in Nat /\ Limit \in Nat
          /\ sliced[c] + remain[c] <= Limit + over[c]
      BY <1>1, <2>3
    <3>2. CASE c \in D /\ remain[c] = 0
      BY <2>2, <3>1, <3>2
    <3>3. CASE ~(c \in D /\ remain[c] = 0)
      <4>1. over'[c] = over[c]
        BY <2>2, <3>1, <3>3
      <4>2. c \in D => remain[c] >= 1
        BY <3>1, <3>3
      <4> QED BY <3>1, <4>1, <4>2
    <3> QED BY <3>2, <3>3
  <2> QED BY <1>1, <2>1, <2>2, <2>3
<1> QED BY <1>2, <1>3 DEF OnTimer

LEMMA OnSlicePaced ==
  ASSUME PaceInv, ready # <<>>, Head(ready).k = "slice", OnSlice(Head(ready))
  PROVE  PaceInv'
<1>1. ready' = due /\ UNCHANGED <<open, pending, timerVars, phase, room, ops, last>>
  BY DEF OnSlice
<1>2. CASE UNCHANGED rateVars
  BY <1>1, <1>2, PacedDropped DEF timerVars, rateVars
<1>3. CASE OnTimer /\ Grant({})
  <2>1. /\ rateWaits' \in Seq(Dir \cup {"slice"})
        /\ remain' \in [Dir -> 0 .. Limit] /\ sliced' \in [Dir -> Nat] /\ over' \in [Dir -> Nat]
        /\ \A c \in Dir : /\ OneWaiter(rateWaits', c)
                          /\ Waiter(rateWaits', c) => Waiter(rateWaits, c)
        /\ Limited =>
             \A c \in Dir :
               /\ sliced'[c] + remain'[c] <= Limit + over'[c]
               /\ room[c] <= Limit /\ sliced[c] + room[c] <= Limit + over[c]
                    => sliced'[c] + room[c] <= Limit + over'[c]
    BY <1>3, SliceTurned
  <2>2. /\ due \in Seq(PacedHandler)
        /\ \A d \in Dir : /\ HasOp(due, d) => HasOp(ready, d)
                          /\ \A x : HasOpAt(due, d, x) => HasOpAt(ready, d, x)
                          /\ OneOp(due, d)
                          /\ Within(due, d, room[d])
    BY PacedHead
  <2>3. \A d \in Dir : \A x : At(d, x)' => At(d, x)
    BY <1>1, <2>2 DEF At
  <2>4. PacedType'
    BY <1>1, <2>1, <2>2 DEF PaceInv, PacedType, timerVars
  <2>5. InOnePlace'
    BY <1>1, <2>1, <2>2, <2>3 DEF PaceInv, InOnePlace
  <2>6. WithinLimit'
    <3> SUFFICES ASSUME NEW c \in Dir
                 PROVE  /\ Within(ready', c, room'[c])
                        /\ Limited => sliced'[c] + remain'[c] <= Limit + over'[c]
                        /\ Limited /\ At(c, "io")' => room'[c] <= Limit /\ sliced'[c] + room'[c] <= Limit + over'[c]
      BY DEF WithinLimit
    <3>1. Limited /\ At(c, "io") => room[c] <= Limit /\ sliced[c] + room[c] <= Limit + over[c]
      BY DEF PaceInv, WithinLimit
    <3> QED BY <1>1, <2>1, <2>2, <2>3, <3>1
  <2> QED BY <2>4, <2>5, <2>6 DEF PaceInv
<1> QED BY <1>2, <1>3 DEF OnSlice

LEMMA OnRatePaced ==
  ASSUME PaceInv, ready # <<>>, Head(ready).k = "op", Head(ready).at = "rate", OnRate(Head(ready))
  PROVE  PaceInv'
<1>0. PICK hd \in PacedHandler : hd = Head(ready)
  BY PacedHead
<1>d. PICK d \in Dir : d = hd.d
  BY <1>0 DEF PacedHandler
<1>1. IsOp(hd, d) /\ IsOpAt(hd, d, "rate")
  BY <1>0, <1>d DEF IsOp, IsOpAt
<1>2. /\ ~HasOp(due, d) /\ phase[d] = "due" /\ pending[d]
      /\ due \in Seq(PacedHandler)
      /\ \A c \in Dir : /\ HasOp(due, c) => HasOp(ready, c)
                        /\ \A x : HasOpAt(due, c, x) => HasOpAt(ready, c, x)
                        /\ OneOp(due, c)
                        /\ Within(due, c, room[c])
  BY <1>0, <1>1, PacedHead
<1>3. /\ \A x : ~HasOpAt(due, d, x)
      /\ \A m : Within(due, d, m)
  BY <1>2, NoneWithin
<1>4. \A c \in Dir : /\ OneWaiter(rateWaits, c)
                     /\ HasOp(ready, c) => phase[c] = "due"
                     /\ Waiter(rateWaits, c) => phase[c] = "rate"
                     /\ phase[c] # "idle" => pending[c]
                     /\ At(c, "connect") => c = "write" /\ phase["read"] = "idle" /\ pending["read"]
  BY DEF PaceInv, InOnePlace
<1>5. ~Waiter(rateWaits, d)
  BY <1>2, <1>4
<1>6. ASSUME OnTimer, Grant({d}), ready' = due, phase' = [phase EXCEPT ![d] = "io"],
             room' = [room EXCEPT ![d] = Min({@, Max({remain'[d], 1})})],
             UNCHANGED <<open, pending, timerVars, ops, last>>
      PROVE  PaceInv'
  <2>1. /\ rateWaits' \in Seq(Dir \cup {"slice"})
        /\ remain' \in [Dir -> 0 .. Limit] /\ sliced' \in [Dir -> Nat] /\ over' \in [Dir -> Nat]
        /\ \A c \in Dir : /\ OneWaiter(rateWaits', c)
                          /\ Waiter(rateWaits', c) => Waiter(rateWaits, c)
        /\ Limited =>
             \A c \in Dir :
               /\ sliced'[c] + remain'[c] <= Limit + over'[c]
               /\ room[c] <= Limit /\ sliced[c] + room[c] <= Limit + over[c]
                    => sliced'[c] + room[c] <= Limit + over'[c]
               /\ c \in {d} => sliced'[c] + 1 <= Limit + over'[c]
    BY <1>6, SliceTurned
  <2>2. \A c \in Dir : phase'[c] = IF c = d THEN "io" ELSE phase[c]
    BY <1>6 DEF PaceInv, PacedType
  <2>3. /\ \A c \in Dir : c # d => room'[c] = room[c]
        /\ room'[d] = Min({room[d], Max({remain'[d], 1})})
        /\ room \in [Dir -> 0 .. MaxBytes]
    BY <1>6 DEF PaceInv, PacedType
  <2>4. /\ room'[d] \in 0 .. room[d]
        /\ room'[d] <= remain'[d] \/ room'[d] <= 1
        /\ remain'[d] \in Nat
    <3>1. room[d] \in Nat /\ remain'[d] \in Nat
      BY <2>1, <2>3, BasicStreamAssumption
    <3>2. ASSUME NEW a \in Nat, NEW b \in Nat
          PROVE  Min({b, Max({a, 1})}) \in 0 .. b /\ (Min({b, Max({a, 1})}) <= a \/ Min({b, Max({a, 1})}) <= 1)
      <4>1. Max({a, 1}) = IF a <= 1 THEN 1 ELSE a
        BY LeastOfTwo
      <4>2. Max({a, 1}) \in Nat
        BY <4>1
      <4> DEFINE m == Max({a, 1})
      <4> HIDE DEF m
      <4>3. Min({b, m}) = IF b <= m THEN b ELSE m
        BY <4>2, LeastOfTwo DEF m
      <4> QED BY <4>1, <4>2, <4>3 DEF m
    <3> DEFINE r == remain'[d]
    <3> HIDE DEF r
    <3>3. r \in Nat /\ room'[d] = Min({room[d], Max({r, 1})})
      BY <2>3, <3>1 DEF r
    <3>4. room'[d] \in 0 .. room[d] /\ (room'[d] <= r \/ room'[d] <= 1)
      BY <3>1, <3>2, <3>3
    <3> QED BY <3>1, <3>4 DEF r
  <2>5. \A c \in Dir : \A x : At(c, x)' => IF c = d THEN x = "io" ELSE At(c, x)
    BY <1>2, <1>3, <1>6, <2>2 DEF At
  <2>6. PacedType'
    <3>1. room' \in [Dir -> 0 .. MaxBytes]
      <4>1. room'[d] \in 0 .. MaxBytes
        BY <2>3, <2>4, BasicStreamAssumption
      <4>2. room' = [room EXCEPT ![d] = room'[d]]
        BY <1>6, <2>3
      <4> QED BY <2>3, <4>1, <4>2
    <3>2. phase' \in [Dir -> {"idle", "rate", "due"} \cup AtSocket]
      BY <1>6 DEF PaceInv, PacedType, AtSocket
    <3> QED BY <1>2, <1>6, <2>1, <3>1, <3>2 DEF PaceInv, PacedType, timerVars
  <2>7. InOnePlace'
    <3>1. \A c \in Dir : At(c, "connect")' => c = "write" /\ phase'["read"] = "idle" /\ pending'["read"]
      <4> TAKE c \in Dir
      <4>1. At(c, "connect")' => c # d /\ At(c, "connect")
        BY <2>5
      <4>2. phase["read"] = "idle" => phase'["read"] = "idle"
        BY <1>2, <2>2 DEF Dir
      <4> QED BY <1>4, <1>6, <4>1, <4>2
    <3>2. \A c \in Dir : /\ OneOp(ready', c)
                         /\ HasOp(ready', c) => phase'[c] = "due"
      BY <1>2, <1>4, <1>6, <2>2
    <3>3. \A c \in Dir : /\ OneWaiter(rateWaits', c)
                         /\ Waiter(rateWaits', c) => phase'[c] = "rate"
                         /\ phase'[c] # "idle" => pending'[c]
      BY <1>2, <1>4, <1>5, <1>6, <2>1, <2>2
    <3> QED BY <3>1, <3>2, <3>3 DEF InOnePlace
  <2>8. WithinLimit'
    <3> SUFFICES ASSUME NEW c \in Dir
                 PROVE  /\ Within(ready', c, room'[c])
                        /\ Limited => sliced'[c] + remain'[c] <= Limit + over'[c]
                        /\ Limited /\ At(c, "io")' => room'[c] <= Limit /\ sliced'[c] + room'[c] <= Limit + over'[c]
      BY DEF WithinLimit
    <3>1. Within(ready', c, room'[c])
      BY <1>2, <1>3, <1>6, <2>3
    <3>2. CASE c # d
      <4>1. Limited /\ At(c, "io") => room[c] <= Limit /\ sliced[c] + room[c] <= Limit + over[c]
        BY DEF PaceInv, WithinLimit
      <4> QED BY <2>1, <2>3, <2>5, <3>1, <3>2, <4>1
    <3>3. CASE c = d
      <4>1. /\ sliced'[d] \in Nat /\ over'[d] \in Nat /\ remain'[d] \in Nat /\ remain'[d] <= Limit
            /\ Limit \in Nat /\ Limit >= 1 /\ room'[d] \in Nat
        BY <2>1, <2>3, <2>4, BasicStreamAssumption
      <4>2. Limited => /\ sliced'[d] + remain'[d] <= Limit + over'[d]
                       /\ sliced'[d] + 1 <= Limit + over'[d]
        BY <2>1
      <4>3. CASE room'[d] <= remain'[d]
        BY <3>1, <3>3, <4>1, <4>2, <4>3
      <4>4. CASE room'[d] <= 1
        BY <3>1, <3>3, <4>1, <4>2, <4>4
      <4> QED BY <2>4, <4>3, <4>4
    <3> QED BY <3>2, <3>3
  <2> QED BY <2>6, <2>7, <2>8 DEF PaceInv
<1>7. ASSUME ready' = due, pending' = [e \in Dir |-> pending[e] /\ e \notin {d}],
             phase' = [phase EXCEPT ![d] = "idle"],
             UNCHANGED <<open, tick, expiry, waits, room, rateVars, ops>>
      PROVE  PaceInv'
  <2>1. \A c \in Dir : phase'[c] = IF c = d THEN "idle" ELSE phase[c]
    BY <1>7 DEF PaceInv, PacedType
  <2>2. \A c \in Dir : \A x \in AtSocket : At(c, x)' => c # d /\ At(c, x)
    BY <1>2, <1>3, <1>7, <2>1 DEF At, AtSocket
  <2>3. PacedType'
    <3>1. phase' \in [Dir -> {"idle", "rate", "due"} \cup AtSocket] /\ pending' \in [Dir -> BOOLEAN]
      BY <1>7 DEF PaceInv, PacedType
    <3> QED BY <1>2, <1>7, <3>1 DEF PaceInv, PacedType, rateVars
  <2>4. InOnePlace'
    <3>1. \A c \in Dir : At(c, "connect")' => c = "write" /\ phase'["read"] = "idle" /\ pending'["read"]
      <4>1. ASSUME NEW c \in Dir, At(c, "connect")'
            PROVE  c = "write" /\ phase["read"] = "idle" /\ pending["read"] /\ d = "read"
        BY <1>4, <2>2, <4>1 DEF AtSocket, Dir
      <4> QED BY <1>2, <4>1
    <3>2. \A c \in Dir : /\ OneOp(ready', c)
                         /\ HasOp(ready', c) => phase'[c] = "due"
      BY <1>2, <1>4, <1>7, <2>1
    <3>3. \A c \in Dir : /\ OneWaiter(rateWaits', c)
                         /\ Waiter(rateWaits', c) => phase'[c] = "rate"
                         /\ phase'[c] # "idle" => pending'[c]
      <4> TAKE c \in Dir
      <4>1. rateWaits' = rateWaits /\ pending'[c] = (pending[c] /\ c # d)
        BY <1>7 DEF rateVars
      <4> QED BY <1>4, <1>5, <2>1, <4>1
    <3> QED BY <3>1, <3>2, <3>3 DEF InOnePlace
  <2>5. WithinLimit'
    BY <1>2, <1>7, <2>2 DEF PaceInv, WithinLimit, rateVars, AtSocket
  <2> QED BY <2>3, <2>4, <2>5 DEF PaceInv
<1> QED BY <1>0, <1>d, <1>6, <1>7 DEF OnRate, Upcall

LEMMA NextPaced ==
  ASSUME PaceInv, [Next]_vars
  PROVE  PaceInv'
<1>1. /\ ready \in Seq(PacedHandler) /\ waits \in [Dir -> Seq(Nat)] /\ tick \in [Dir -> Nat]
  BY DEF PaceInv, PacedType
<1>2. CASE \/ UNCHANGED vars
           \/ RateExpire
           \/ \E d \in Dir : Expire(d)
  <2>1. UNCHANGED <<pending, phase, room, remain, sliced, over, rateWaits, tick, waits, ready>>
    BY <1>2 DEF vars, RateExpire, Expire, rateVars, timerVars
  <2> QED BY <1>1, <2>1, PacedAside
<1>3. CASE RunHandler
  <2>1. ready # <<>>
    BY <1>3 DEF RunHandler
  <2> QED BY <1>3, <2>1, OnDeadlinePaced, OnSlicePaced, OnTransferPaced, OnNoopPaced, OnRatePaced,
             OnConnectPaced DEF RunHandler
<1>4. CASE User
  BY <1>4, SetExpiryPaced, UserCancelPaced, StartConnectPaced, StartTransferPaced
     DEF User, ExpiresAfter, ExpiresAt, ExpiresNever
<1>5. CASE RateDue \/ \E d \in Dir : SocketDone(d) \/ DeadlineDue(d)
  BY <1>5, RateDuePaced, SocketDonePaced, DeadlineDuePaced
<1> QED BY <1>2, <1>3, <1>4, <1>5 DEF Next

(* Whatever the rate policy: no slice and direction passes more bytes than *)
(* the limit and those that were granted, one at a time, to operations     *)
(* that had waited and found nothing left.                                 *)
THEOREM SlicesAreBounded == Spec => []SliceBound
<1>1. PaceInv => SliceBound
  <2> SUFFICES ASSUME PaceInv, Limited, NEW d \in Dir PROVE sliced[d] <= Limit + over[d]
    BY DEF SliceBound
  <2>1. /\ remain[d] \in Nat /\ sliced[d] \in Nat /\ over[d] \in Nat /\ Limit \in Nat
        /\ sliced[d] + remain[d] <= Limit + over[d]
    BY BasicStreamAssumption DEF PaceInv, PacedType, WithinLimit
  <2> QED BY <2>1
<1>2. PaceInv /\ [Next]_vars => PaceInv'
  BY NextPaced
<1> QED BY PaceInit, <1>1, <1>2, PTL DEF Spec

(***************************************************************************)
(* The waits for a slice and impl_type::waiting.                           *)
(***************************************************************************)
HasSlice(r) == \E i \in 1 .. Len(r) : r[i].k = "slice"
OneSlice(r) == \A i, j \in 1 .. Len(r) : r[i].k = "slice" /\ r[j].k = "slice" => i = j

(* x is on the rate timer, or its handler for that wait is due.            *)
Turns(x) ==
  \/ Waiter(rateWaits, x)
  \/ x \in Dir /\ HasOpAt(ready, x, "rate")
  \/ x = "slice" /\ HasSlice(ready)

One(p) == IF p THEN 1 ELSE 0

(* waiting counts at least those whose turn is to come.                    *)
TurnInv ==
  /\ waiting \in Nat
  /\ OneSlice(ready)
  /\ OneWaiter(rateWaits, "slice")
  /\ ~(Waiter(rateWaits, "slice") /\ HasSlice(ready))
  /\ waiting >= One(Turns("read")) + One(Turns("write")) + One(Turns("slice"))

(* s has no turn that r has not.                                           *)
NoNewTurn(r, s) ==
  /\ HasSlice(s) => HasSlice(r)
  /\ OneSlice(r) => OneSlice(s)
  /\ \A d \in Dir : HasOpAt(s, d, "rate") => HasOpAt(r, d, "rate")

(* No handler of e has waited for a slice.                                 *)
OffRate(e) == ~HasSlice(e) /\ \A d \in Dir : ~HasOpAt(e, d, "rate")

LEMMA SliceJoined ==
  ASSUME NEW r \in Seq(PacedHandler), NEW e \in Seq(PacedHandler)
  PROVE  /\ HasSlice(r \o e) <=> HasSlice(r) \/ HasSlice(e)
         /\ OneSlice(r) /\ OneSlice(e) /\ ~(HasSlice(r) /\ HasSlice(e)) => OneSlice(r \o e)
<1> DEFINE s == r \o e
<1>1. s \in Seq(PacedHandler) /\ Len(s) = Len(r) + Len(e) /\ Len(r) \in Nat /\ Len(e) \in Nat
  OBVIOUS
<1>2. \A i \in 1 .. Len(r) : i \in 1 .. Len(s) /\ s[i] = r[i]
  OBVIOUS
<1>3. \A i \in 1 .. Len(e) : Len(r) + i \in 1 .. Len(s) /\ s[Len(r) + i] = e[i]
  OBVIOUS
<1>4. \A i \in 1 .. Len(s) : \/ i \in 1 .. Len(r) /\ s[i] = r[i]
                             \/ /\ i \notin 1 .. Len(r)
                                /\ i - Len(r) \in 1 .. Len(e)
                                /\ s[i] = e[i - Len(r)]
  OBVIOUS
<1> HIDE DEF s
<1>5. HasSlice(s) <=> HasSlice(r) \/ HasSlice(e)
  BY <1>1, <1>2, <1>3, <1>4 DEF HasSlice
<1>6. ASSUME OneSlice(r), OneSlice(e), ~(HasSlice(r) /\ HasSlice(e)) PROVE OneSlice(s)
  <2> SUFFICES ASSUME NEW i \in 1 .. Len(s), NEW j \in 1 .. Len(s), s[i].k = "slice", s[j].k = "slice"
               PROVE  i = j
    BY DEF OneSlice
  <2>1. i \in 1 .. Len(r) \/ j \in 1 .. Len(r) => i \in 1 .. Len(r) /\ j \in 1 .. Len(r)
    BY <1>4, <1>6 DEF HasSlice
  <2>2. CASE i \in 1 .. Len(r) /\ j \in 1 .. Len(r)
    BY <1>4, <1>6, <2>2 DEF OneSlice
  <2>3. CASE i \notin 1 .. Len(r) /\ j \notin 1 .. Len(r)
    <3>1. i - Len(r) = j - Len(r)
      BY <1>4, <1>6, <2>3 DEF OneSlice
    <3> QED BY <1>1, <3>1
  <2> QED BY <2>1, <2>2, <2>3
<1> QED BY <1>5, <1>6 DEF s

LEMMA SliceLeft ==
  ASSUME NEW r \in Seq(PacedHandler), r # <<>>
  PROVE  /\ NoNewTurn(r, Tail(r))
         /\ Head(r).k = "slice" => HasSlice(r)
         /\ OneSlice(r) => ~(Head(r).k = "slice" /\ HasSlice(Tail(r)))
<1> DEFINE s == Tail(r)
           h == Head(r)
<1>1. /\ s \in Seq(PacedHandler) /\ Len(s) = Len(r) - 1 /\ Len(r) \in Nat \ {0}
      /\ h = r[1] /\ 1 \in 1 .. Len(r)
  OBVIOUS
<1>2. \A i \in 1 .. Len(s) : i + 1 \in 1 .. Len(r) /\ i + 1 # 1 /\ s[i] = r[i + 1]
  OBVIOUS
<1>3. \A d : HasOpAt(s, d, "rate") => HasOpAt(r, d, "rate")
  BY PacedLeft
<1> HIDE DEF s, h
<1>4. (HasSlice(s) => HasSlice(r)) /\ (h.k = "slice" => HasSlice(r))
  BY <1>1, <1>2 DEF HasSlice
<1>5. OneSlice(r) => OneSlice(s) /\ ~(h.k = "slice" /\ HasSlice(s))
  BY <1>1, <1>2, SMTT(40) DEF OneSlice, HasSlice
<1> QED BY <1>3, <1>4, <1>5 DEF s, h, NoNewTurn

LEMMA OffRateNone ==
  ASSUME NEW e, \A i \in 1 .. Len(e) : e[i].k = "deadline" \/ (e[i].k = "op" /\ e[i].at # "rate")
  PROVE  OffRate(e) /\ OneSlice(e)
<1>1. ~HasSlice(e) /\ OneSlice(e)
  BY DEF HasSlice, OneSlice
<1>2. \A d : ~HasOpAt(e, d, "rate")
  BY DEF HasOpAt, IsOpAt, IsOp
<1> QED BY <1>1, <1>2 DEF OffRate

LEMMA OffRateJoined ==
  ASSUME NEW r \in Seq(PacedHandler), NEW e \in Seq(PacedHandler), OffRate(e)
  PROVE  NoNewTurn(r, r \o e)
<1>1. ~HasSlice(e) /\ OneSlice(e)
  BY DEF OffRate, HasSlice, OneSlice
<1>2. /\ HasSlice(r \o e) <=> HasSlice(r) \/ HasSlice(e)
      /\ OneSlice(r) /\ OneSlice(e) /\ ~(HasSlice(r) /\ HasSlice(e)) => OneSlice(r \o e)
  BY SliceJoined
<1>3. \A d : HasOpAt(r \o e, d, "rate") <=> HasOpAt(r, d, "rate") \/ HasOpAt(e, d, "rate")
  BY PacedJoined
<1> QED BY <1>1, <1>2, <1>3 DEF NoNewTurn, OffRate

LEMMA FiredOffRate ==
  ASSUME NEW d \in Dir, NEW w \in Seq(Nat), NEW ec \in {"ok", "aborted"},
         NEW r \in Seq(PacedHandler), NEW s, s = r \o Fired(d, w, ec)
  PROVE  s \in Seq(PacedHandler) /\ NoNewTurn(r, s)
<1> DEFINE e == Fired(d, w, ec)
<1>1. e = [i \in DOMAIN w |-> DeadlineHandler(d, w[i], ec)]
  BY DEF Fired
<1> HIDE DEF e
<1>2. e \in Seq(PacedHandler) /\ \A c, x : ~HasOpAt(e, c, x)
  BY <1>1, PacedDeadlines
<1>3. ~HasSlice(e)
  <2>1. Len(e) = Len(w)
    BY <1>1, <1>2
  <2>2. \A i \in 1 .. Len(w) : e[i].k = "deadline"
    BY <1>1 DEF DeadlineHandler
  <2> QED BY <2>1, <2>2 DEF HasSlice
<1>4. OffRate(e)
  BY <1>2, <1>3 DEF OffRate
<1>5. r \o e \in Seq(PacedHandler) /\ NoNewTurn(r, r \o e)
  BY <1>2, <1>4, OffRateJoined
<1>6. s = r \o e
  BY DEF e
<1> QED BY <1>5, <1>6

LEMMA TurnOf ==
  ASSUME NEW r, NEW s, NoNewTurn(r, s), NEW t, NoNewTurn(s, t)
  PROVE  NoNewTurn(r, t)
BY DEF NoNewTurn

(* Where none waits anew, as many are counted.                             *)
LEMMA NoMoreTurns ==
  ASSUME TurnInv, waiting' = waiting,
         OneSlice(ready'), OneWaiter(rateWaits', "slice"),
         ~(Waiter(rateWaits', "slice") /\ HasSlice(ready')),
         \A x \in Dir \cup {"slice"} : Turns(x)' => Turns(x)
  PROVE  TurnInv'
<1>1. \A x \in {"read", "write", "slice"} : Turns(x)' => Turns(x)
  BY DEF Dir
<1>2. \A x \in {"read", "write", "slice"} : One(Turns(x)') <= One(Turns(x)) /\ One(Turns(x)') \in Nat
  BY <1>1 DEF One
<1>3. \A x \in {"read", "write", "slice"} : One(Turns(x)) \in Nat
  BY DEF One
<1>4. waiting >= One(Turns("read")') + One(Turns("write")') + One(Turns("slice")')
  BY <1>2, <1>3 DEF TurnInv
<1> QED BY <1>4 DEF TurnInv, One

LEMMA TurnAside ==
  ASSUME TurnInv, NoNewTurn(ready, ready'), UNCHANGED <<waiting, rateWaits>>
  PROVE  TurnInv'
<1>1. OneSlice(ready') /\ OneWaiter(rateWaits', "slice") /\ ~(Waiter(rateWaits', "slice") /\ HasSlice(ready'))
  BY DEF TurnInv, NoNewTurn
<1>2. \A x \in Dir \cup {"slice"} : Turns(x)' => Turns(x)
  BY DEF Turns, NoNewTurn
<1> QED BY <1>1, <1>2, NoMoreTurns

(* All that wait on the rate timer become due.                             *)
LEMMA TurnMoved ==
  ASSUME TurnInv, rateWaits \in Seq(Dir \cup {"slice"}), NEW ec \in {"ok", "aborted"},
         NEW q \in Seq(PacedHandler), NoNewTurn(ready, q),
         NEW f, f = [i \in DOMAIN rateWaits |-> RateHandler(rateWaits[i], ec)],
         ready' = q \o f, rateWaits' = <<>>, waiting' = waiting
  PROVE  TurnInv'
<1>1. /\ f \in Seq(PacedHandler)
      /\ \A d \in Dir : HasOp(f, d) <=> Waiter(rateWaits, d)
  BY PacedRates
<1>2. Len(f) = Len(rateWaits)
  BY <1>1
<1>3. \A i \in 1 .. Len(rateWaits) : f[i].k = "slice" <=> rateWaits[i] = "slice"
  BY DEF RateHandler, SliceHandler, OpHandler
<1>4. HasSlice(f) <=> Waiter(rateWaits, "slice")
  BY <1>2, <1>3 DEF HasSlice, Waiter
<1>5. OneSlice(f)
  <2> SUFFICES ASSUME NEW i \in 1 .. Len(f), NEW j \in 1 .. Len(f), f[i].k = "slice", f[j].k = "slice"
               PROVE  i = j
    BY DEF OneSlice
  <2>1. rateWaits[i] = "slice" /\ rateWaits[j] = "slice"
    BY <1>2, <1>3
  <2> QED BY <1>2, <2>1 DEF TurnInv, OneWaiter
<1>6. /\ HasSlice(q \o f) <=> HasSlice(q) \/ HasSlice(f)
      /\ OneSlice(q) /\ OneSlice(f) /\ ~(HasSlice(q) /\ HasSlice(f)) => OneSlice(q \o f)
  BY <1>1, SliceJoined
<1>7. \A d \in Dir : HasOpAt(q \o f, d, "rate") => HasOpAt(q, d, "rate") \/ HasOp(f, d)
  <2>1. \A d : HasOpAt(q \o f, d, "rate") <=> HasOpAt(q, d, "rate") \/ HasOpAt(f, d, "rate")
    BY <1>1, PacedJoined
  <2> QED BY <2>1 DEF HasOpAt, HasOp, IsOpAt
<1>8. ~Waiter(<<>>, "slice") /\ OneWaiter(<<>>, "slice") /\ \A x : ~Waiter(<<>>, x)
  BY DEF Waiter, OneWaiter
<1>9. OneSlice(ready') /\ OneWaiter(rateWaits', "slice") /\ ~(Waiter(rateWaits', "slice") /\ HasSlice(ready'))
  BY <1>4, <1>5, <1>6, <1>8 DEF TurnInv, NoNewTurn
<1>10. \A x \in Dir \cup {"slice"} : Turns(x)' => Turns(x)
  BY <1>1, <1>4, <1>6, <1>7, <1>8 DEF Turns, NoNewTurn
<1> QED BY <1>9, <1>10, NoMoreTurns

LEMMA TurnCancelled ==
  ASSUME TurnInv, PacedType, NEW q \in Seq(PacedHandler), NoNewTurn(ready, q),
         NEW ph \in [Dir -> {"idle", "rate", "due"} \cup AtSocket],
         CancelAll(q, ph), waiting' = waiting
  PROVE  TurnInv'
<1> DEFINE e == SocketAborts(ph)
           f == RateAborts
<1>1. /\ e \in Seq(PacedHandler)
      /\ \A d \in Dir : \A x : HasOpAt(e, d, x) => ph[d] = x
      /\ \A d \in Dir : HasOp(e, d) <=> ph[d] \in AtSocket
  BY PacedAborted
<1>2. ~HasSlice(e)
  <2> DEFINE a(d) == IF ph[d] \in AtSocket THEN <<OpHandler(d, ph[d], "aborted", 0)>> ELSE <<>>
  <2>1. e = a("read") \o a("write")
    BY DEF SocketAborts
  <2>2. \A d \in Dir : a(d) \in Seq(PacedHandler) /\ ~HasSlice(a(d))
    <3> TAKE d \in Dir
    <3>1. CASE ph[d] \in AtSocket
      <4> DEFINE h == OpHandler(d, ph[d], "aborted", 0)
      <4>1. h \in PacedHandler /\ h.k = "op"
        BY <3>1, BasicStreamAssumption DEF OpHandler, PacedHandler
      <4>2. a(d) = <<h>>
        BY <3>1
      <4> HIDE DEF h, a
      <4>3. <<h>> \in Seq(PacedHandler) /\ Len(<<h>>) = 1 /\ <<h>>[1] = h
        BY <4>1
      <4> QED BY <4>1, <4>2, <4>3 DEF HasSlice
    <3>2. CASE ph[d] \notin AtSocket
      <4>1. a(d) = <<>>
        BY <3>2
      <4> HIDE DEF a
      <4> QED BY <4>1, PacedNone DEF HasSlice
    <3> QED BY <3>1, <3>2
  <2> HIDE DEF a, e
  <2>3. a("read") \in Seq(PacedHandler) /\ a("write") \in Seq(PacedHandler) /\ ~HasSlice(a("read")) /\ ~HasSlice(a("write"))
    BY <2>2 DEF Dir
  <2>4. HasSlice(a("read") \o a("write")) <=> HasSlice(a("read")) \/ HasSlice(a("write"))
    BY <2>3, SliceJoined
  <2> QED BY <2>1, <2>3, <2>4
<1>3. OffRate(e)
  <2>1. \A d \in Dir : ~HasOpAt(e, d, "rate")
    <3>1. \A d \in Dir : HasOpAt(e, d, "rate") => HasOp(e, d)
      BY DEF HasOpAt, HasOp, IsOpAt
    <3> QED BY <1>1, <3>1 DEF AtSocket
  <2> QED BY <1>2, <2>1 DEF OffRate
<1>4. /\ ready' = (q \o e) \o f
      /\ rateWaits' = <<>>
      /\ f = [i \in DOMAIN rateWaits |-> RateHandler(rateWaits[i], "aborted")]
  BY DEF CancelAll, RateAborts
<1> HIDE DEF e, f
<1>5. q \o e \in Seq(PacedHandler) /\ NoNewTurn(ready, q \o e)
  BY <1>1, <1>3, OffRateJoined, TurnOf
<1>6. rateWaits \in Seq(Dir \cup {"slice"})
  BY DEF PacedType
<1> DEFINE s == q \o e
<1>7. ready' = s \o f /\ s \in Seq(PacedHandler) /\ NoNewTurn(ready, s)
  BY <1>4, <1>5
<1> HIDE DEF s
<1> QED BY <1>4, <1>6, <1>7, TurnMoved

LEMMA SetExpiryTurns ==
  ASSUME TurnInv, PacedType, NEW x, SetExpiry(x)
  PROVE  TurnInv'
<1> DEFINE a(d) == IF pending[d] THEN <<>>
                   ELSE [i \in DOMAIN waits[d] |-> DeadlineHandler(d, waits[d][i], "aborted")]
           r == ready \o a("read")
<1>1. ready' = ready \o a("read") \o a("write") /\ UNCHANGED rateVars
  BY DEF SetExpiry
<1>2. /\ ready \in Seq(PacedHandler)
      /\ \A d \in Dir : waits[d] \in Seq(Nat)
      /\ "read" \in Dir /\ "write" \in Dir
  BY DEF PacedType, Dir
<1>3. ASSUME NEW q \in Seq(PacedHandler), NEW d \in Dir
      PROVE  q \o a(d) \in Seq(PacedHandler) /\ NoNewTurn(q, q \o a(d))
  <2>1. CASE pending[d]
    <3>1. q \o a(d) = q
      BY <2>1
    <3> HIDE DEF a
    <3> QED BY <3>1 DEF NoNewTurn
  <2>2. CASE ~pending[d]
    <3>1. q \o a(d) = q \o Fired(d, waits[d], "aborted") /\ waits[d] \in Seq(Nat)
      BY <1>2, <2>2 DEF Fired
    <3> HIDE DEF a
    <3> QED BY <3>1, FiredOffRate
  <2> QED BY <2>1, <2>2
<1> HIDE DEF a
<1>4. r \in Seq(PacedHandler) /\ NoNewTurn(ready, r)
  BY <1>2, <1>3
<1> HIDE DEF r
<1>5. ready' = r \o a("write")
  BY <1>1 DEF r
<1>6. NoNewTurn(r, ready')
  BY <1>2, <1>3, <1>4, <1>5
<1> QED BY <1>1, <1>4, <1>6, TurnOf, TurnAside DEF rateVars

LEMMA DeadlineDueTurns ==
  ASSUME TurnInv, PacedType, NEW d \in Dir, DeadlineDue(d)
  PROVE  TurnInv'
<1>1. ready' = ready \o Fired(d, waits[d], "ok") /\ UNCHANGED rateVars
  BY DEF DeadlineDue, Fired
<1>2. ready \in Seq(PacedHandler) /\ waits[d] \in Seq(Nat)
  BY DEF PacedType
<1>3. NoNewTurn(ready, ready')
  BY <1>1, <1>2, FiredOffRate
<1> QED BY <1>1, <1>3, TurnAside DEF rateVars

LEMMA SocketDoneTurns ==
  ASSUME TurnInv, PacedType, NEW d \in Dir, SocketDone(d)
  PROVE  TurnInv'
<1>1. phase[d] \in AtSocket /\ UNCHANGED rateVars /\ ready \in Seq(PacedHandler) /\ room[d] \in 0 .. MaxBytes
  BY DEF SocketDone, PacedType
<1>2. PICK h \in PacedHandler : ready' = Append(ready, h) /\ h.k = "op" /\ h.at # "rate"
  <2>1. \A ec \in {"ok", "error"} : \A n \in 0 .. MaxBytes : \A at \in AtSocket :
          /\ OpHandler(d, at, ec, n) \in PacedHandler
          /\ OpHandler(d, at, ec, n).k = "op" /\ OpHandler(d, at, ec, n).at # "rate"
    BY DEF OpHandler, PacedHandler, AtSocket
  <2>2. \A n \in 1 .. room[d] : n \in 0 .. MaxBytes
    BY <1>1, BasicStreamAssumption
  <2>3. 0 \in 0 .. MaxBytes /\ "io" \in AtSocket
    BY BasicStreamAssumption DEF AtSocket
  <2> QED BY <1>1, <2>1, <2>2, <2>3 DEF SocketDone
<1>3. /\ ready' = ready \o <<h>>
      /\ <<h>> \in Seq(PacedHandler) /\ Len(<<h>>) = 1 /\ <<h>>[1] = h
  BY <1>1, <1>2
<1>4. OffRate(<<h>>)
  BY <1>2, <1>3, OffRateNone
<1>5. NoNewTurn(ready, ready')
  BY <1>1, <1>3, <1>4, OffRateJoined
<1> QED BY <1>1, <1>5, TurnAside DEF rateVars

LEMMA StartTransferTurns ==
  ASSUME TurnInv, PacedType, NEW d \in Dir, NEW n \in 0 .. MaxBytes, StartTransfer(d, n)
  PROVE  TurnInv'
<1>1. CASE UNCHANGED <<waiting, rateWaits, ready>>
  <2>1. NoNewTurn(ready, ready')
    BY <1>1 DEF NoNewTurn
  <2> QED BY <1>1, <2>1, TurnAside
<1>2. CASE waiting' = waiting + 1 /\ rateWaits' = Append(rateWaits, d) /\ ready' = ready
  <2>1. rateWaits \in Seq(Dir \cup {"slice"}) /\ d \in Dir \cup {"slice"} /\ d # "slice"
    BY DEF PacedType, Dir
  <2>2. \A c : /\ Waiter(rateWaits', c) <=> Waiter(rateWaits, c) \/ c = d
               /\ OneWaiter(rateWaits, c) /\ ~(c = d /\ Waiter(rateWaits, c)) => OneWaiter(rateWaits', c)
    BY <1>2, <2>1, WaiterJoins
  <2>3. OneSlice(ready') /\ OneWaiter(rateWaits', "slice") /\ ~(Waiter(rateWaits', "slice") /\ HasSlice(ready'))
    BY <1>2, <2>1, <2>2 DEF TurnInv
  <2>4. \A x \in Dir \cup {"slice"} : x # d => (Turns(x)' => Turns(x))
    BY <1>2, <2>2 DEF Turns
  <2>5. \A p : One(p) \in {0, 1}
    BY DEF One
  <2>6. \A x \in Dir \cup {"slice"} : x # d => One(Turns(x)') <= One(Turns(x))
    BY <2>4 DEF One
  <2>7. waiting' >= One(Turns("read")') + One(Turns("write")') + One(Turns("slice")')
    <3>1. d = "read" \/ d = "write"
      BY DEF Dir
    <3>2. waiting \in Nat /\ waiting >= One(Turns("read")) + One(Turns("write")) + One(Turns("slice"))
      BY DEF TurnInv
    <3>3. ASSUME NEW r \in {0, 1}, NEW w \in {0, 1}, NEW l \in {0, 1},
                 NEW r1 \in {0, 1}, NEW w1 \in {0, 1}, NEW l1 \in {0, 1}, NEW k \in Nat,
                 k >= r + w + l, l1 <= l, r1 <= r \/ w1 <= w
          PROVE  k + 1 >= r1 + w1 + l1
      BY <3>3
    <3>4. \/ One(Turns("read")') <= One(Turns("read"))
          \/ One(Turns("write")') <= One(Turns("write"))
      BY <2>6, <3>1 DEF Dir
    <3>5. One(Turns("slice")') <= One(Turns("slice"))
      BY <2>1, <2>6
    <3> QED BY <1>2, <2>5, <3>2, <3>3, <3>4, <3>5
  <2> QED BY <1>2, <2>3, <2>7 DEF TurnInv, One
<1> QED BY <1>1, <1>2 DEF StartTransfer

(* The handler of a wait that ended: x has left the timer and the queue.   *)
Turned(x) ==
  /\ ready # <<>>
  /\ Turns(x)
  /\ ~Waiter(rateWaits, x)
  /\ x \in Dir => ~HasOpAt(due, x, "rate")
  /\ x = "slice" => ~HasSlice(due)

TurnsUp(h) == h.k = "slice" \/ (h.k = "op" /\ h.at = "rate")

LEMMA HeadTurned ==
  ASSUME PaceInv, TurnInv, ready # <<>>, TurnsUp(Head(ready))
  PROVE  \E x \in Dir \cup {"slice"} : Turned(x)
<1>1. ready \in Seq(PacedHandler) /\ Head(ready) \in PacedHandler
  BY PacedHead DEF PaceInv, PacedType
<1>2. CASE Head(ready).k = "slice"
  <2>1. HasSlice(ready) /\ ~HasSlice(due) /\ ~Waiter(rateWaits, "slice")
    BY <1>1, <1>2, SliceLeft DEF TurnInv, due
  <2> QED BY <2>1 DEF Turned, Turns, Dir
<1>3. CASE Head(ready).k = "op" /\ Head(ready).at = "rate"
  <2>1. PICK d \in Dir : d = Head(ready).d
    BY <1>1, <1>3 DEF PacedHandler
  <2>2. IsOp(Head(ready), d) /\ IsOpAt(Head(ready), d, "rate")
    BY <1>3, <2>1 DEF IsOp, IsOpAt
  <2>3. HasOpAt(ready, d, "rate") /\ ~HasOp(due, d) /\ phase[d] = "due"
    BY <1>1, <2>2, PacedLeft, PacedHead
  <2>4. ~HasOpAt(due, d, "rate") /\ ~Waiter(rateWaits, d)
    BY <2>3, NoneWithin DEF PaceInv, InOnePlace
  <2> QED BY <2>3, <2>4 DEF Turned, Turns, Dir
<1> QED BY <1>2, <1>3 DEF TurnsUp

(* As long as waiting is one, no other waits.                              *)
LEMMA TurnCounted ==
  ASSUME TurnInv, NEW x \in Dir \cup {"slice"}, Turns(x)
  PROVE  /\ waiting > 0
         /\ waiting = 1 => \A y \in Dir \cup {"slice"} : y # x => ~Turns(y)
<1>1. \A p : One(p) \in {0, 1} /\ (p => One(p) = 1)
  BY DEF One
<1>2. waiting \in Nat /\ waiting >= One(Turns("read")) + One(Turns("write")) + One(Turns("slice"))
  BY DEF TurnInv
<1>3. ASSUME NEW r \in {0, 1}, NEW w \in {0, 1}, NEW l \in {0, 1}, NEW k \in Nat, k >= r + w + l
      PROVE  /\ r = 1 => k > 0 /\ (k = 1 => w = 0 /\ l = 0)
             /\ w = 1 => k > 0 /\ (k = 1 => r = 0 /\ l = 0)
             /\ l = 1 => k > 0 /\ (k = 1 => r = 0 /\ w = 0)
  BY <1>3
<1> DEFINE r == One(Turns("read"))
           w == One(Turns("write"))
           l == One(Turns("slice"))
<1>4. /\ r = 1 => waiting > 0 /\ (waiting = 1 => w = 0 /\ l = 0)
      /\ w = 1 => waiting > 0 /\ (waiting = 1 => r = 0 /\ l = 0)
      /\ l = 1 => waiting > 0 /\ (waiting = 1 => r = 0 /\ w = 0)
  BY <1>1, <1>2, <1>3
<1>5. /\ r = 0 => ~Turns("read")
      /\ w = 0 => ~Turns("write")
      /\ l = 0 => ~Turns("slice")
      /\ Turns("read") => r = 1
      /\ Turns("write") => w = 1
      /\ Turns("slice") => l = 1
  BY DEF One
<1> HIDE DEF r, w, l
<1> QED BY <1>4, <1>5 DEF Dir

LEMMA TimerTurns ==
  ASSUME PaceInv, TurnInv, NEW x \in Dir \cup {"slice"}, Turned(x), OnTimer, ready' = due
  PROVE  TurnInv'
<1>1. /\ waiting \in Nat
      /\ rateWaits \in Seq(Dir \cup {"slice"})
      /\ NoNewTurn(ready, due)
  BY SliceLeft DEF PaceInv, PacedType, TurnInv, due, Turned
<1>2. OneSlice(due) /\ ~(Waiter(rateWaits, "slice") /\ HasSlice(due)) /\ OneWaiter(rateWaits, "slice")
  BY <1>1 DEF NoNewTurn, TurnInv
<1>3. \A p : One(p) \in {0, 1}
  BY DEF One
<1>4. CASE waiting = 1
  <2>1. waiting' = 1 /\ rateWaits' = Append(rateWaits, "slice")
    BY <1>4 DEF OnTimer
  <2>2. \A c : /\ Waiter(rateWaits', c) <=> Waiter(rateWaits, c) \/ c = "slice"
               /\ OneWaiter(rateWaits, c) /\ ~(c = "slice" /\ Waiter(rateWaits, c)) => OneWaiter(rateWaits', c)
    BY <1>1, <2>1, WaiterJoins
  <2>3. \A y \in Dir \cup {"slice"} : /\ ~Waiter(rateWaits, y)
                                      /\ y \in Dir => ~HasOpAt(due, y, "rate")
                                      /\ y = "slice" => ~HasSlice(due)
    <3> TAKE y \in Dir \cup {"slice"}
    <3>1. CASE y = x
      BY <3>1 DEF Turned
    <3>2. CASE y # x
      <4>1. ~Turns(y)
        BY <1>4, <3>2, TurnCounted DEF Turned
      <4> QED BY <1>1, <4>1 DEF Turns, NoNewTurn
    <3> QED BY <3>1, <3>2
  <2>4. OneSlice(ready') /\ OneWaiter(rateWaits', "slice") /\ ~(Waiter(rateWaits', "slice") /\ HasSlice(ready'))
    BY <1>2, <2>2, <2>3
  <2>5. \A y \in Dir : ~Turns(y)'
    BY <2>2, <2>3 DEF Turns, Dir
  <2>6. One(Turns("read")') = 0 /\ One(Turns("write")') = 0
    BY <2>5 DEF One, Dir
  <2>7. waiting' >= One(Turns("read")') + One(Turns("write")') + One(Turns("slice")')
    <3>1. One(Turns("slice")') \in {0, 1}
      BY <1>3
    <3> QED BY <2>1, <2>6, <3>1
  <2> QED BY <2>1, <2>4, <2>7 DEF TurnInv, One
<1>5. CASE waiting > 1
  <2>1. waiting' = waiting - 1 /\ rateWaits' = rateWaits
    BY <1>5 DEF OnTimer
  <2>2. \A y \in Dir \cup {"slice"} : Turns(y)' => Turns(y) /\ y # x
    BY <1>1, <2>1 DEF Turns, NoNewTurn, Turned
  <2>3. \A y \in Dir \cup {"slice"} : /\ One(Turns(y)') <= One(Turns(y))
                                      /\ y = x => One(Turns(y)') = 0 /\ One(Turns(y)) = 1
    BY <2>2 DEF One, Turned
  <2>4. waiting' >= One(Turns("read")') + One(Turns("write")') + One(Turns("slice")')
    <3>1. waiting >= One(Turns("read")) + One(Turns("write")) + One(Turns("slice"))
      BY DEF TurnInv
    <3>2. ASSUME NEW r \in {0, 1}, NEW w \in {0, 1}, NEW l \in {0, 1},
                 NEW r1 \in {0, 1}, NEW w1 \in {0, 1}, NEW l1 \in {0, 1}, NEW k \in Nat,
                 k >= r + w + l, r1 <= r, w1 <= w, l1 <= l,
                 (r1 = 0 /\ r = 1) \/ (w1 = 0 /\ w = 1) \/ (l1 = 0 /\ l = 1)
          PROVE  k - 1 >= r1 + w1 + l1
      BY <3>2
    <3>3. /\ One(Turns("read")') <= One(Turns("read"))
          /\ One(Turns("write")') <= One(Turns("write"))
          /\ One(Turns("slice")') <= One(Turns("slice"))
      BY <2>3 DEF Dir
    <3>4. \/ One(Turns("read")') = 0 /\ One(Turns("read")) = 1
          \/ One(Turns("write")') = 0 /\ One(Turns("write")) = 1
          \/ One(Turns("slice")') = 0 /\ One(Turns("slice")) = 1
      BY <2>3 DEF Dir
    <3> QED BY <1>1, <1>3, <2>1, <3>1, <3>2, <3>3, <3>4
  <2>5. waiting' \in Nat
    BY <1>1, <1>5, <2>1
  <2> QED BY <1>2, <2>1, <2>4, <2>5 DEF TurnInv, One
<1> QED BY <1>4, <1>5 DEF OnTimer

LEMMA HandlerTurns ==
  ASSUME PaceInv, TurnInv, RunHandler
  PROVE  TurnInv'
<1> DEFINE hd == Head(ready)
<1>1. /\ ready # <<>> /\ PacedType
      /\ due \in Seq(PacedHandler)
      /\ hd \in PacedHandler
      /\ NoNewTurn(ready, due)
  BY PacedHead, SliceLeft DEF RunHandler, PaceInv, PacedType, due
<1>2. ASSUME ready' = due, UNCHANGED <<waiting, rateWaits>> PROVE TurnInv'
  BY <1>1, <1>2, TurnAside
<1>3. ASSUME OnTimer, TurnsUp(hd), ready' = due PROVE TurnInv'
  BY <1>1, <1>3, HeadTurned, TimerTurns
<1>4. ASSUME NEW d \in Dir, Disarm(d), UNCHANGED <<waiting, rateWaits>> PROVE TurnInv'
  <2>1. CASE ready' = due
    BY <1>2, <1>4, <2>1
  <2>2. CASE ready' = due \o Fired(d, waits[d], "aborted")
    <3>1. waits[d] \in Seq(Nat)
      BY <1>1 DEF PacedType
    <3>2. NoNewTurn(due, ready')
      BY <1>1, <2>2, <3>1, FiredOffRate
    <3> QED BY <1>1, <1>4, <3>2, TurnOf, TurnAside
  <2> QED BY <1>4, <2>1, <2>2 DEF Disarm, Fired
<1>5. ASSUME NEW ph \in [Dir -> {"idle", "rate", "due"} \cup AtSocket], CloseImpl(due, ph),
             waiting' = waiting
      PROVE  TurnInv'
  BY <1>1, <1>5, TurnCancelled DEF CloseImpl
<1>6. phase \in [Dir -> {"idle", "rate", "due"} \cup AtSocket] /\ "write" \in Dir
  BY <1>1 DEF PacedType, Dir
<1>7. CASE hd.k = "deadline" /\ OnDeadline(hd)
  BY <1>2, <1>5, <1>6, <1>7 DEF OnDeadline, rateVars
<1>8. CASE hd.k = "slice" /\ OnSlice(hd)
  <2>1. TurnsUp(hd)
    BY <1>8 DEF TurnsUp
  <2>2. ready' = due
    BY <1>8 DEF OnSlice
  <2>3. OnTimer \/ UNCHANGED <<waiting, rateWaits>>
    BY <1>8 DEF OnSlice, rateVars
  <2> HIDE DEF hd
  <2> QED BY <1>2, <1>3, <2>1, <2>2, <2>3
<1>9. CASE hd.k = "op" /\ hd.at = "rate" /\ OnRate(hd)
  BY <1>2, <1>3, <1>9 DEF OnRate, TurnsUp, rateVars
<1>10. CASE hd.k = "op" /\ hd.at = "io" /\ OnTransfer(hd)
  <2>1. hd.d \in Dir
    BY <1>1, <1>10 DEF PacedHandler
  <2> QED BY <1>4, <1>10, <2>1 DEF OnTransfer
<1>11. CASE hd.k = "op" /\ hd.at = "connect" /\ OnConnect(hd)
  BY <1>4, <1>6, <1>11 DEF OnConnect, rateVars
<1>12. CASE hd.k = "op" /\ hd.at = "noop" /\ OnNoop(hd)
  <2> DEFINE ph == [phase EXCEPT ![hd.d] = "idle"]
  <2>1. ph \in [Dir -> {"idle", "rate", "due"} \cup AtSocket]
    BY <1>6
  <2>2. waiting' = waiting
    BY <1>12 DEF OnNoop
  <2>3. CloseImpl(due, ph) \/ (ready' = due /\ UNCHANGED rateWaits)
    BY <1>12 DEF OnNoop
  <2> HIDE DEF ph
  <2> QED BY <1>2, <1>5, <2>1, <2>2, <2>3
<1> QED BY <1>7, <1>8, <1>9, <1>10, <1>11, <1>12 DEF RunHandler

LEMMA NextTurns ==
  ASSUME PaceInv, TurnInv, [Next]_vars
  PROVE  TurnInv'
<1>0. PacedType /\ ready \in Seq(PacedHandler) /\ rateWaits \in Seq(Dir \cup {"slice"})
      /\ phase \in [Dir -> {"idle", "rate", "due"} \cup AtSocket]
      /\ NoNewTurn(ready, ready)
  BY DEF PaceInv, PacedType, NoNewTurn
<1>1. CASE UNCHANGED <<ready, waiting, rateWaits>>
  BY <1>0, <1>1, TurnAside
<1>2. CASE UNCHANGED vars \/ RateExpire \/ StartConnect \/ \E d \in Dir : Expire(d)
  BY <1>1, <1>2 DEF vars, RateExpire, StartConnect, Expire, rateVars
<1>3. CASE Cancel \/ Close
  <2>1. CancelAll(ready, phase) /\ waiting' = waiting
    BY <1>3 DEF Cancel, Close, CloseImpl
  <2> QED BY <1>0, <2>1, TurnCancelled
<1>4. CASE RateDue
  <2> DEFINE f == [i \in DOMAIN rateWaits |-> RateHandler(rateWaits[i], "ok")]
  <2>1. ready' = ready \o f /\ rateWaits' = <<>> /\ waiting' = waiting
    BY <1>4 DEF RateDue
  <2>2. f = [i \in DOMAIN rateWaits |-> RateHandler(rateWaits[i], "ok")]
    OBVIOUS
  <2> HIDE DEF f
  <2> QED BY <1>0, <2>1, <2>2, TurnMoved
<1>5. CASE ExpiresAfter \/ ExpiresAt \/ ExpiresNever
  BY <1>0, <1>5, SetExpiryTurns DEF ExpiresAfter, ExpiresAt, ExpiresNever
<1>6. CASE (\E d \in Dir : SocketDone(d) \/ DeadlineDue(d))
           \/ \E d \in Dir, n \in 0 .. MaxBytes : StartTransfer(d, n)
  BY <1>0, <1>6, SocketDoneTurns, DeadlineDueTurns, StartTransferTurns
<1>7. CASE RunHandler
  BY <1>7, HandlerTurns
<1> QED BY <1>2, <1>3, <1>4, <1>5, <1>6, <1>7 DEF Next, User

LEMMA TurnInit == Init => TurnInv
<1> SUFFICES ASSUME Init PROVE TurnInv
  OBVIOUS
<1>1. ready = <<>> /\ rateWaits = <<>> /\ waiting = 0
  BY DEF Init
<1>2. \A x : ~Waiter(<<>>, x) /\ OneWaiter(<<>>, x)
  BY DEF Waiter, OneWaiter
<1>3. ~HasSlice(<<>>) /\ OneSlice(<<>>)
  BY DEF HasSlice, OneSlice
<1>4. \A x : ~Turns(x)
  BY <1>1, <1>2, <1>3, PacedNone DEF Turns
<1>5. One(Turns("read")) = 0 /\ One(Turns("write")) = 0 /\ One(Turns("slice")) = 0
  BY <1>4 DEF One
<1> QED BY <1>1, <1>2, <1>3, <1>5 DEF TurnInv

(* What on_timer() asserts: BOOST_ASSERT(waiting > 0), and for the last    *)
(* waiter BOOST_VERIFY(timer.expires_after(seconds(1)) == 0), that the     *)
(* slice it starts cuts no wait short.                                     *)
TimerAsserted ==
  ready # <<>> /\ TurnsUp(Head(ready)) /\ Head(ready).ec = "ok"
    => waiting > 0 /\ (waiting = 1 => rateWaits = <<>>)

(* Whatever the rate policy, and however many waits were cancelled, the    *)
(* assertions of on_timer() never fail.                                    *)
THEOREM TimerAssertions == Spec => []TimerAsserted
<1>1. ASSUME PaceInv, TurnInv PROVE TimerAsserted
  <2> SUFFICES ASSUME ready # <<>>, TurnsUp(Head(ready))
               PROVE  waiting > 0 /\ (waiting = 1 => rateWaits = <<>>)
    BY DEF TimerAsserted
  <2>1. PICK x \in Dir \cup {"slice"} : Turned(x)
    BY <1>1, HeadTurned
  <2>2. /\ waiting > 0
        /\ waiting = 1 => \A y \in Dir \cup {"slice"} : y # x => ~Turns(y)
    BY <1>1, <2>1, TurnCounted DEF Turned
  <2>3. waiting = 1 => \A y \in Dir \cup {"slice"} : ~Waiter(rateWaits, y)
    BY <2>1, <2>2 DEF Turned, Turns
  <2>4. rateWaits \in Seq(Dir \cup {"slice"})
    BY <1>1 DEF PaceInv, PacedType
  <2>5. (\A y \in Dir \cup {"slice"} : ~Waiter(rateWaits, y)) => rateWaits = <<>>
    <3> SUFFICES ASSUME rateWaits # <<>> PROVE \E y \in Dir \cup {"slice"} : Waiter(rateWaits, y)
      OBVIOUS
    <3>1. rateWaits[1] \in Dir \cup {"slice"} /\ 1 \in 1 .. Len(rateWaits)
      BY <2>4
    <3> QED BY <3>1 DEF Waiter
  <2> QED BY <2>2, <2>3, <2>5
<1>2. PaceInv /\ TurnInv /\ [Next]_vars => PaceInv' /\ TurnInv'
  BY NextPaced, NextTurns
<1> QED BY PaceInit, TurnInit, <1>1, <1>2, PTL DEF Spec

------------------------------------------------------------------------------
(* test::stream: its two ends, their input areas and the context.          *)
HandlerOf(r, e) == \E k \in 1 .. Len(r) : r[k].end = e
OneHandler(r, e) == \A j, k \in 1 .. Len(r) : r[j].end = e /\ r[k].end = e => j = k
Handlers == [end : Test!End, size : Nat, ec : {"none", "failure", "eof", "aborted"}]

EndTypes ==
  /\ input \in [Test!End -> Seq(Nat)]
  /\ op \in [Test!End -> Sizes \cup {Test!NoOp}]
  /\ code \in [Test!End -> {"ok", "eof"}]
  /\ out \in [Test!End -> BOOLEAN]
  /\ fail_at \in FailCounts /\ counted \in [Test!End -> Nat]
  /\ pc \in [Test!End -> {"idle", "wait", "write", "gone"} \cup Test!Closing]
  /\ size \in [Test!End -> Nat]
  /\ reading \in [Test!End -> BOOLEAN]
  /\ posted \in Seq(Handlers)
  /\ outcome \in [Test!End -> Seq(BOOLEAN)]
  /\ arrived \in [Test!End -> Seq(Nat)]
  /\ got \in [Test!End -> Seq(Nat)]

(* A read waits in the area or its handler is due, one of them, if there   *)
(* is a read.                                                              *)
PlaceOf(e) ==
  /\ OneHandler(posted, e)
  /\ HandlerOf(posted, e) => op[e] = Test!NoOp
  /\ reading[e] <=> HandlerOf(posted, e) \/ op[e] # Test!NoOp
  /\ op[e] # Test!NoOp => input[e] = <<>> /\ code[e] = "ok"

(* The fail_count, and what it said.                                       *)
CountOf(e) ==
  /\ fail_at[e] # Never => /\ counted[e] <= fail_at[e]
                           /\ counted[e] <= Len(outcome[e])
                           /\ counted[e] < fail_at[e] => Len(outcome[e]) = counted[e]
  /\ fail_at[e] # Never => \A k \in 1 .. Len(outcome[e]) : outcome[e][k] <=> k >= fail_at[e]
  /\ fail_at[e] = Never => \A k \in 1 .. Len(outcome[e]) : ~outcome[e][k]

Places == \A e \in Test!End : PlaceOf(e)
Counts == \A e \in Test!End : CountOf(e)

LEMMA TwoEnds == \A e \in Test!End : Test!Other(e) \in Test!End /\ Test!Other(e) # e
BY DEF Test!End, Test!Other

LEMMA Numbers ==
  ASSUME Test!TestStreamAssumption
  PROVE  /\ Sizes \subseteq Nat /\ ReadMax \in Nat /\ WriteMax \in Nat
         /\ \A f \in FailCounts, e \in Test!End : f[e] # Never => f[e] \in Nat
BY DEF Test!TestStreamAssumption

(* The context gets a handler, and runs the first one.                     *)
LEMMA Posts ==
  ASSUME NEW r \in Seq(Handlers), NEW h \in Handlers, NEW e \in Test!End
  PROVE  /\ Append(r, h) \in Seq(Handlers)
         /\ HandlerOf(Append(r, h), e) <=> HandlerOf(r, e) \/ h.end = e
         /\ OneHandler(r, e) /\ (h.end = e => ~HandlerOf(r, e)) => OneHandler(Append(r, h), e)
<1>1. /\ Append(r, h) \in Seq(Handlers) /\ Len(Append(r, h)) = Len(r) + 1 /\ Len(r) \in Nat
      /\ \A k \in 1 .. Len(r) : Append(r, h)[k] = r[k]
      /\ Append(r, h)[Len(r) + 1] = h
  OBVIOUS
<1>2. \A k \in 1 .. Len(r) + 1 : k \in 1 .. Len(r) \/ k = Len(r) + 1
  BY <1>1
<1>3. Len(r) + 1 \in 1 .. Len(r) + 1 /\ \A k \in 1 .. Len(r) : k \in 1 .. Len(r) + 1
  BY <1>1
<1>4. HandlerOf(Append(r, h), e) <=> HandlerOf(r, e) \/ h.end = e
  BY <1>1, <1>2, <1>3 DEF HandlerOf
<1>5. OneHandler(r, e) /\ (h.end = e => ~HandlerOf(r, e)) => OneHandler(Append(r, h), e)
  BY <1>1, <1>2, <1>3 DEF HandlerOf, OneHandler
<1> QED BY <1>1, <1>4, <1>5

LEMMA RunsFirst ==
  ASSUME NEW r \in Seq(Handlers), r # <<>>, NEW e \in Test!End
  PROVE  /\ Head(r) \in Handlers /\ Tail(r) \in Seq(Handlers)
         /\ OneHandler(r, e) => OneHandler(Tail(r), e)
         /\ OneHandler(r, e) /\ Head(r).end = e => HandlerOf(r, e) /\ ~HandlerOf(Tail(r), e)
         /\ Head(r).end # e => (HandlerOf(Tail(r), e) <=> HandlerOf(r, e))
<1>1. /\ Head(r) \in Handlers /\ Tail(r) \in Seq(Handlers) /\ Len(Tail(r)) = Len(r) - 1
      /\ Len(r) \in Nat /\ Len(r) >= 1 /\ Head(r) = r[1]
      /\ \A k \in 1 .. Len(r) - 1 : Tail(r)[k] = r[k + 1]
  OBVIOUS
<1>2. \A k \in 1 .. Len(r) - 1 : k + 1 \in 1 .. Len(r) /\ k + 1 # 1 /\ k \in Nat
  BY <1>1
<1>3. 1 \in 1 .. Len(r) /\ \A k \in 1 .. Len(r) : k = 1 \/ (k - 1 \in 1 .. Len(r) - 1 /\ (k - 1) + 1 = k)
  BY <1>1
<1>4. OneHandler(r, e) => OneHandler(Tail(r), e)
  <2> SUFFICES ASSUME OneHandler(r, e), NEW j \in 1 .. Len(r) - 1, NEW k \in 1 .. Len(r) - 1,
                      r[j + 1].end = e, r[k + 1].end = e
               PROVE  j = k
    BY <1>1 DEF OneHandler
  <2>1. j + 1 = k + 1
    BY <1>2 DEF OneHandler
  <2> QED BY <1>2, <2>1
<1>5. OneHandler(r, e) /\ Head(r).end = e => HandlerOf(r, e) /\ ~HandlerOf(Tail(r), e)
  BY <1>1, <1>2, <1>3 DEF OneHandler, HandlerOf
<1>6. HandlerOf(Tail(r), e) => HandlerOf(r, e)
  BY <1>1, <1>2 DEF HandlerOf
<1>7. Head(r).end # e /\ HandlerOf(r, e) => HandlerOf(Tail(r), e)
  <2> SUFFICES ASSUME Head(r).end # e, NEW k \in 1 .. Len(r), r[k].end = e
               PROVE  \E j \in 1 .. Len(r) - 1 : Tail(r)[j].end = e
    BY <1>1 DEF HandlerOf
  <2>1. k # 1
    BY <1>1
  <2>2. k - 1 \in 1 .. Len(r) - 1 /\ Tail(r)[k - 1].end = e
    BY <1>1, <1>3, <2>1
  <2> QED BY <2>2
<1> QED BY <1>1, <1>4, <1>5, <1>6, <1>7

(* notify_read() and cancel_read(): what waits is posted.                  *)
LEMMA PostsWhatWaits ==
  ASSUME Test!TestStreamAssumption, EndTypes, Places, NEW e \in Test!End, NEW ec \in {"none", "aborted"},
         \/ op[e] # Test!NoOp /\ posted' = Append(posted, Test!Handler(e, op[e], ec)) /\ op' = [op EXCEPT ![e] = Test!NoOp]
         \/ op[e] = Test!NoOp /\ posted' = posted /\ op' \in {op, [op EXCEPT ![e] = Test!NoOp]}
  PROVE  /\ op' \in [Test!End -> Sizes \cup {Test!NoOp}] /\ posted' \in Seq(Handlers)
         /\ op'[e] = Test!NoOp /\ \A f \in Test!End \ {e} : op'[f] = op[f]
         /\ \A f \in Test!End :
              /\ OneHandler(posted', f)
              /\ HandlerOf(posted', f) => op'[f] = Test!NoOp
              /\ reading[f] <=> HandlerOf(posted', f) \/ op'[f] # Test!NoOp
<1>0. /\ op \in [Test!End -> Sizes \cup {Test!NoOp}] /\ posted \in Seq(Handlers)
      /\ \A f \in Test!End : /\ OneHandler(posted, f) /\ (HandlerOf(posted, f) => op[f] = Test!NoOp)
                             /\ reading[f] <=> HandlerOf(posted, f) \/ op[f] # Test!NoOp
  BY DEF EndTypes, Places, PlaceOf
<1>1. CASE op[e] = Test!NoOp /\ posted' = posted /\ op' \in {op, [op EXCEPT ![e] = Test!NoOp]}
  <2>1. op' = op
    BY <1>0, <1>1
  <2> QED BY <1>0, <1>1, <2>1
<1>2. CASE op[e] # Test!NoOp /\ posted' = Append(posted, Test!Handler(e, op[e], ec)) /\ op' = [op EXCEPT ![e] = Test!NoOp]
  <2>1. Test!Handler(e, op[e], ec) \in Handlers /\ Test!Handler(e, op[e], ec).end = e
    BY <1>0, <1>2, Numbers DEF Test!Handler, Handlers
  <2>2. \A f \in Test!End : /\ posted' \in Seq(Handlers)
                            /\ HandlerOf(posted', f) <=> HandlerOf(posted, f) \/ e = f
                            /\ OneHandler(posted, f) /\ (e = f => ~HandlerOf(posted, f)) => OneHandler(posted', f)
    BY <1>0, <1>2, <2>1, Posts
  <2>3. op' \in [Test!End -> Sizes \cup {Test!NoOp}] /\ op'[e] = Test!NoOp /\ \A f \in Test!End \ {e} : op'[f] = op[f]
    BY <1>0, <1>2
  <2> QED BY <1>0, <1>2, <2>2, <2>3
<1> QED BY <1>1, <1>2

(* Bytes that follow one another, and are cut apart.                       *)
LEMMA Regroups ==
  ASSUME NEW s \in Seq(Nat), NEW t \in Seq(Nat), NEW u \in Seq(Nat)
  PROVE  (s \o t) \o u = s \o (t \o u)
BY ConcatAssociative, SMTT(40)

LEMMA CutApart ==
  \A t \in Seq(Nat) : \A m \in 0 .. Len(t) :
    /\ SubSeq(t, 1, m) \in Seq(Nat) /\ SubSeq(t, m + 1, Len(t)) \in Seq(Nat)
    /\ SubSeq(t, 1, m) \o SubSeq(t, m + 1, Len(t)) = t
<1> SUFFICES ASSUME NEW t \in Seq(Nat), NEW m \in 0 .. Len(t)
             PROVE  /\ SubSeq(t, 1, m) \in Seq(Nat) /\ SubSeq(t, m + 1, Len(t)) \in Seq(Nat)
                    /\ SubSeq(t, 1, m) \o SubSeq(t, m + 1, Len(t)) = t
  OBVIOUS
<1>1. Len(t) \in Nat /\ SubSeq(t, 1, m) \in Seq(Nat) /\ SubSeq(t, m + 1, Len(t)) \in Seq(Nat)
  OBVIOUS
<1>2. 1 \in 1 .. Len(t) + 1 /\ m \in 1 - 1 .. Len(t) /\ Len(t) \in m .. Len(t)
  BY <1>1
<1>3. SubSeq(t, 1, m) \o SubSeq(t, m + 1, Len(t)) = SubSeq(t, 1, Len(t))
  BY <1>2, ConcatAdjacentSubSeq
<1>4. SubSeq(t, 1, Len(t)) = t
  BY SubSeqFull
<1> QED BY <1>1, <1>3, <1>4

(* What a read takes, and what is put into an area.                        *)
LEMMA Takes ==
  ASSUME Test!TestStreamAssumption, EndTypes, NEW e \in Test!End, NEW k \in Nat, Test!Take(e, k)
  PROVE  /\ input' \in [Test!End -> Seq(Nat)] /\ got' \in [Test!End -> Seq(Nat)]
         /\ \A f \in Test!End : got'[f] \o input'[f] = got[f] \o input[f]
         /\ \A f \in Test!End \ {e} : input'[f] = input[f]
<1>1. /\ input \in [Test!End -> Seq(Nat)] /\ got \in [Test!End -> Seq(Nat)] /\ ReadMax \in Nat
  BY Numbers DEF EndTypes
<1> DEFINE n == Test!Least(Test!Least(k, ReadMax), Len(input[e]))
<1>2. input[e] \in Seq(Nat) /\ Len(input[e]) \in Nat /\ got[e] \in Seq(Nat)
  BY <1>1
<1>3. n \in Nat /\ n <= Len(input[e])
  BY <1>1, <1>2 DEF Test!Least
<1>4. /\ input' = [input EXCEPT ![e] = SubSeq(input[e], n + 1, Len(input[e]))]
      /\ got' = [got EXCEPT ![e] = got[e] \o SubSeq(input[e], 1, n)]
  BY <1>1 DEF Test!Take
<1> HIDE DEF n
<1>6. /\ SubSeq(input[e], n + 1, Len(input[e])) \in Seq(Nat) /\ got[e] \o SubSeq(input[e], 1, n) \in Seq(Nat)
      /\ (got[e] \o SubSeq(input[e], 1, n)) \o SubSeq(input[e], n + 1, Len(input[e])) = got[e] \o input[e]
  <2>1. PICK x, y \in Seq(Nat) : x = input[e] /\ y = got[e]
    BY <1>2
  <2>2. PICK m \in 0 .. Len(x) : m = n
    BY <1>3, <2>1
  <2>3. PICK u, v \in Seq(Nat) : u = SubSeq(x, 1, m) /\ v = SubSeq(x, m + 1, Len(x)) /\ u \o v = x
    BY <2>1, <2>2, CutApart, ZenonT(60)
  <2>4. x \in Seq(Nat) /\ y \in Seq(Nat) /\ u \in Seq(Nat) /\ v \in Seq(Nat) /\ u \o v = x
    BY <2>1, <2>3
  <2>5. (y \o u) \o v = y \o (u \o v) /\ y \o u \in Seq(Nat)
    <3>1. (y \o u) \o v = y \o (u \o v)
      BY <2>4, Regroups, ZenonT(60)
    <3>2. y \o u \in Seq(Nat)
      BY <2>4
    <3> QED BY <3>1, <3>2
  <2> QED BY <2>1, <2>2, <2>3, <2>4, <2>5
<1>7. /\ \A f \in Test!End \ {e} : input'[f] = input[f] /\ got'[f] = got[f]
      /\ input'[e] = SubSeq(input[e], n + 1, Len(input[e])) /\ got'[e] = got[e] \o SubSeq(input[e], 1, n)
  BY <1>1, <1>4
<1>8. input' \in [Test!End -> Seq(Nat)] /\ got' \in [Test!End -> Seq(Nat)]
  BY <1>1, <1>4, <1>6
<1>9. got'[e] \o input'[e] = got[e] \o input[e] /\ \A f \in Test!End \ {e} : got'[f] \o input'[f] = got[f] \o input[f]
  BY <1>6, <1>7
<1> QED BY <1>7, <1>8, <1>9

LEMMA Puts ==
  ASSUME EndTypes, NEW e \in Test!End, NEW n \in Nat, Test!Put(e, n)
  PROVE  /\ input' \in [Test!End -> Seq(Nat)] /\ arrived' \in [Test!End -> Seq(Nat)]
         /\ \A f \in Test!End \ {e} : input'[f] = input[f] /\ arrived'[f] = arrived[f]
         /\ \A f \in Test!End : got[f] \o input[f] = arrived[f] => got[f] \o input'[f] = arrived'[f]
<1>1. input \in [Test!End -> Seq(Nat)] /\ got \in [Test!End -> Seq(Nat)] /\ arrived \in [Test!End -> Seq(Nat)]
  BY DEF EndTypes
<1>2. PICK m \in Seq(Nat) : input' = [input EXCEPT ![e] = input[e] \o m] /\ arrived' = [arrived EXCEPT ![e] = arrived[e] \o m]
  <2> DEFINE m == [j \in 1 .. n |-> Len(arrived[e]) + j]
  <2>1. Len(arrived[e]) \in Nat
    BY <1>1
  <2>2. m \in Seq(Nat)
    <3>1. \A a, j \in Nat : a + j \in Nat
      OBVIOUS
    <3>2. \A j \in 1 .. n : Len(arrived[e]) + j \in Nat
      BY <2>1, <3>1
    <3> QED BY <3>2
  <2> QED BY <1>1, <2>2 DEF Test!Put
<1>4. input[e] \in Seq(Nat) /\ got[e] \in Seq(Nat) /\ arrived[e] \in Seq(Nat)
  BY <1>1
<1>5. input[e] \o m \in Seq(Nat) /\ arrived[e] \o m \in Seq(Nat) /\ got[e] \o (input[e] \o m) = (got[e] \o input[e]) \o m
  <2>1. m \in Seq(Nat) /\ input[e] \in Seq(Nat) /\ got[e] \in Seq(Nat) /\ arrived[e] \in Seq(Nat)
    BY <1>2, <1>4
  <2>2. PICK x, y, z \in Seq(Nat) : x = input[e] /\ y = got[e] /\ z = arrived[e]
    BY <2>1
  <2>3. x \o m \in Seq(Nat) /\ z \o m \in Seq(Nat)
    BY <2>1, <2>2
  <2>4. (y \o x) \o m = y \o (x \o m)
    BY <2>1, <2>2, Regroups, ZenonT(60)
  <2> QED BY <2>2, <2>3, <2>4
<1>6. /\ input'[e] = input[e] \o m /\ arrived'[e] = arrived[e] \o m
      /\ \A f \in Test!End \ {e} : input'[f] = input[f] /\ arrived'[f] = arrived[f]
  BY <1>1, <1>2
<1>7. input' \in [Test!End -> Seq(Nat)] /\ arrived' \in [Test!End -> Seq(Nat)]
  BY <1>1, <1>2, <1>5
<1>8. got[e] \o input[e] = arrived[e] => got[e] \o input'[e] = arrived'[e]
  BY <1>5, <1>6
<1> QED BY <1>6, <1>7, <1>8

(* One more operation is counted.                                          *)
LEMMA CountsOne ==
  ASSUME Test!TestStreamAssumption, EndTypes, Counts, NEW e \in Test!End, fail_at' = fail_at,
         counted' = [counted EXCEPT ![e] = Test!Count(e)], outcome' = [outcome EXCEPT ![e] = Append(@, Test!Fails(e))]
  PROVE  counted' \in [Test!End -> Nat] /\ outcome' \in [Test!End -> Seq(BOOLEAN)] /\ Counts'
<1>1. counted \in [Test!End -> Nat] /\ outcome \in [Test!End -> Seq(BOOLEAN)] /\ counted[e] \in Nat
  BY DEF EndTypes
<1>2. Test!Fails(e) \in BOOLEAN /\ (fail_at[e] # Never => fail_at[e] \in Nat)
  BY Numbers DEF Test!Fails, EndTypes
<1>3. Test!Count(e) \in Nat
  BY <1>1 DEF Test!Count
<1>4. PICK s \in Seq(BOOLEAN) : s = outcome[e]
  BY <1>1
<1>5. PICK u \in BOOLEAN : u = Test!Fails(e)
  BY <1>2
<1>6. Append(s, u) \in Seq(BOOLEAN) /\ Len(Append(s, u)) = Len(s) + 1 /\ Len(s) \in Nat
  OBVIOUS
<1>7. /\ counted' \in [Test!End -> Nat] /\ outcome' \in [Test!End -> Seq(BOOLEAN)]
      /\ counted'[e] = Test!Count(e) /\ outcome'[e] = Append(s, u)
      /\ \A f \in Test!End \ {e} : counted'[f] = counted[f] /\ outcome'[f] = outcome[f]
  BY <1>1, <1>3, <1>4, <1>5, <1>6
<1>8. CountOf(e)'
  <2>1. CountOf(e)
    BY DEF Counts
  <2>2. \A k \in 1 .. Len(s) + 1 : \/ k \in 1 .. Len(s) /\ Append(s, u)[k] = s[k]
                                   \/ k = Len(s) + 1 /\ Append(s, u)[k] = u
    BY <1>6
  <2>3. CASE fail_at[e] = Never
    <3>1. u = FALSE
      BY <1>5, <2>3 DEF Test!Fails
    <3>2. \A k \in 1 .. Len(s) : ~s[k]
      BY <1>4, <2>1, <2>3 DEF CountOf
    <3>3. \A k \in 1 .. Len(s) + 1 : ~Append(s, u)[k]
      BY <2>2, <3>1, <3>2
    <3> QED BY <1>6, <1>7, <2>3, <3>3 DEF CountOf
  <2>4. CASE fail_at[e] # Never
    <3>1. PICK a, c \in Nat : a = fail_at[e] /\ c = counted[e]
      BY <1>1, <1>2, <2>4
    <3>2. /\ c <= a /\ c <= Len(s) /\ (c < a => Len(s) = c)
          /\ \A k \in 1 .. Len(s) : s[k] <=> k >= a
      BY <1>4, <2>1, <2>4, <3>1 DEF CountOf
    <3>3. \/ c < a /\ Test!Count(e) = c + 1 /\ (u <=> c + 1 = a)
          \/ c = a /\ Test!Count(e) = c /\ u
      <4>1. Test!Count(e) = IF c < a THEN c + 1 ELSE c
        BY <2>4, <3>1 DEF Test!Count
      <4>2. u <=> Test!Count(e) = a
        BY <1>5, <2>4, <3>1 DEF Test!Fails
      <4>3. CASE c < a
        BY <4>1, <4>2, <4>3
      <4>4. CASE c = a
        BY <4>1, <4>2, <4>4
      <4> QED BY <3>2, <4>3, <4>4
    <3>4. u <=> Len(s) + 1 >= a
      BY <1>6, <3>2, <3>3
    <3>5. \A k \in 1 .. Len(s) + 1 : Append(s, u)[k] <=> k >= a
      BY <2>2, <3>2, <3>4
    <3>6. PICK d \in Nat : d = Test!Count(e)
      BY <1>3
    <3>7. d <= a /\ d <= Len(s) + 1 /\ (d < a => Len(s) + 1 = d)
      BY <1>6, <3>2, <3>3, <3>6
    <3> QED BY <1>6, <1>7, <2>4, <3>1, <3>5, <3>6, <3>7 DEF CountOf
  <2> QED BY <2>3, <2>4
<1>9. \A f \in Test!End \ {e} : CountOf(f)'
  BY <1>7 DEF Counts, CountOf
<1> QED BY <1>7, <1>8, <1>9 DEF Counts

LEMMA CountsNone ==
  ASSUME Counts, fail_at' = fail_at, counted' = counted, outcome' = outcome
  PROVE  Counts'
BY DEF Counts, CountOf

(* The invariant.                                                          *)
EndInv == EndTypes /\ Places /\ Counts /\ Test!InOrder

LEMMA InitialEndInv ==
  ASSUME Test!TestStreamAssumption, Test!Init
  PROVE  EndInv
<1>1. EndTypes
  BY DEF Test!Init, EndTypes, Test!Closing
<1>2. Places
  <2>1. Len(<<>>) = 0
    OBVIOUS
  <2> QED BY <2>1 DEF Test!Init, Places, PlaceOf, OneHandler, HandlerOf
<1>3. Counts
  <2>1. counted = [e \in Test!End |-> 0] /\ outcome = [e \in Test!End |-> <<>>]
    BY DEF Test!Init
  <2>2. \A e \in Test!End : counted[e] = 0 /\ Len(outcome[e]) = 0
    BY <2>1
  <2>3. \A e \in Test!End : fail_at[e] # Never => fail_at[e] \in Nat
    BY Numbers DEF Test!Init
  <2> QED BY <2>2, <2>3 DEF Counts, CountOf
<1>4. Test!InOrder
  BY DEF Test!Init, Test!InOrder
<1> QED BY <1>1, <1>2, <1>3, <1>4 DEF EndInv

(* What changes no area, no handler and no count.                          *)
LEMMA AreasKept ==
  ASSUME EndInv, input' = input, op' = op, code' = code, posted' = posted, reading' = reading,
         arrived' = arrived, got' = got
  PROVE  Places' /\ Test!InOrder'
BY DEF EndInv, Places, PlaceOf, Test!InOrder

LEMMA AsyncReadKeeps ==
  ASSUME Test!TestStreamAssumption, EndInv, NEW e \in Test!End, Test!async_read_some(e)
  PROVE  EndInv'
<1>0. EndTypes /\ Places /\ Counts /\ Test!InOrder
  BY DEF EndInv
<1>1. /\ ~reading[e] /\ reading' = [reading EXCEPT ![e] = TRUE] /\ Test!Call(e)
      /\ input' = input /\ code' = code /\ out' = out /\ pc' = pc /\ size' = size /\ arrived' = arrived /\ got' = got
      /\ fail_at' = fail_at
  BY DEF Test!async_read_some, Test!Call
<1>2. PICK k \in Sizes : Test!initiate_read(e, k)
  BY DEF Test!async_read_some
<1>3. counted' \in [Test!End -> Nat] /\ outcome' \in [Test!End -> Seq(BOOLEAN)] /\ Counts'
  BY <1>0, <1>1, CountsOne DEF Test!Call
<1>4. k \in Nat /\ posted \in Seq(Handlers) /\ op \in [Test!End -> Sizes \cup {Test!NoOp}]
      /\ reading \in [Test!End -> BOOLEAN]
  BY <1>0, Numbers DEF EndTypes
<1>5. ~HandlerOf(posted, e) /\ op[e] = Test!NoOp
  BY <1>0, <1>1 DEF Places, PlaceOf
<1>6. \/ \E ec \in {"failure", "none", "eof"} : posted' = Append(posted, Test!Handler(e, k, ec)) /\ op' = op
      \/ op' = [op EXCEPT ![e] = k] /\ posted' = posted /\ input[e] = <<>> /\ code[e] = "ok"
  <2>1. code[e] \in {"ok", "eof"}
    BY <1>0 DEF EndTypes
  <2> QED BY <1>2, <2>1 DEF Test!initiate_read
<1>7. reading' \in [Test!End -> BOOLEAN] /\ reading'[e] /\ \A f \in Test!End \ {e} : reading'[f] = reading[f]
  BY <1>1, <1>4
<1>8. CASE \E ec \in {"failure", "none", "eof"} : posted' = Append(posted, Test!Handler(e, k, ec)) /\ op' = op
  <2>1. PICK ec \in {"failure", "none", "eof"} : posted' = Append(posted, Test!Handler(e, k, ec)) /\ op' = op
    BY <1>8
  <2>2. Test!Handler(e, k, ec) \in Handlers /\ Test!Handler(e, k, ec).end = e
    BY <1>4 DEF Test!Handler, Handlers
  <2>3. \A f \in Test!End : /\ posted' \in Seq(Handlers)
                            /\ HandlerOf(posted', f) <=> HandlerOf(posted, f) \/ e = f
                            /\ OneHandler(posted, f) /\ (e = f => ~HandlerOf(posted, f)) => OneHandler(posted', f)
    BY <1>4, <2>1, <2>2, Posts
  <2>4. EndTypes'
    BY <1>0, <1>1, <1>3, <1>7, <2>1, <2>3 DEF EndTypes
  <2>5. Places'
    BY <1>0, <1>1, <1>5, <1>7, <2>1, <2>3 DEF Places, PlaceOf
  <2> QED BY <1>0, <1>1, <1>3, <2>4, <2>5 DEF EndInv, Test!InOrder
<1>9. CASE op' = [op EXCEPT ![e] = k] /\ posted' = posted /\ input[e] = <<>> /\ code[e] = "ok"
  <2>1. op' \in [Test!End -> Sizes \cup {Test!NoOp}] /\ op'[e] = k /\ \A f \in Test!End \ {e} : op'[f] = op[f]
    BY <1>4, <1>9
  <2>2. op'[e] # Test!NoOp
    BY <1>4, <2>1 DEF Test!NoOp
  <2>3. EndTypes'
    BY <1>0, <1>1, <1>3, <1>7, <1>9, <2>1 DEF EndTypes
  <2>4. Places'
    BY <1>0, <1>1, <1>5, <1>7, <1>9, <2>1, <2>2 DEF Places, PlaceOf
  <2> QED BY <1>0, <1>1, <1>3, <2>3, <2>4 DEF EndInv, Test!InOrder
<1> QED BY <1>6, <1>8, <1>9

LEMMA RunReadKeeps ==
  ASSUME Test!TestStreamAssumption, EndInv, Test!RunRead
  PROVE  EndInv'
<1>0. EndTypes /\ Places /\ Counts /\ Test!InOrder
  BY DEF EndInv
<1>1. /\ posted # <<>> /\ posted' = Tail(posted) /\ op' = op /\ code' = code /\ out' = out
      /\ fail_at' = fail_at /\ counted' = counted /\ pc' = pc /\ size' = size /\ outcome' = outcome /\ arrived' = arrived
      /\ reading' = [reading EXCEPT ![Head(posted).end] = FALSE]
      /\ (input' = input /\ got' = got) \/ Test!Take(Head(posted).end, Head(posted).size)
  BY DEF Test!RunRead
<1>2. posted \in Seq(Handlers) /\ reading \in [Test!End -> BOOLEAN]
  BY <1>0 DEF EndTypes
<1>3. Head(posted) \in Handlers /\ Tail(posted) \in Seq(Handlers)
  BY <1>1, <1>2
<1>4. PICK e \in Test!End : e = Head(posted).end
  BY <1>3 DEF Handlers
<1>5. Head(posted).size \in Nat
  BY <1>3 DEF Handlers
<1>6. \A f \in Test!End :
        /\ OneHandler(posted, f) => OneHandler(posted', f)
        /\ OneHandler(posted, f) /\ e = f => HandlerOf(posted, f) /\ ~HandlerOf(posted', f)
        /\ e # f => (HandlerOf(posted', f) <=> HandlerOf(posted, f))
  BY <1>1, <1>2, <1>4, RunsFirst
<1>7. reading' \in [Test!End -> BOOLEAN] /\ ~reading'[e] /\ \A f \in Test!End \ {e} : reading'[f] = reading[f]
  BY <1>1, <1>2, <1>4
<1>8. /\ input' \in [Test!End -> Seq(Nat)] /\ got' \in [Test!End -> Seq(Nat)]
      /\ \A f \in Test!End : got'[f] \o input'[f] = got[f] \o input[f]
      /\ \A f \in Test!End \ {e} : input'[f] = input[f]
  <2>1. CASE input' = input /\ got' = got
    BY <1>0, <2>1 DEF EndTypes
  <2>2. CASE Test!Take(e, Head(posted).size)
    BY <1>0, <1>5, <2>2, Takes
  <2> QED BY <1>1, <1>4, <2>1, <2>2
<1>9. EndTypes'
  BY <1>0, <1>1, <1>3, <1>7, <1>8 DEF EndTypes
<1>10. Places'
  BY <1>0, <1>1, <1>6, <1>7, <1>8 DEF Places, PlaceOf
<1>11. Test!InOrder'
  BY <1>0, <1>1, <1>8 DEF Test!InOrder
<1> QED BY <1>0, <1>1, <1>9, <1>10, <1>11, CountsNone DEF EndInv

(* A call that changes no area: a read or a write that begins.             *)
LEMMA BeginsKeeps ==
  ASSUME Test!TestStreamAssumption, EndInv, NEW e \in Test!End, Test!read_some(e) \/ Test!write_some(e)
  PROVE  EndInv'
<1>0. EndTypes /\ Places /\ Counts /\ Test!InOrder
  BY DEF EndInv
<1>1. /\ Test!Call(e) /\ UNCHANGED Test!area /\ reading' = reading /\ posted' = posted
      /\ arrived' = arrived /\ got' = got /\ fail_at' = fail_at
      /\ \/ pc' = pc /\ size' = size
         \/ \E k \in Sizes : size' = [size EXCEPT ![e] = k] /\ pc' \in {[pc EXCEPT ![e] = "wait"], [pc EXCEPT ![e] = "write"]}
  BY DEF Test!read_some, Test!write_some, Test!Call
<1>2. input' = input /\ op' = op /\ code' = code /\ out' = out
  BY <1>1 DEF Test!area
<1>3. pc' \in [Test!End -> {"idle", "wait", "write", "gone"} \cup Test!Closing] /\ size' \in [Test!End -> Nat]
  BY <1>0, <1>1, Numbers DEF EndTypes
<1>4. counted' \in [Test!End -> Nat] /\ outcome' \in [Test!End -> Seq(BOOLEAN)] /\ Counts'
  BY <1>0, <1>1, CountsOne DEF Test!Call
<1>5. EndTypes'
  BY <1>0, <1>1, <1>2, <1>3, <1>4 DEF EndTypes
<1> QED BY <1>1, <1>2, <1>4, <1>5, AreasKept DEF EndInv

LEMMA WokenKeeps ==
  ASSUME Test!TestStreamAssumption, EndInv, NEW e \in Test!End, Test!Woken(e)
  PROVE  EndInv'
<1>0. EndTypes /\ Places /\ Counts /\ Test!InOrder
  BY DEF EndInv
<1>1. /\ op' = op /\ code' = code /\ out' = out /\ fail_at' = fail_at /\ counted' = counted /\ size' = size /\ reading' = reading
      /\ posted' = posted /\ outcome' = outcome /\ arrived' = arrived /\ pc' = [pc EXCEPT ![e] = "idle"]
      /\ (input' = input /\ got' = got) \/ (Test!Take(e, size[e]) /\ input[e] # <<>>)
  BY DEF Test!Woken
<1>2. size[e] \in Nat
  BY <1>0 DEF EndTypes
<1>3. /\ input' \in [Test!End -> Seq(Nat)] /\ got' \in [Test!End -> Seq(Nat)]
      /\ \A f \in Test!End : got'[f] \o input'[f] = got[f] \o input[f]
      /\ \A f \in Test!End : input'[f] = input[f] \/ input[f] # <<>>
  <2>1. CASE input' = input /\ got' = got
    BY <1>0, <2>1 DEF EndTypes
  <2>2. CASE Test!Take(e, size[e]) /\ input[e] # <<>>
    BY <1>0, <1>2, <2>2, Takes
  <2> QED BY <1>1, <2>1, <2>2
<1>4. EndTypes'
  BY <1>0, <1>1, <1>3 DEF EndTypes
<1>5. Places'
  BY <1>0, <1>1, <1>3 DEF Places, PlaceOf
<1>6. Test!InOrder'
  BY <1>0, <1>1, <1>3 DEF Test!InOrder
<1> QED BY <1>0, <1>1, <1>4, <1>5, <1>6, CountsNone DEF EndInv

LEMMA CopyKeeps ==
  ASSUME Test!TestStreamAssumption, EndInv, NEW e \in Test!End, Test!Copy(e)
  PROVE  EndInv'
<1>0. EndTypes /\ Places /\ Counts /\ Test!InOrder
  BY DEF EndInv
<1>1. /\ code' = code /\ out' = out /\ fail_at' = fail_at /\ counted' = counted /\ size' = size /\ reading' = reading
      /\ outcome' = outcome /\ got' = got /\ pc' = [pc EXCEPT ![e] = "idle"]
      /\ Test!Put(Test!Other(e), Test!Least(size[e], WriteMax)) /\ Test!notify_read(Test!Other(e))
  BY DEF Test!Copy
<1>2. PICK p \in Test!End : p = Test!Other(e)
  BY TwoEnds
<1>3. size[e] \in Nat /\ WriteMax \in Nat
  BY <1>0, Numbers DEF EndTypes
<1>4. Test!Least(size[e], WriteMax) \in Nat
  BY <1>3 DEF Test!Least
<1>5. /\ input' \in [Test!End -> Seq(Nat)] /\ arrived' \in [Test!End -> Seq(Nat)]
      /\ \A f \in Test!End \ {p} : input'[f] = input[f] /\ arrived'[f] = arrived[f]
      /\ \A f \in Test!End : got[f] \o input[f] = arrived[f] => got[f] \o input'[f] = arrived'[f]
  BY <1>0, <1>1, <1>2, <1>4, Puts
<1>6. /\ op' \in [Test!End -> Sizes \cup {Test!NoOp}] /\ posted' \in Seq(Handlers)
      /\ op'[p] = Test!NoOp /\ \A f \in Test!End \ {p} : op'[f] = op[f]
      /\ \A f \in Test!End :
           /\ OneHandler(posted', f)
           /\ HandlerOf(posted', f) => op'[f] = Test!NoOp
           /\ reading[f] <=> HandlerOf(posted', f) \/ op'[f] # Test!NoOp
  BY <1>0, <1>1, <1>2, PostsWhatWaits DEF Test!notify_read
<1>7. EndTypes'
  BY <1>0, <1>1, <1>5, <1>6 DEF EndTypes
<1>8. Places'
  BY <1>0, <1>1, <1>5, <1>6 DEF Places, PlaceOf
<1>9. Test!InOrder'
  BY <1>0, <1>1, <1>5 DEF Test!InOrder
<1> QED BY <1>0, <1>1, <1>7, <1>8, <1>9, CountsNone DEF EndInv

(* An area is closed, and what waits there is posted.                      *)
LEMMA AreaCloses ==
  ASSUME Test!TestStreamAssumption, EndInv, NEW e \in Test!End, NEW ec \in {"none", "aborted"}, Test!Ended(e),
         input' = input, reading' = reading, arrived' = arrived, got' = got,
         \/ op[e] # Test!NoOp /\ posted' = Append(posted, Test!Handler(e, op[e], ec)) /\ op' = [op EXCEPT ![e] = Test!NoOp]
         \/ op[e] = Test!NoOp /\ posted' = posted /\ op' \in {op, [op EXCEPT ![e] = Test!NoOp]}
  PROVE  /\ code' \in [Test!End -> {"ok", "eof"}] /\ op' \in [Test!End -> Sizes \cup {Test!NoOp}]
         /\ posted' \in Seq(Handlers) /\ Places' /\ Test!InOrder'
<1>0. EndTypes /\ Places /\ Test!InOrder
  BY DEF EndInv
<1>1. code' \in [Test!End -> {"ok", "eof"}] /\ \A f \in Test!End \ {e} : code'[f] = code[f]
  BY <1>0 DEF Test!Ended, EndTypes
<1>2. /\ op' \in [Test!End -> Sizes \cup {Test!NoOp}] /\ posted' \in Seq(Handlers)
      /\ op'[e] = Test!NoOp /\ \A f \in Test!End \ {e} : op'[f] = op[f]
      /\ \A f \in Test!End :
           /\ OneHandler(posted', f)
           /\ HandlerOf(posted', f) => op'[f] = Test!NoOp
           /\ reading[f] <=> HandlerOf(posted', f) \/ op'[f] # Test!NoOp
  BY <1>0, PostsWhatWaits
<1>3. Places'
  BY <1>0, <1>1, <1>2 DEF Places, PlaceOf
<1> QED BY <1>0, <1>1, <1>2, <1>3 DEF Test!InOrder

LEMMA CancelReadKeeps ==
  ASSUME Test!TestStreamAssumption, EndInv, NEW e \in Test!End, Test!cancel_read(e), arrived' = arrived, got' = got, fail_at' = fail_at,
         pc' \in {[pc EXCEPT ![e] = x] : x \in Test!Closing}, counted' \in [Test!End -> Nat],
         outcome' \in [Test!End -> Seq(BOOLEAN)], Counts'
  PROVE  EndInv'
<1>0. EndTypes /\ Places /\ Test!InOrder
  BY DEF EndInv
<1>1. /\ Test!Ended(e) /\ input' = input /\ out' = out /\ size' = size /\ reading' = reading
      /\ \/ op[e] # Test!NoOp /\ posted' = Append(posted, Test!Handler(e, op[e], "aborted")) /\ op' = [op EXCEPT ![e] = Test!NoOp]
         \/ op[e] = Test!NoOp /\ posted' = posted /\ op' \in {op, [op EXCEPT ![e] = Test!NoOp]}
  BY DEF Test!cancel_read
<1>2. /\ code' \in [Test!End -> {"ok", "eof"}] /\ op' \in [Test!End -> Sizes \cup {Test!NoOp}]
      /\ posted' \in Seq(Handlers) /\ Places' /\ Test!InOrder'
  BY <1>1, AreaCloses
<1>3. EndTypes'
  BY <1>0, <1>1, <1>2, ZenonT(60) DEF EndTypes
<1> QED BY <1>2, <1>3 DEF EndInv

LEMMA CloseKeeps ==
  ASSUME Test!TestStreamAssumption, EndInv, NEW e \in Test!End, Test!close(e) \/ Test!Destroy(e) \/ Test!teardown(e)
  PROVE  EndInv'
<1>0. EndTypes /\ Places /\ Counts
  BY DEF EndInv
<1>1. CASE Test!close(e) \/ Test!Destroy(e)
  <2>1. /\ Test!cancel_read(e) /\ fail_at' = fail_at /\ counted' = counted /\ outcome' = outcome /\ arrived' = arrived /\ got' = got
        /\ pc' \in {[pc EXCEPT ![e] = x] : x \in Test!Closing}
    BY <1>1 DEF Test!close, Test!Destroy, Test!Uncounted, Test!hist, Test!Closing
  <2>2. Counts' /\ counted' \in [Test!End -> Nat] /\ outcome' \in [Test!End -> Seq(BOOLEAN)]
    BY <1>0, <2>1, CountsNone DEF EndTypes
  <2> QED BY <2>1, <2>2, CancelReadKeeps
<1>2. CASE Test!teardown(e)
  <2>1. counted' \in [Test!End -> Nat] /\ outcome' \in [Test!End -> Seq(BOOLEAN)] /\ Counts'
    BY <1>0, <1>2, CountsOne DEF Test!Call, Test!teardown
  <2>2. arrived' = arrived /\ got' = got /\ fail_at' = fail_at
    BY <1>2 DEF Test!teardown, Test!Call
  <2>3. CASE Test!Fails(e)
    <3>1. UNCHANGED Test!area /\ pc' = pc /\ size' = size /\ reading' = reading /\ posted' = posted
      BY <1>2, <2>3 DEF Test!teardown
    <3>2. input' = input /\ op' = op /\ code' = code /\ out' = out
      BY <3>1 DEF Test!area
    <3>3. EndTypes'
      BY <1>0, <2>1, <2>2, <3>1, <3>2 DEF EndTypes
    <3> QED BY <2>1, <2>2, <3>1, <3>2, <3>3, AreasKept DEF EndInv
  <2>4. CASE ~Test!Fails(e)
    <3>1. Test!cancel_read(e) /\ pc' \in {[pc EXCEPT ![e] = x] : x \in Test!Closing}
      BY <1>2, <2>4 DEF Test!teardown, Test!Closing
    <3> QED BY <2>1, <2>2, <3>1, CancelReadKeeps
  <2> QED BY <2>3, <2>4
<1> QED BY <1>1, <1>2

LEMMA DisconnectKeeps ==
  ASSUME Test!TestStreamAssumption, EndInv, NEW e \in Test!End, Test!Disconnect(e)
  PROVE  EndInv'
<1>0. EndTypes /\ Places /\ Counts
  BY DEF EndInv
<1>1. /\ out' = [out EXCEPT ![e] = FALSE] /\ fail_at' = fail_at /\ input' = input /\ size' = size /\ reading' = reading
      /\ arrived' = arrived /\ got' = got /\ pc' \in {[pc EXCEPT ![e] = x] : x \in {"gone", "idle"}}
  <2>1. pc' = [pc EXCEPT ![e] = IF pc[e] = "destroy" THEN "gone" ELSE "idle"]
    BY <1>0 DEF Test!Disconnect, EndTypes
  <2> QED BY <2>1 DEF Test!Disconnect
<1>2. counted' \in [Test!End -> Nat] /\ outcome' \in [Test!End -> Seq(BOOLEAN)] /\ Counts'
  <2>1. CASE pc[e] = "teardown"
    BY <1>0, <1>1, <2>1, CountsOne DEF Test!Disconnect
  <2>2. CASE pc[e] # "teardown"
    <3>1. counted' = counted /\ outcome' = outcome
      BY <2>2 DEF Test!Disconnect
    <3> QED BY <1>0, <1>1, <3>1, CountsNone DEF EndTypes
  <2> QED BY <2>1, <2>2
<1>3. PICK p \in Test!End : p = Test!Other(e)
  BY TwoEnds
<1>4. /\ code' \in [Test!End -> {"ok", "eof"}] /\ op' \in [Test!End -> Sizes \cup {Test!NoOp}]
      /\ posted' \in Seq(Handlers) /\ Places' /\ Test!InOrder'
  <2>1. CASE Test!Ended(p) /\ Test!notify_read(p)
    BY <1>1, <2>1, AreaCloses DEF Test!notify_read
  <2>2. CASE code' = code /\ op' = op /\ posted' = posted
    BY <1>0, <1>1, <2>2, AreasKept DEF EndTypes
  <2> QED BY <1>3, <2>1, <2>2 DEF Test!Disconnect
<1>5. EndTypes'
  BY <1>0, <1>1, <1>2, <1>4 DEF EndTypes
<1> QED BY <1>2, <1>4, <1>5 DEF EndInv

LEMMA CloseRemoteKeeps ==
  ASSUME Test!TestStreamAssumption, EndInv, NEW e \in Test!End, Test!close_remote(e)
  PROVE  EndInv'
<1>0. EndTypes /\ Places /\ Counts
  BY DEF EndInv
<1>1. /\ input' = input /\ out' = out /\ pc' = pc /\ size' = size /\ reading' = reading
      /\ arrived' = arrived /\ got' = got /\ fail_at' = fail_at /\ counted' = counted /\ outcome' = outcome
  BY DEF Test!close_remote, Test!Uncounted, Test!hist
<1>2. /\ code' \in [Test!End -> {"ok", "eof"}] /\ op' \in [Test!End -> Sizes \cup {Test!NoOp}]
      /\ posted' \in Seq(Handlers) /\ Places' /\ Test!InOrder'
  <2>1. CASE Test!Ended(e) /\ Test!notify_read(e)
    BY <1>1, <2>1, AreaCloses DEF Test!notify_read
  <2>2. CASE code' = code /\ op' = op /\ posted' = posted
    BY <1>0, <1>1, <2>2, AreasKept DEF EndTypes
  <2> QED BY <2>1, <2>2 DEF Test!close_remote
<1>3. EndTypes'
  BY <1>0, <1>1, <1>2 DEF EndTypes
<1> QED BY <1>0, <1>1, <1>2, <1>3, CountsNone DEF EndInv

LEMMA AppendKeeps ==
  ASSUME Test!TestStreamAssumption, EndInv, NEW e \in Test!End, Test!append(e)
  PROVE  EndInv'
<1>0. EndTypes /\ Places /\ Counts /\ Test!InOrder
  BY DEF EndInv
<1>1. /\ ~reading[e] /\ Test!Put(e, 1) /\ op' = op /\ code' = code /\ out' = out /\ pc' = pc /\ size' = size
      /\ reading' = reading /\ posted' = posted /\ got' = got /\ fail_at' = fail_at /\ counted' = counted /\ outcome' = outcome
  BY DEF Test!append, Test!Uncounted
<1>2. /\ input' \in [Test!End -> Seq(Nat)] /\ arrived' \in [Test!End -> Seq(Nat)]
      /\ \A f \in Test!End \ {e} : input'[f] = input[f] /\ arrived'[f] = arrived[f]
      /\ \A f \in Test!End : got[f] \o input[f] = arrived[f] => got[f] \o input'[f] = arrived'[f]
  BY <1>0, <1>1, Puts
<1>3. op[e] = Test!NoOp
  BY <1>0, <1>1 DEF Places, PlaceOf
<1>4. EndTypes'
  BY <1>0, <1>1, <1>2 DEF EndTypes
<1>5. Places'
  BY <1>0, <1>1, <1>2, <1>3 DEF Places, PlaceOf
<1>6. Test!InOrder'
  BY <1>0, <1>1, <1>2 DEF Test!InOrder
<1> QED BY <1>0, <1>1, <1>4, <1>5, <1>6, CountsNone DEF EndInv

LEMMA ClearKeeps ==
  ASSUME Test!TestStreamAssumption, EndInv, NEW e \in Test!End, Test!clear(e)
  PROVE  EndInv'
<1>0. EndTypes /\ Places /\ Counts /\ Test!InOrder
  BY DEF EndInv
<1>1. /\ input' = [input EXCEPT ![e] = <<>>] /\ arrived' = [arrived EXCEPT ![e] = got[e]]
      /\ op' = op /\ code' = code /\ out' = out /\ pc' = pc /\ size' = size /\ reading' = reading
      /\ posted' = posted /\ got' = got /\ fail_at' = fail_at /\ counted' = counted /\ outcome' = outcome
  BY DEF Test!clear, Test!Uncounted
<1>2. input \in [Test!End -> Seq(Nat)] /\ arrived \in [Test!End -> Seq(Nat)] /\ got \in [Test!End -> Seq(Nat)]
  BY <1>0 DEF EndTypes
<1>3. /\ input' \in [Test!End -> Seq(Nat)] /\ input'[e] = <<>> /\ \A f \in Test!End \ {e} : input'[f] = input[f]
      /\ arrived' \in [Test!End -> Seq(Nat)] /\ arrived'[e] = got[e] /\ \A f \in Test!End \ {e} : arrived'[f] = arrived[f]
  BY <1>1, <1>2
<1>4. EndTypes'
  BY <1>0, <1>1, <1>3 DEF EndTypes
<1>5. Places'
  BY <1>0, <1>1, <1>3 DEF Places, PlaceOf
<1>6. got[e] \o <<>> = got[e]
  <2>1. PICK x \in Seq(Nat) : x = got[e]
    BY <1>2
  <2> QED BY <2>1
<1>7. Test!InOrder'
  BY <1>0, <1>1, <1>3, <1>6 DEF Test!InOrder
<1> QED BY <1>0, <1>1, <1>4, <1>5, <1>7, CountsNone DEF EndInv

LEMMA EndStepKeeps ==
  ASSUME Test!TestStreamAssumption, EndInv, [Test!Next]_Test!vars
  PROVE  EndInv'
<1>1. CASE Test!RunRead
  BY <1>1, RunReadKeeps
<1>2. ASSUME NEW e \in Test!End, Test!async_read_some(e) \/ Test!read_some(e) \/ Test!Woken(e)
      PROVE  EndInv'
  BY <1>2, AsyncReadKeeps, BeginsKeeps, WokenKeeps
<1>3. ASSUME NEW e \in Test!End, Test!write_some(e) \/ Test!Copy(e)
      PROVE  EndInv'
  BY <1>3, BeginsKeeps, CopyKeeps
<1>4. ASSUME NEW e \in Test!End, Test!close(e) \/ Test!Destroy(e) \/ Test!teardown(e) \/ Test!Disconnect(e)
      PROVE  EndInv'
  BY <1>4, CloseKeeps, DisconnectKeeps
<1>5. ASSUME NEW e \in Test!End, Test!close_remote(e) \/ Test!append(e) \/ Test!clear(e)
      PROVE  EndInv'
  BY <1>5, CloseRemoteKeeps, AppendKeeps, ClearKeeps
<1>6. CASE UNCHANGED Test!vars
  <2>1. /\ input' = input /\ op' = op /\ code' = code /\ out' = out /\ fail_at' = fail_at /\ counted' = counted /\ pc' = pc /\ size' = size
        /\ reading' = reading /\ posted' = posted /\ outcome' = outcome /\ arrived' = arrived /\ got' = got
    BY <1>6 DEF Test!vars
  <2>2. EndTypes'
    BY <2>1 DEF EndInv, EndTypes
  <2> QED BY <2>1, <2>2, AreasKept, CountsNone DEF EndInv
<1> QED BY <1>1, <1>2, <1>3, <1>4, <1>5, <1>6 DEF Test!Next

LEMMA AlwaysEndInv ==
  ASSUME Test!TestStreamAssumption
  PROVE  Test!Spec => []EndInv
<1>1. Test!Init => EndInv
  BY InitialEndInv
<1>2. EndInv /\ [Test!Next]_Test!vars => EndInv'
  BY EndStepKeeps
<1> QED BY <1>1, <1>2, PTL DEF Test!Spec

(* Bytes are read from an area in the order in which they were put there,  *)
(* each once, but for those that clear() drops, whatever the two ends and  *)
(* the context do at the same time (impl/stream.hpp:91-99, :303-310).      *)
THEOREM EndsKeepOrder ==
  ASSUME Test!TestStreamAssumption
  PROVE  Test!Spec => []Test!InOrder
<1>1. EndInv => Test!InOrder
  BY DEF EndInv
<1> QED BY <1>1, AlwaysEndInv, PTL

(* A read that waits in an area has nothing to read and the area is not    *)
(* closed: whoever puts something there or closes it has taken the read    *)
(* out (impl/stream.ipp:48-65).                                            *)
THEOREM NoReadIsLeft ==
  ASSUME Test!TestStreamAssumption
  PROVE  Test!Spec => []Test!WaitsForNothing
<1>1. EndInv => Test!WaitsForNothing
  BY DEF EndInv, Places, PlaceOf, Test!WaitsForNothing
<1> QED BY <1>1, AlwaysEndInv, PTL

(* "BOOST_ASSERT(! sp->op)" (impl/stream.hpp:90): a read is in one place,  *)
(* waiting in the area or one handler that is due.                         *)
THEOREM ReadIsInOnePlace ==
  ASSUME Test!TestStreamAssumption
  PROVE  Test!Spec => []Test!OnePlace
<1>1. EndInv => Test!OnePlace
  <2> SUFFICES ASSUME EndInv, NEW e \in Test!End
               PROVE  LET mine == {k \in 1 .. Len(posted) : posted[k].end = e}
                      IN  /\ \A j, k \in mine : j = k
                          /\ mine # {} => op[e] = Test!NoOp
                          /\ reading[e] <=> (mine # {} \/ op[e] # Test!NoOp)
    BY DEF Test!OnePlace
  <2>1. PlaceOf(e)
    BY DEF EndInv, Places
  <2> QED BY <2>1 DEF PlaceOf, OneHandler, HandlerOf
<1> QED BY <1>1, AlwaysEndInv, PTL

(* From the operation that its fail_count names on, an end fails each one  *)
(* that counts, and none before (fail_count.hpp:21-25).                    *)
THEOREM FailsFromThereOn ==
  ASSUME Test!TestStreamAssumption
  PROVE  Test!Spec => []Test!FailsEverAfter
<1>1. EndInv => Test!FailsEverAfter
  <2> SUFFICES ASSUME EndInv, NEW e \in Test!End
               PROVE  /\ \A k \in 1 .. Len(outcome[e]) - 1 : outcome[e][k] => outcome[e][k + 1]
                      /\ fail_at[e] # Never =>
                           \A k \in 1 .. Len(outcome[e]) : k >= fail_at[e] => outcome[e][k]
    BY DEF Test!FailsEverAfter
  <2>1. CountOf(e) /\ Len(outcome[e]) \in Nat
    BY DEF EndInv, Counts, EndTypes
  <2>2. \A k \in 1 .. Len(outcome[e]) - 1 : k \in 1 .. Len(outcome[e]) /\ k + 1 \in 1 .. Len(outcome[e]) /\ k + 1 >= k
    BY <2>1
  <2>3. CASE fail_at[e] = Never
    BY <2>1, <2>2, <2>3 DEF CountOf
  <2>4. CASE fail_at[e] # Never
    <3>1. PICK a \in Nat : a = fail_at[e]
      BY <2>4, Numbers DEF EndInv, EndTypes
    <3>2. \A k \in 1 .. Len(outcome[e]) : outcome[e][k] <=> k >= a
      BY <2>1, <2>4, <3>1 DEF CountOf
    <3>3. \A k \in 1 .. Len(outcome[e]) - 1 : k >= a => k + 1 >= a
      BY <2>1
    <3> QED BY <2>2, <2>4, <3>1, <3>2, <3>3
  <2> QED BY <2>3, <2>4
<1> QED BY <1>1, AlwaysEndInv, PTL

------------------------------------------------------------------------------
(* buffered_read_stream: what the application has and what the buffer      *)
(* keeps is what the next layer has delivered; a read of the next layer    *)
(* has an empty buffer.                                                    *)
FirstBytes(n) == [j \in 1 .. n |-> j]

LayerInv ==
  /\ buffered_read \in Nat /\ buffered_sent \in Nat
  /\ buffer_ \in Seq(Nat) /\ buffered_got \in Seq(Nat)
  /\ buffered_size \in Nat
  /\ buffered_got \o buffer_ = FirstBytes(buffered_read)
  /\ buffered_pc \in {"unbuffered", "fill"} => buffer_ = <<>>

LEMMA MoreBytes ==
  ASSUME NEW n \in Nat, NEW k \in Nat
  PROVE  /\ [j \in 1 .. k |-> n + j] \in Seq(Nat)
         /\ FirstBytes(n) \o [j \in 1 .. k |-> n + j] = FirstBytes(n + k)
<1> DEFINE more == [j \in 1 .. k |-> n + j]
<1>1. more \in Seq(Nat) /\ Len(more) = k /\ \A j \in 1 .. k : more[j] = n + j
  OBVIOUS
<1>2. FirstBytes(n) \in Seq(Nat) /\ Len(FirstBytes(n)) = n /\ \A j \in 1 .. n : FirstBytes(n)[j] = j
  BY DEF FirstBytes
<1>3. FirstBytes(n + k) \in Seq(Nat) /\ Len(FirstBytes(n + k)) = n + k /\ \A j \in 1 .. n + k : FirstBytes(n + k)[j] = j
  BY DEF FirstBytes
<1> HIDE DEF more
<1>4. FirstBytes(n) \o more \in Seq(Nat) /\ Len(FirstBytes(n) \o more) = n + k
  BY <1>1, <1>2
<1>5. \A j \in 1 .. n + k : (FirstBytes(n) \o more)[j] = j
  BY <1>1, <1>2
<1>6. FirstBytes(n) \o more = FirstBytes(n + k)
  BY <1>3, <1>4, <1>5, SeqEqual
<1> QED BY <1>1, <1>6 DEF more

(* A part of s goes to the application, the rest stays.                    *)
LEMMA GoesOn ==
  ASSUME NEW g \in Seq(Nat), NEW s \in Seq(Nat), NEW m \in 0 .. Len(s)
  PROVE  /\ g \o SubSeq(s, 1, m) \in Seq(Nat) /\ SubSeq(s, m + 1, Len(s)) \in Seq(Nat)
         /\ (g \o SubSeq(s, 1, m)) \o SubSeq(s, m + 1, Len(s)) = g \o s
<1>1. PICK t \in Seq(Nat) : t = SubSeq(s, 1, m)
  BY CutApart
<1>2. PICK u \in Seq(Nat) : u = SubSeq(s, m + 1, Len(s))
  BY CutApart
<1>3. t \o u = s
  BY <1>1, <1>2, CutApart
<1>4. (g \o t) \o u = g \o (t \o u) /\ g \o t \in Seq(Nat)
  BY Regroups, SMTT(40)
<1> QED BY <1>1, <1>2, <1>3, <1>4

LEMMA InitialLayerInv ==
  Layer!BufferedInit => LayerInv
<1> SUFFICES ASSUME Layer!BufferedInit PROVE LayerInv
  OBVIOUS
<1>1. /\ buffered_read = 0 /\ buffered_sent = 0 /\ buffer_ = <<>> /\ buffered_got = <<>>
      /\ buffered_size = 0 /\ buffered_pc = "idle"
  BY DEF Layer!BufferedInit
<1>2. FirstBytes(0) = <<>>
  BY DEF FirstBytes
<1> QED BY <1>1, <1>2 DEF LayerInv

(* k bytes come behind those of the buffer, m go to the application.       *)
LEMMA ComeAndGo ==
  ASSUME LayerInv, NEW k \in Nat, NEW s \in Seq(Nat), s = buffer_ \o Layer!Arrived(k), NEW m \in 0 .. Len(s),
         buffered_read' = buffered_read + k, buffered_sent' = buffered_sent,
         buffered_got' = buffered_got \o SubSeq(s, 1, m), buffer_' = SubSeq(s, m + 1, Len(s)),
         buffered_size' \in Nat, buffered_pc' \notin {"unbuffered", "fill"}
  PROVE  LayerInv'
<1>1. PICK n \in Nat : n = buffered_read
  BY DEF LayerInv
<1>2. PICK r \in Seq(Nat) : r = buffer_
  BY DEF LayerInv
<1>3. PICK g \in Seq(Nat) : g = buffered_got
  BY DEF LayerInv
<1>4. g \o r = FirstBytes(n)
  BY <1>1, <1>2, <1>3 DEF LayerInv
<1>5. PICK more \in Seq(Nat) : more = Layer!Arrived(k) /\ FirstBytes(n) \o more = FirstBytes(n + k)
  BY <1>1, MoreBytes DEF Layer!Arrived
<1>6. s = r \o more
  BY <1>2, <1>5
<1>7. buffered_got' \in Seq(Nat) /\ buffer_' \in Seq(Nat) /\ buffered_got' \o buffer_' = g \o s
  BY <1>3, GoesOn
<1>8. (g \o r) \o more = g \o (r \o more)
  BY <1>2, <1>3, <1>5, Regroups, ZenonT(60)
<1>9. buffered_got' \o buffer_' = FirstBytes(n + k)
  BY <1>4, <1>5, <1>6, <1>7, <1>8
<1>10. buffered_read' = n + k /\ n + k \in Nat /\ buffered_sent' \in Nat
  BY <1>1 DEF LayerInv
<1>11. buffered_got' \o buffer_' = FirstBytes(buffered_read')
  BY <1>9, <1>10
<1> QED BY <1>7, <1>10, <1>11 DEF LayerInv

LEMMA BytesArrive ==
  ASSUME LayerInv, NEW k \in Nat
  PROVE  buffer_ \o Layer!Arrived(k) \in Seq(Nat) /\ Len(buffer_ \o Layer!Arrived(k)) \in Nat
<1>1. PICK more \in Seq(Nat) : more = Layer!Arrived(k)
  BY MoreBytes DEF Layer!Arrived, LayerInv
<1>2. buffer_ \o more \in Seq(Nat) /\ Len(buffer_ \o more) \in Nat
  BY DEF LayerInv
<1> QED BY <1>1, <1>2

LEMMA NoneArrived ==
  ASSUME buffer_ \in Seq(Nat)
  PROVE  buffer_ \o Layer!Arrived(0) = buffer_
<1>1. Layer!Arrived(0) = <<>>
  BY DEF Layer!Arrived
<1> QED BY <1>1

(* A read ends with a part of the buffer.                                  *)
LEMMA CopyGives ==
  ASSUME LayerInv, NEW n \in Nat, NEW err, Layer!Copy(buffer_, n, err),
         buffered_read' = buffered_read, buffered_sent' = buffered_sent, buffered_size' \in Nat
  PROVE  LayerInv'
<1>1. buffer_ \in Seq(Nat) /\ buffered_read \in Nat
  BY DEF LayerInv
<1>2. PICK m \in 0 .. Len(buffer_) : m = Layer!Least(n, Len(buffer_))
  BY <1>1 DEF Layer!Least
<1>3. /\ buffered_got' = buffered_got \o SubSeq(buffer_, 1, m) /\ buffer_' = SubSeq(buffer_, m + 1, Len(buffer_))
      /\ buffered_pc' = "idle"
  BY <1>2 DEF Layer!Copy
<1>4. PICK s \in Seq(Nat) : s = buffer_ \o Layer!Arrived(0) /\ s = buffer_
  BY <1>1, NoneArrived
<1>5. buffered_read' = buffered_read + 0
  BY <1>1
<1> QED BY <1>2, <1>3, <1>4, <1>5, ComeAndGo

LEMMA ReadUntilKeeps ==
  ASSUME LayerInv, Layer!ReadUntil
  PROVE  LayerInv'
<1>1. PICK k \in 1 .. Layer!Least(buffered_sent - buffered_read, buffered_max_size - Len(buffer_)) :
        \E m \in 0 .. Len(buffer_ \o Layer!Arrived(k)) :
          /\ buffered_read' = buffered_read + k
          /\ buffered_got' = buffered_got \o SubSeq(buffer_ \o Layer!Arrived(k), 1, m)
          /\ buffer_' = SubSeq(buffer_ \o Layer!Arrived(k), m + 1, Len(buffer_ \o Layer!Arrived(k)))
  BY DEF Layer!ReadUntil
<1>2. /\ buffered_sent' = buffered_sent /\ buffered_size' = buffered_size
      /\ buffered_pc' = buffered_pc /\ buffered_pc = "idle"
  BY DEF Layer!ReadUntil, Layer!buffered_call
<1>3. k \in Nat
  OBVIOUS
<1>4. PICK s \in Seq(Nat) : s = buffer_ \o Layer!Arrived(k)
  BY <1>3, BytesArrive
<1>5. PICK m \in 0 .. Len(s) : buffered_got' = buffered_got \o SubSeq(s, 1, m) /\ buffer_' = SubSeq(s, m + 1, Len(s))
  BY <1>1, <1>4
<1>6. buffered_size' \in Nat /\ buffered_pc' \notin {"unbuffered", "fill"}
  BY <1>2 DEF LayerInv
<1> QED BY <1>1, <1>2, <1>3, <1>4, <1>5, <1>6, ComeAndGo

LEMMA ReadSomeKeeps ==
  ASSUME Layer!BufferedReadAssumption, LayerInv, Layer!buffered_read_some
  PROVE  LayerInv'
<1>1. buffered_size' \in Nat /\ buffered_sent' = buffered_sent /\ buffered_read' = buffered_read
  BY DEF Layer!buffered_read_some, Layer!BufferedReadAssumption
<1>2. CASE buffer_ = <<>> \/ buffered_kind' # "sync"
  <2>1. /\ buffer_' = buffer_ /\ buffered_got' = buffered_got
        /\ buffer_ = <<>> \/ buffered_pc' = "posted"
    BY <1>2 DEF Layer!buffered_read_some
  <2> QED BY <1>1, <2>1 DEF LayerInv
<1>3. CASE buffer_ # <<>> /\ buffered_kind' = "sync"
  <2>1. Layer!Copy(buffer_, buffered_size', "ok")
    BY <1>3 DEF Layer!buffered_read_some
  <2> QED BY <1>1, <2>1, CopyGives
<1> QED BY <1>2, <1>3

LEMMA DeliversKeeps ==
  ASSUME LayerInv, Layer!Unbuffered \/ Layer!Fill \/ Layer!BufferedPosted
  PROVE  LayerInv'
<1>1. buffered_size \in Nat /\ buffered_size' = buffered_size /\ buffered_sent' = buffered_sent
  BY DEF LayerInv, Layer!Unbuffered, Layer!Fill, Layer!BufferedPosted
<1>2. CASE Layer!Unbuffered
  <2>1. PICK k \in Layer!BufferedSome(Layer!Least(buffered_size, buffered_sent - buffered_read)) :
          buffered_read' = buffered_read + k /\ buffered_got' = buffered_got \o Layer!Arrived(k)
    BY <1>2 DEF Layer!Unbuffered
  <2>2. k \in Nat /\ buffer_ = <<>> /\ buffer_' = <<>> /\ buffered_pc' = "idle"
    BY <1>2 DEF Layer!Unbuffered, Layer!BufferedSome, LayerInv
  <2>3. PICK s \in Seq(Nat) : s = Layer!Arrived(k)
    BY <2>2, MoreBytes DEF Layer!Arrived, LayerInv
  <2>4. s = buffer_ \o Layer!Arrived(k) /\ Len(s) \in 0 .. Len(s) /\ SubSeq(s, 1, Len(s)) = s /\ SubSeq(s, Len(s) + 1, Len(s)) = <<>>
    BY <2>2, <2>3
  <2> QED BY <1>1, <2>1, <2>2, <2>3, <2>4, ComeAndGo
<1>3. CASE Layer!Fill
  <2>1. PICK k \in Layer!BufferedSome(Layer!Least(prepared, buffered_sent - buffered_read)) :
          buffered_read' = buffered_read + k /\ Layer!Copy(buffer_ \o Layer!Arrived(k), buffered_size, "ok")
    BY <1>3 DEF Layer!Fill
  <2>2. k \in Nat /\ buffer_ \in Seq(Nat)
    BY DEF Layer!BufferedSome, LayerInv
  <2>3. PICK s \in Seq(Nat) : s = buffer_ \o Layer!Arrived(k)
    BY <2>2, BytesArrive
  <2>4. PICK m \in 0 .. Len(s) : m = Layer!Least(buffered_size, Len(s))
    BY <1>1 DEF Layer!Least
  <2>5. /\ buffered_got' = buffered_got \o SubSeq(s, 1, m) /\ buffer_' = SubSeq(s, m + 1, Len(s))
        /\ buffered_pc' = "idle"
    BY <2>1, <2>3, <2>4 DEF Layer!Copy
  <2> QED BY <1>1, <2>1, <2>2, <2>3, <2>5, ComeAndGo
<1>4. CASE Layer!BufferedPosted
  <2>1. Layer!Copy(buffer_, buffered_size, "ok") /\ buffered_read' = buffered_read
    BY <1>4 DEF Layer!BufferedPosted
  <2> QED BY <1>1, <2>1, CopyGives
<1> QED BY <1>2, <1>3, <1>4

LEMMA OtherLayerKeeps ==
  ASSUME LayerInv,
         Layer!BufferedPeerSends \/ Layer!capacity \/ Layer!BufferedFails \/ UNCHANGED Layer!buffered_vars
  PROVE  LayerInv'
<1>1. /\ buffered_sent' \in Nat /\ buffered_read' = buffered_read /\ buffer_' = buffer_
      /\ buffered_got' = buffered_got /\ buffered_size' = buffered_size
      /\ buffered_pc' \in {buffered_pc, "idle"}
  BY DEF LayerInv, Layer!BufferedPeerSends, Layer!capacity, Layer!BufferedFails, Layer!buffered_vars, Layer!buffered_call
<1> QED BY <1>1 DEF LayerInv

LEMMA AlwaysLayerInv ==
  ASSUME Layer!BufferedReadAssumption
  PROVE  Layer!BufferedSpec => []LayerInv
<1>1. LayerInv /\ [Layer!BufferedNext]_(Layer!buffered_vars) => LayerInv'
  BY ReadUntilKeeps, ReadSomeKeeps, DeliversKeeps, OtherLayerKeeps DEF Layer!BufferedNext, Layer!BufferedReading
<1> QED BY InitialLayerInv, <1>1, PTL DEF Layer!BufferedSpec

(* buffered_read_stream gives every byte once and in order, for any        *)
(* capacities and sizes, whatever reads fail and whatever the application  *)
(* takes from the buffer itself (impl/buffered_read_stream.hpp:92-101).    *)
THEOREM BufferKeepsOrder ==
  ASSUME Layer!BufferedReadAssumption
  PROVE  Layer!BufferedSpec => []Layer!BufferedInOrder
<1>1. LayerInv => Layer!BufferedInOrder
  BY DEF LayerInv, FirstBytes, Layer!BufferedInOrder
<1> QED BY AlwaysLayerInv, <1>1, PTL

------------------------------------------------------------------------------
(* icy_stream: of the first bytes as many are kept as do not decide; when  *)
(* they have decided, what has come is what the reader has or is kept.     *)
Text == STRING \cup {"I", "C", "Y", "H", "T", "P", "/", "1", "."}

LEMMA RegroupsText ==
  ASSUME NEW s \in Seq(Text), NEW t \in Seq(Text), NEW u \in Seq(Text)
  PROVE  (s \o t) \o u = s \o (t \o u) /\ s \o t \in Seq(Text) /\ t \o u \in Seq(Text)
<1>1. (s \o t) \o u = s \o (t \o u)
  BY ConcatAssociative
<1> QED BY <1>1

LEMMA PartOfText ==
  ASSUME NEW t \in Seq(Text), NEW m \in Nat \ {0}, NEW n \in Nat, n <= Len(t)
  PROVE  /\ SubSeq(t, m, n) \in Seq(Text)
         /\ Len(SubSeq(t, m, n)) = IF m <= n THEN n - m + 1 ELSE 0
         /\ \A j \in 1 .. n - m + 1 : SubSeq(t, m, n)[j] = t[m + j - 1]
<1>1. m \in Int /\ n \in Int /\ \A j \in m .. n : t[j] \in Text
  OBVIOUS
<1> QED BY <1>1, SubSeqProperties

LEMMA CutText ==
  ASSUME NEW t \in Seq(Text), NEW m \in 1 .. Len(t) + 1, NEW k \in m - 1 .. Len(t), NEW n \in k .. Len(t)
  PROVE  /\ SubSeq(t, m, k) \in Seq(Text) /\ SubSeq(t, k + 1, n) \in Seq(Text)
         /\ SubSeq(t, m, n) \in Seq(Text)
         /\ SubSeq(t, m, k) \o SubSeq(t, k + 1, n) = SubSeq(t, m, n)
<1>1. SubSeq(t, m, k) \o SubSeq(t, k + 1, n) = SubSeq(t, m, n)
  BY ConcatAdjacentSubSeq
<1>2. SubSeq(t, m, k) \in Seq(Text) /\ SubSeq(t, k + 1, n) \in Seq(Text) /\ SubSeq(t, m, n) \in Seq(Text)
  OBVIOUS
<1> QED BY <1>1, <1>2

LEMMA SameFront ==
  ASSUME NEW s \in Seq(Text), NEW t \in Seq(Text), NEW m \in Nat \ {0}, NEW n \in Nat,
         n <= Len(s), n <= Len(t), \A j \in 1 .. n : s[j] = t[j]
  PROVE  SubSeq(s, m, n) = SubSeq(t, m, n)
<1>1. PICK u \in Seq(Text) : u = SubSeq(s, m, n)
  BY PartOfText
<1>2. PICK v \in Seq(Text) : v = SubSeq(t, m, n)
  BY PartOfText
<1>3. /\ Len(u) = Len(v)
      /\ \A j \in 1 .. Len(u) : u[j] = s[m + j - 1] /\ v[j] = t[m + j - 1] /\ m + j - 1 \in 1 .. n
  BY <1>1, <1>2, PartOfText
<1>4. \A j \in 1 .. Len(u) : u[j] = v[j]
  BY <1>3
<1>5. u = v
  BY <1>3, <1>4, SeqEqual
<1> QED BY <1>1, <1>2, <1>5

IcyType ==
  /\ icy_all \in Seq(Text) /\ icy_sent \in Nat /\ icy_read \in Nat /\ icy_size \in Nat
  /\ buf_ \in Seq(Text) /\ icy_got \in Seq(Text) /\ detect_ \in BOOLEAN
  /\ icy_read <= icy_sent /\ icy_sent <= Len(icy_all)

IsIcy(n)  == \A j \in 1 .. n : icy_all[j] = Layer!ICY[j]

(* What has come is kept; it was an ICY answer; it was another one.        *)
Keeping  == /\ icy_read < 3 /\ IsIcy(icy_read)
            /\ icy_got = <<>> /\ buf_ = SubSeq(icy_all, 1, icy_read)
Replaced == /\ icy_read >= 3 /\ IsIcy(3)
            /\ icy_got \o buf_ = Layer!version \o SubSeq(icy_all, 4, icy_read)
Passed   == /\ \E n \in 1 .. 3 : n <= icy_read /\ ~IsIcy(n)
            /\ icy_got \o buf_ = SubSeq(icy_all, 1, icy_read)

IcyInv ==
  /\ IcyType
  /\ detect_ => Keeping
  /\ ~detect_ => Replaced \/ Passed
  /\ icy_pc = "detect" => detect_
  /\ icy_pc = "posted" => ~detect_
  /\ icy_pc = "through" => ~detect_ /\ buf_ = <<>>

LEMMA TextOfIcy ==
  /\ Layer!version \in Seq(Text) /\ Layer!ICY \in Seq(Text) /\ Len(Layer!ICY) = 3
  /\ Layer!ICY = <<"I", "C", "Y">>
<1>1. \A c \in {"I", "C", "Y", "H", "T", "P", "/", "1", "."} : c \in Text
  BY DEF Text
<1>2. \A u, v, w, x, y, z \in Text :
        <<u, v, w>> \in Seq(Text) /\ Len(<<u, v, w>>) = 3 /\ <<u, v, v, w, x, y, z, y>> \in Seq(Text)
  OBVIOUS
<1> QED BY <1>1, <1>2 DEF Layer!version, Layer!ICY

LEMMA InitialIcyInv ==
  ASSUME Layer!IcyStreamAssumption, Layer!IcyInit
  PROVE  IcyInv
<1>1. icy_all \in Seq(STRING)
  BY DEF Layer!IcyStreamAssumption, Layer!IcyInit
<1>2. STRING \subseteq Text
  BY DEF Text
<1>3. icy_all \in Seq(Text)
  BY <1>1, <1>2, SeqMonotonic
<1>4. /\ icy_all \in Seq(Text) /\ icy_sent = 0 /\ buf_ = <<>> /\ detect_ = TRUE /\ icy_pc = "idle"
      /\ icy_size = 0 /\ icy_read = 0 /\ icy_got = <<>>
  BY <1>3 DEF Layer!IcyInit
<1>5. SubSeq(icy_all, 1, 0) = <<>>
  BY <1>4
<1>6. Keeping
  BY <1>4, <1>5 DEF Keeping, IsIcy
<1> QED BY <1>4, <1>6 DEF IcyInv, IcyType

(* The end of a read gives the reader a part of s.                         *)
LEMMA Gives ==
  ASSUME NEW g \in Seq(Text), NEW s \in Seq(Text), NEW n \in Nat, NEW err,
         icy_got = g, Layer!Give(s, n, err)
  PROVE  /\ icy_got' \in Seq(Text) /\ buf_' \in Seq(Text) /\ icy_got' \o buf_' = g \o s
         /\ icy_pc' = "idle"
<1>1. PICK m \in 0 .. Len(s) : m = Layer!Least(n, Len(s))
  BY DEF Layer!Least
<1>2. PICK t \in Seq(Text) : t = SubSeq(s, 1, m)
  <2>1. SubSeq(s, 1, m) \in Seq(Text)
    OBVIOUS
  <2> QED BY <2>1
<1>3. PICK u \in Seq(Text) : u = SubSeq(s, m + 1, Len(s))
  <2>1. SubSeq(s, m + 1, Len(s)) \in Seq(Text)
    OBVIOUS
  <2> QED BY <2>1
<1>4. icy_got' = g \o t /\ buf_' = u /\ icy_pc' = "idle"
  BY <1>1, <1>2, <1>3 DEF Layer!Give, Layer!Return
<1>5. SubSeq(s, 1, m) \o SubSeq(s, m + 1, Len(s)) = SubSeq(s, 1, Len(s))
  <2>1. 1 \in 1 .. Len(s) + 1 /\ m \in 1 - 1 .. Len(s) /\ Len(s) \in m .. Len(s)
    OBVIOUS
  <2> QED BY <2>1, CutText
<1>6. t \o u = s
  BY <1>2, <1>3, <1>5, SubSeqFull
<1>7. (g \o t) \o u = g \o (t \o u) /\ g \o t \in Seq(Text)
  BY RegroupsText
<1> QED BY <1>3, <1>4, <1>6, <1>7

(* What decided stays decided, when only what is given moves.              *)
LEMMA StaysDecided ==
  ASSUME IcyInv, ~detect_, detect_' = detect_, icy_all' = icy_all, icy_read' = icy_read,
         icy_got' \o buf_' = icy_got \o buf_
  PROVE  (Replaced \/ Passed)'
BY DEF IcyInv, Replaced, Passed, IsIcy

LEMMA IcyReadKeeps ==
  ASSUME Layer!IcyStreamAssumption, IcyInv, Layer!icy_read_some \/ Layer!IcyPosted
  PROVE  IcyInv'
<1>0. PICK g \in Seq(Text) : g = icy_got
  BY DEF IcyInv, IcyType
<1>1. PICK s \in Seq(Text) : s = buf_
  BY DEF IcyInv, IcyType
<1>2. /\ icy_all' = icy_all /\ icy_sent' = icy_sent /\ icy_read' = icy_read /\ icy_size' \in Nat
      /\ detect_' = detect_
  BY DEF IcyInv, IcyType, Layer!icy_read_some, Layer!IcyPosted, Layer!icy_peer, Layer!IcyStreamAssumption
<1>3. CASE Layer!icy_read_some /\ (detect_ \/ buf_ = <<>> \/ icy_kind' # "sync")
  <2>1. /\ buf_' = buf_ /\ icy_got' = icy_got
        /\ \/ detect_ /\ icy_pc' = "detect"
           \/ ~detect_ /\ icy_pc' = "through" /\ buf_ = <<>>
           \/ ~detect_ /\ icy_pc' = "posted"
    BY <1>3 DEF Layer!icy_read_some, IcyInv, IcyType
  <2>2. Keeping => Keeping'
    BY <1>2, <2>1 DEF Keeping, IsIcy
  <2>3. Replaced \/ Passed => (Replaced \/ Passed)'
    BY <1>2, <2>1 DEF Replaced, Passed, IsIcy
  <2> QED BY <1>2, <2>1, <2>2, <2>3 DEF IcyInv, IcyType
<1>4. CASE \/ Layer!icy_read_some /\ ~(detect_ \/ buf_ = <<>> \/ icy_kind' # "sync")
           \/ Layer!IcyPosted
  <2>1. PICK n \in Nat : ~detect_ /\ \E err : Layer!Give(s, n, err)
    BY <1>1, <1>2, <1>4 DEF Layer!icy_read_some, Layer!IcyPosted, IcyInv, IcyType
  <2>2. /\ icy_got' \in Seq(Text) /\ buf_' \in Seq(Text) /\ icy_got' \o buf_' = g \o s
        /\ icy_pc' = "idle"
    BY <1>0, <2>1, Gives
  <2>3. (Replaced \/ Passed)'
    BY <1>0, <1>1, <1>2, <2>1, <2>2, StaysDecided
  <2> QED BY <1>2, <2>1, <2>2, <2>3 DEF IcyInv, IcyType
<1> QED BY <1>3, <1>4

LEMMA DetectsKeeps ==
  ASSUME Layer!IcyStreamAssumption, IcyInv, Layer!Detect
  PROVE  IcyInv'
<1>1. /\ detect_ /\ Keeping /\ IcyType
      /\ icy_all' = icy_all /\ icy_sent' = icy_sent /\ icy_size' = icy_size
  BY DEF IcyInv, Layer!Detect, Layer!icy_peer
<1>2. PICK a \in Seq(Text) : a = icy_all
  BY <1>1 DEF IcyType
<1>3. PICK r \in 0 .. 2 : r = icy_read /\ r <= Len(a)
  BY <1>1, <1>2 DEF IcyType, Keeping
<1>4. PICK k \in 1 .. Layer!Least(3 - Len(buf_), icy_sent - icy_read) :
        LET b == Layer!Read(buf_, k)
            verdict == Layer!is_icy(b)
        IN /\ icy_read' = icy_read + k
           /\ detect_' = (verdict = "indeterminate")
           /\ IF verdict = "indeterminate"
              THEN buf_' = b /\ UNCHANGED <<icy_pc, icy_got, icy_told>>
              ELSE Layer!Give(IF verdict = "true" THEN Layer!version ELSE b, icy_size, "ok")
  BY DEF Layer!Detect
<1>5. Len(buf_) = r
  BY <1>1, <1>2, <1>3 DEF Keeping
<1>6. k \in Nat /\ r + k \in 1 .. 3 /\ r + k <= icy_sent /\ r + k <= Len(a) /\ icy_sent \in Nat
  BY <1>1, <1>2, <1>3, <1>4, <1>5 DEF Layer!Least, IcyType
<1>7. PICK s \in Seq(Text) : s = Layer!Read(buf_, k) /\ s = SubSeq(a, 1, r + k)
  <2>1. SubSeq(a, 1, r) \o SubSeq(a, r + 1, r + k) = SubSeq(a, 1, r + k) /\ SubSeq(a, 1, r + k) \in Seq(Text)
    <3>1. 1 \in 1 .. Len(a) + 1 /\ r \in 1 - 1 .. Len(a) /\ r + k \in r .. Len(a)
      BY <1>3, <1>6
    <3> QED BY <3>1, CutText
  <2> QED BY <1>1, <1>2, <1>3, <2>1 DEF Layer!Read, Keeping
<1>8. Len(s) = r + k /\ \A j \in 1 .. r + k : s[j] = a[j]
  BY <1>6, <1>7
<1>9. icy_read' = r + k /\ detect_' = (Layer!is_icy(s) = "indeterminate")
  BY <1>3, <1>4, <1>7
<1>10. SubSeq(s, 1, r + k) = s /\ Layer!Least(Len(s), 3) = r + k
  BY <1>6, <1>8, SubSeqFull DEF Layer!Least
<1>11. PICK t \in Seq(Text) : t = SubSeq(<<"I", "C", "Y">>, 1, r + k)
  <2>1. SubSeq(<<"I", "C", "Y">>, 1, r + k) \in Seq(Text)
    BY <1>6, TextOfIcy
  <2> QED BY <2>1
<1>12. Len(t) = r + k /\ \A j \in 1 .. r + k : t[j] = Layer!ICY[j]
  BY <1>6, <1>11, TextOfIcy, PartOfText
<1>13. s = t <=> IsIcy(r + k)
  <2>1. (\A j \in 1 .. r + k : s[j] = t[j]) <=> IsIcy(r + k)
    BY <1>2, <1>8, <1>12 DEF IsIcy
  <2>2. (\A j \in 1 .. Len(s) : s[j] = t[j]) => s = t
    BY <1>8, <1>12, SeqEqual
  <2> QED BY <1>8, <2>1, <2>2
<1>14. Layer!is_icy(s) = IF s # t THEN "false" ELSE IF r + k < 3 THEN "indeterminate" ELSE "true"
  BY <1>10, <1>11 DEF Layer!is_icy
<1>15. CASE s = t /\ r + k < 3
  <2>1. detect_' /\ buf_' = s /\ icy_got' = icy_got /\ icy_pc' = icy_pc
    BY <1>4, <1>7, <1>9, <1>14, <1>15
  <2>2. Keeping'
    BY <1>1, <1>2, <1>7, <1>9, <1>13, <1>15, <2>1 DEF Keeping, IsIcy
  <2>3. IcyType'
    BY <1>1, <1>6, <1>9, <2>1 DEF IcyType
  <2>4. icy_pc' = "detect"
    BY <2>1 DEF Layer!Detect
  <2> QED BY <2>1, <2>2, <2>3, <2>4 DEF IcyInv
<1>16. CASE ~(s = t /\ r + k < 3)
  <2>1. PICK x \in Seq(Text) : x = IF s = t THEN Layer!version ELSE s
    BY TextOfIcy
  <2>2. detect_' = FALSE /\ Layer!Give(x, icy_size, "ok")
    BY <1>4, <1>7, <1>9, <1>14, <1>16, <2>1
  <2>3. PICK g \in Seq(Text) : g = icy_got /\ g = <<>>
    BY <1>1 DEF IcyType, Keeping
  <2>4. icy_size \in Nat
    BY <1>1 DEF IcyType
  <2>5. /\ icy_got' \in Seq(Text) /\ buf_' \in Seq(Text) /\ icy_got' \o buf_' = g \o x
        /\ icy_pc' = "idle"
    BY <2>2, <2>3, <2>4, Gives
  <2>6. icy_got' \o buf_' = x
    BY <2>3, <2>5
  <2>7. IcyType'
    BY <1>1, <1>6, <1>9, <2>2, <2>5 DEF IcyType
  <2>8. s = t => Replaced'
    <3> SUFFICES ASSUME s = t PROVE Replaced'
      OBVIOUS
    <3>1. r + k = 3 /\ icy_read' = 3
      BY <1>6, <1>9, <1>16
    <3>2. SubSeq(a, 4, 3) = <<>> /\ Layer!version \o <<>> = Layer!version
      BY TextOfIcy
    <3> QED BY <1>1, <1>2, <1>13, <2>1, <2>6, <3>1, <3>2, SMTT(40) DEF Replaced, IsIcy
  <2>9. s # t => Passed'
    <3> SUFFICES ASSUME s # t PROVE Passed'
      OBVIOUS
    <3>1. icy_got' \o buf_' = SubSeq(icy_all', 1, icy_read')
      BY <1>1, <1>2, <1>7, <1>9, <2>1, <2>6
    <3>2. ~IsIcy(r + k)'
      BY <1>1, <1>13 DEF IsIcy
    <3> QED BY <1>6, <1>9, <3>1, <3>2 DEF Passed
  <2> QED BY <2>2, <2>5, <2>7, <2>8, <2>9 DEF IcyInv
<1> QED BY <1>15, <1>16

LEMMA ThroughKeeps ==
  ASSUME Layer!IcyStreamAssumption, IcyInv, Layer!Through
  PROVE  IcyInv'
<1>1. /\ ~detect_ /\ buf_ = <<>> /\ (Replaced \/ Passed) /\ IcyType
      /\ icy_all' = icy_all /\ icy_sent' = icy_sent /\ icy_size' = icy_size
      /\ buf_' = buf_ /\ detect_' = detect_
  BY DEF IcyInv, Layer!Through, Layer!icy_peer, Layer!stream
<1>2. PICK a \in Seq(Text) : a = icy_all
  BY <1>1 DEF IcyType
<1>3. PICK g \in Seq(Text) : g = icy_got
  BY <1>1 DEF IcyType
<1>4. PICK r \in Nat : r = icy_read /\ r <= icy_sent
  BY <1>1 DEF IcyType
<1>5. PICK k \in IF icy_size = 0 THEN {0} ELSE 1 .. Layer!Least(icy_size, icy_sent - icy_read) :
        icy_read' = icy_read + k /\ Layer!Return(SubSeq(icy_all, icy_read + 1, icy_read + k), "ok")
  BY DEF Layer!Through
<1>6. k \in Nat /\ r + k <= icy_sent /\ r + k <= Len(a) /\ r + k \in Nat
  BY <1>1, <1>2, <1>4, <1>5 DEF IcyType, Layer!Least
<1>7. PICK m \in Seq(Text) : m = SubSeq(a, r + 1, r + k)
  <2>1. SubSeq(a, r + 1, r + k) \in Seq(Text)
    BY <1>4, <1>6
  <2> QED BY <2>1
<1>8. icy_read' = r + k /\ icy_got' = g \o m /\ icy_pc' = "idle"
  BY <1>2, <1>3, <1>4, <1>5, <1>7 DEF Layer!Return
<1>9. icy_got' \in Seq(Text) /\ icy_got' \o buf_' = g \o m /\ icy_got \o buf_ = g
  BY <1>1, <1>3, <1>8
<1>10. Passed => Passed'
  <2> SUFFICES ASSUME Passed PROVE Passed'
    OBVIOUS
  <2>1. g = SubSeq(a, 1, r)
    BY <1>2, <1>4, <1>9 DEF Passed
  <2>2. 1 \in 1 .. Len(a) + 1 /\ r \in 1 - 1 .. Len(a) /\ r + k \in r .. Len(a)
    BY <1>4, <1>6
  <2>3. g \o m = SubSeq(a, 1, r + k)
    BY <1>7, <2>1, <2>2, CutText
  <2>4. \A n \in 1 .. 3 : n <= r => n <= r + k
    BY <1>6
  <2> QED BY <1>1, <1>2, <1>4, <1>8, <1>9, <2>3, <2>4 DEF Passed, IsIcy
<1>11. Replaced => Replaced'
  <2> SUFFICES ASSUME Replaced PROVE Replaced'
    OBVIOUS
  <2>1. r >= 3 /\ g = Layer!version \o SubSeq(a, 4, r)
    BY <1>2, <1>4, <1>9 DEF Replaced
  <2>2. 4 \in 1 .. Len(a) + 1 /\ r \in 4 - 1 .. Len(a) /\ r + k \in r .. Len(a)
    BY <1>4, <1>6, <2>1
  <2>3. PICK x \in Seq(Text) : x = SubSeq(a, 4, r) /\ x \o m = SubSeq(a, 4, r + k)
    BY <1>7, <2>2, CutText
  <2>4. PICK v \in Seq(Text) : v = Layer!version
    BY TextOfIcy
  <2>5. (v \o x) \o m = v \o (x \o m)
    BY RegroupsText, SMTT(40)
  <2>6. g \o m = Layer!version \o SubSeq(a, 4, r + k)
    BY <2>1, <2>3, <2>4, <2>5
  <2>7. r + k >= 3
    BY <1>6, <2>1
  <2> QED BY <1>1, <1>2, <1>8, <1>9, <2>6, <2>7 DEF Replaced, IsIcy
<1>12. IcyType'
  BY <1>1, <1>6, <1>8, <1>9 DEF IcyType
<1> QED BY <1>1, <1>8, <1>10, <1>11, <1>12 DEF IcyInv

LEMMA ClosesKeeps ==
  ASSUME IcyInv, Layer!IcyPeerCloses
  PROVE  IcyInv'
<1>1. /\ icy_all' = SubSeq(icy_all, 1, icy_sent) /\ icy_sent' = icy_sent /\ icy_read' = icy_read
      /\ icy_size' = icy_size /\ buf_' = buf_ /\ detect_' = detect_ /\ icy_got' = icy_got /\ icy_pc' = icy_pc
  BY DEF Layer!IcyPeerCloses, Layer!stream
<1>2. PICK a \in Seq(Text) : a = icy_all
  BY DEF IcyInv, IcyType
<1>3. PICK n \in Nat : n = icy_sent /\ n <= Len(a)
  BY <1>2 DEF IcyInv, IcyType
<1>4. PICK r \in Nat : r = icy_read /\ r <= n
  BY <1>3 DEF IcyInv, IcyType
<1>5. PICK s \in Seq(Text) : s = SubSeq(a, 1, n)
  <2>1. SubSeq(a, 1, n) \in Seq(Text)
    BY <1>3
  <2> QED BY <2>1
<1>6. Len(s) = n /\ \A j \in 1 .. n : s[j] = a[j]
  BY <1>3, <1>5
<1>7. icy_all' = s
  BY <1>1, <1>2, <1>3, <1>5
<1>8. SubSeq(s, 1, r) = SubSeq(a, 1, r) /\ SubSeq(s, 4, r) = SubSeq(a, 4, r)
  <2>1. r <= Len(s) /\ r <= Len(a) /\ \A j \in 1 .. r : s[j] = a[j]
    BY <1>3, <1>4, <1>6
  <2> QED BY <2>1, SameFront
<1>9. /\ icy_read' = r /\ icy_got' \o buf_' = icy_got \o buf_
      /\ \A j \in 1 .. r : icy_all'[j] = icy_all[j]
  BY <1>1, <1>2, <1>3, <1>4, <1>6, <1>7
<1>10. Keeping => Keeping'
  <2>1. r \in Nat /\ buf_' = buf_ /\ icy_got' = icy_got /\ SubSeq(icy_all', 1, r) = SubSeq(icy_all, 1, r)
    BY <1>1, <1>2, <1>7, <1>8
  <2> QED BY <1>4, <1>9, <2>1 DEF Keeping, IsIcy
<1>11. Replaced => Replaced'
  <2>1. r >= 3 => \A j \in 1 .. 3 : icy_all'[j] = icy_all[j]
    <3> HAVE r >= 3
    <3> TAKE j \in 1 .. 3
    <3>1. j \in 1 .. r
      BY <1>4
    <3> QED BY <1>9, <3>1
  <2>2. SubSeq(icy_all', 4, r) = SubSeq(icy_all, 4, r)
    BY <1>2, <1>7, <1>8
  <2> QED BY <1>4, <1>9, <2>1, <2>2 DEF Replaced, IsIcy
<1>12. Passed => Passed'
  <2>1. \A m \in 1 .. 3 : m <= r => \A j \in 1 .. m : icy_all'[j] = icy_all[j]
    <3> TAKE m \in 1 .. 3
    <3> HAVE m <= r
    <3> TAKE j \in 1 .. m
    <3>1. j \in 1 .. r
      BY <1>4
    <3> QED BY <1>9, <3>1
  <2>2. SubSeq(icy_all', 1, r) = SubSeq(icy_all, 1, r)
    BY <1>2, <1>7, <1>8
  <2>3. ASSUME Passed PROVE Passed'
    <3>1. PICK m \in 1 .. 3 : m <= r /\ ~IsIcy(m)
      BY <1>4, <2>3 DEF Passed
    <3>2. ~IsIcy(m)'
      BY <2>1, <3>1 DEF IsIcy
    <3>3. icy_got' \o buf_' = SubSeq(icy_all', 1, icy_read')
      BY <1>4, <1>9, <2>2, <2>3 DEF Passed
    <3> QED BY <1>9, <3>1, <3>2, <3>3 DEF Passed
  <2> QED BY <2>3
<1>13. IcyType'
  BY <1>1, <1>3, <1>6, <1>7 DEF IcyInv, IcyType
<1> QED BY <1>1, <1>10, <1>11, <1>12, <1>13 DEF IcyInv

LEMMA OtherIcyKeeps ==
  ASSUME IcyInv, Layer!IcyPeerSends \/ Layer!IcyFails \/ UNCHANGED Layer!icy_vars
  PROVE  IcyInv'
<1>0. PICK g \in Seq(Text) : g = icy_got
  BY DEF IcyInv, IcyType
<1>1. /\ icy_all' = icy_all /\ icy_sent' \in Nat /\ icy_sent' >= icy_sent /\ icy_sent' <= Len(icy_all)
      /\ icy_read' = icy_read /\ icy_size' = icy_size /\ buf_' = buf_ /\ detect_' = detect_
      /\ icy_got' \in {g, g \o <<>>} /\ icy_pc' \in {icy_pc, "idle"}
  BY <1>0 DEF IcyInv, IcyType, Layer!IcyPeerSends, Layer!IcyFails, Layer!Return, Layer!icy_vars, Layer!icy_peer, Layer!stream
<1>2. icy_got' = icy_got
  BY <1>0, <1>1
<1>3. (Keeping => Keeping') /\ (Replaced => Replaced') /\ (Passed => Passed')
  BY <1>1, <1>2 DEF Keeping, Replaced, Passed, IsIcy
<1>4. IcyType'
  BY <1>1, <1>2 DEF IcyInv, IcyType
<1> QED BY <1>1, <1>3, <1>4 DEF IcyInv

LEMMA AlwaysIcyInv ==
  ASSUME Layer!IcyStreamAssumption
  PROVE  Layer!IcySpec => []IcyInv
<1>1. IcyInv /\ [Layer!IcyNext]_(Layer!icy_vars) => IcyInv'
  BY IcyReadKeeps, DetectsKeeps, ThroughKeeps, ClosesKeeps, OtherIcyKeeps DEF Layer!IcyNext, Layer!IcyReading
<1> QED BY InitialIcyInv, <1>1, PTL DEF Layer!IcySpec

(* A reader of icy_stream gets the peer's bytes in order, "ICY" at their   *)
(* front replaced and nothing else, whatever the peer sends and however    *)
(* its reads are sized and cancelled (impl/icy_stream.hpp:92-144).         *)
THEOREM IcyKeepsOrder ==
  ASSUME Layer!IcyStreamAssumption
  PROVE  Layer!IcySpec => []Layer!IcyInOrder
<1>1. ASSUME IcyInv PROVE Layer!IcyInOrder
  <2>1. PICK a \in Seq(Text) : a = icy_all
    BY <1>1 DEF IcyInv, IcyType
  <2>2. PICK r \in Nat : r = icy_read /\ r <= Len(a)
    BY <1>1, <2>1 DEF IcyInv, IcyType
  <2>3. PICK x \in Seq(Text) : x = SubSeq(a, r + 1, Len(a))
    <3>1. SubSeq(a, r + 1, Len(a)) \in Seq(Text)
      BY <2>2
    <3> QED BY <3>1
  <2>4. SubSeq(a, 1, r) \o x = a
    <3>1. 1 \in 1 .. Len(a) + 1 /\ r \in 1 - 1 .. Len(a) /\ Len(a) \in r .. Len(a)
      BY <2>2
    <3>2. SubSeq(a, 1, r) \o x = SubSeq(a, 1, Len(a))
      BY <2>3, <3>1, CutText
    <3> QED BY <3>2, SubSeqFull
  <2>5. CASE detect_
    BY <1>1, <2>1, <2>2, <2>3, <2>4, <2>5 DEF IcyInv, Keeping, Layer!IcyInOrder
  <2>6. CASE ~detect_ /\ Passed
    <3>0. PICK m \in 1 .. 3 : m <= r /\ ~IsIcy(m)
      BY <2>2, <2>6 DEF Passed
    <3>1. PICK n \in 1 .. 3 : n <= Len(a) /\ \E j \in 1 .. n : a[j] # Layer!ICY[j]
      BY <2>1, <2>2, <3>0 DEF IsIcy
    <3>2. Len(a) >= 3 => SubSeq(a, 1, 3) # Layer!ICY
      <4> SUFFICES ASSUME Len(a) >= 3, SubSeq(a, 1, 3) = Layer!ICY PROVE FALSE
        OBVIOUS
      <4>1. \A j \in 1 .. 3 : SubSeq(a, 1, 3)[j] = a[j]
        OBVIOUS
      <4> QED BY <3>1, <4>1
    <3>3. Layer!Expected = a
      BY <2>1, <3>2 DEF Layer!Expected
    <3> QED BY <2>1, <2>2, <2>3, <2>4, <2>6, <3>3 DEF Passed, Layer!IcyInOrder
  <2>7. CASE ~detect_ /\ Replaced
    <3>1. r >= 3 /\ \A j \in 1 .. 3 : a[j] = Layer!ICY[j]
      BY <2>1, <2>2, <2>7 DEF Replaced, IsIcy
    <3>2. PICK f \in Seq(Text) : f = SubSeq(a, 1, 3)
      <4>1. SubSeq(a, 1, 3) \in Seq(Text)
        BY <2>2, <3>1
      <4> QED BY <4>1
    <3>3. Len(f) = 3 /\ \A j \in 1 .. 3 : f[j] = a[j]
      BY <2>2, <3>1, <3>2, PartOfText
    <3>4. PICK i \in Seq(Text) : i = Layer!ICY /\ Len(i) = 3
      BY TextOfIcy
    <3>5. \A j \in 1 .. Len(f) : f[j] = i[j]
      BY <3>1, <3>3, <3>4
    <3>6. f = i
      BY <3>3, <3>4, <3>5, SeqEqual
    <3>7. Layer!Expected = Layer!version \o SubSeq(a, 4, Len(a))
      BY <2>1, <2>2, <3>1, <3>2, <3>4, <3>6 DEF Layer!Expected
    <3>8. 4 \in 1 .. Len(a) + 1 /\ r \in 4 - 1 .. Len(a) /\ Len(a) \in r .. Len(a)
      BY <2>2, <3>1
    <3>9. PICK y \in Seq(Text) : y = SubSeq(a, 4, r) /\ y \o x = SubSeq(a, 4, Len(a))
      BY <2>3, <3>8, CutText
    <3>10. PICK v \in Seq(Text) : v = Layer!version
      BY TextOfIcy
    <3>11. (v \o y) \o x = v \o (y \o x)
      BY RegroupsText, SMTT(40)
    <3>12. icy_got \o buf_ = v \o y
      BY <2>1, <2>2, <2>7, <3>9, <3>10 DEF Replaced
    <3> QED BY <2>1, <2>2, <2>3, <2>7, <3>7, <3>9, <3>10, <3>11, <3>12 DEF Layer!IcyInOrder
  <2> QED BY <1>1, <2>5, <2>6, <2>7 DEF IcyInv, IcyType
<1> QED BY AlwaysIcyInv, <1>1, PTL

------------------------------------------------------------------------------
(* detect_ssl and read: the bytes of the buffer are the first the client   *)
(* sent, and what is told is what they say.                                *)
Hello == [handshake : BOOLEAN, length : BOOLEAN, type : BOOLEAN, size : BOOLEAN]

DetectType ==
  /\ hello \in Hello /\ detect_sent \in Nat /\ detect_size \in Nat /\ before \in Nat
  /\ total \in Nat /\ asked \in Nat /\ error \in {"ok", "eof"}
  /\ detect_call \in {"none", "detect", "read"} /\ detect_kind \in {"sync", "async"}
  /\ detect_pc \in {"idle", "call", "reading", "continue", "posted", "done"}
  /\ result \in {"none", "true", "false", "indeterminate"}

(* The operation ends, or is to end, with this.                            *)
Told ==
  /\ detect_call = "detect" /\ error = "ok" =>
       result = Layer!is_tls_client_hello(detect_size) /\ result # "indeterminate"
  /\ detect_call = "detect" /\ error # "ok" => result = "false"
  /\ detect_call = "read" /\ error = "ok" =>
       total >= AtLeast \/ detect_size = detect_max_size

DetectInv ==
  /\ DetectType
  /\ detect_size <= detect_sent /\ detect_size <= detect_max_size
  /\ detect_size = before + total
  /\ detect_pc = "reading" =>
       /\ error = "ok" /\ asked <= detect_max_size - detect_size
       /\ detect_call = "detect" => Layer!is_tls_client_hello(detect_size) = "indeterminate"
  /\ detect_pc \in {"posted", "done"} => Told
  /\ detect_pc # "idle" => detect_call # "none"

LEMMA InitialDetectInv ==
  Layer!DetectSslAssumption /\ Layer!DetectInit => DetectInv
BY DEF Layer!DetectSslAssumption, Layer!DetectInit, DetectInv, DetectType, Hello, Told, Layer!Least

LEMMA VerdictKinds ==
  ASSUME NEW n \in Nat
  PROVE  Layer!is_tls_client_hello(n) \in {"true", "false", "indeterminate"}
BY DEF Layer!is_tls_client_hello

LEMMA RoomToAsk ==
  ASSUME Layer!DetectSslAssumption, DetectInv, NEW n \in Nat
  PROVE  Layer!detect_read_size(n) \in Nat /\ Layer!detect_read_size(n) <= detect_max_size - detect_size
BY DEF Layer!DetectSslAssumption, DetectInv, DetectType, Layer!detect_read_size, Layer!Least

LEMMA DetectKeeps ==
  ASSUME Layer!DetectSslAssumption, DetectInv, Layer!detect
  PROVE  DetectInv'
<1>1. /\ detect_call = "detect" /\ detect_pc \in {"call", "continue"}
      /\ hello' = hello /\ detect_sent' = detect_sent /\ detect_size' = detect_size /\ before' = before
      /\ detect_call' = detect_call /\ detect_kind' = detect_kind /\ total' = total /\ error' = error
  BY DEF Layer!detect, Layer!detect_peer, Layer!Finish
<1>2. Layer!is_tls_client_hello(detect_size)' = Layer!is_tls_client_hello(detect_size)
  BY <1>1 DEF Layer!is_tls_client_hello
<1>3. CASE error = "ok" /\ Layer!is_tls_client_hello(detect_size) = "indeterminate"
  <2>1. detect_pc' = "reading" /\ asked' = Layer!detect_read_size(MaxRead) /\ result' = result
    BY <1>3 DEF Layer!detect
  <2>2. asked' \in Nat /\ asked' <= detect_max_size - detect_size
    BY <2>1, RoomToAsk DEF Layer!DetectSslAssumption
  <2> QED BY <1>1, <1>2, <1>3, <2>1, <2>2 DEF DetectInv, DetectType, Told
<1>4. CASE ~(error = "ok" /\ Layer!is_tls_client_hello(detect_size) = "indeterminate")
  <2>1. /\ result' = (IF error = "ok" THEN Layer!is_tls_client_hello(detect_size) ELSE "false")
        /\ detect_pc' \in {"posted", "done"} /\ asked' = asked
    BY <1>4 DEF Layer!detect, Layer!Finish
  <2>2. Layer!is_tls_client_hello(detect_size) \in {"true", "false", "indeterminate"}
    BY VerdictKinds DEF DetectInv, DetectType
  <2> QED BY <1>1, <1>2, <1>4, <2>1, <2>2 DEF DetectInv, DetectType, Told
<1> QED BY <1>3, <1>4

LEMMA ReadKeeps ==
  ASSUME Layer!DetectSslAssumption, DetectInv, Layer!detect_read
  PROVE  DetectInv'
<1>1. /\ detect_call = "read" /\ detect_pc \in {"call", "continue"}
      /\ hello' = hello /\ detect_sent' = detect_sent /\ detect_size' = detect_size /\ before' = before
      /\ detect_call' = detect_call /\ detect_kind' = detect_kind /\ total' = total /\ error' = error
      /\ result' = result
  BY DEF Layer!detect_read, Layer!detect_peer
<1>2. Layer!cond \in Nat /\ (error # "ok" => Layer!cond = 0) /\ (error = "ok" /\ Layer!cond = 0 => total >= AtLeast)
  BY DEF Layer!cond, Layer!Least, Layer!DetectSslAssumption, DetectInv, DetectType
<1>3. Layer!detect_read_size(Layer!cond) \in Nat /\ Layer!detect_read_size(Layer!cond) <= detect_max_size - detect_size
  BY <1>2, RoomToAsk
<1>4. Layer!detect_read_size(Layer!cond) = 0 => Layer!cond = 0 \/ detect_max_size = detect_size
  BY <1>2 DEF Layer!detect_read_size, Layer!Least, Layer!DetectSslAssumption, DetectInv, DetectType
<1>5. CASE Layer!detect_read_size(Layer!cond) > 0
  <2>1. detect_pc' = "reading" /\ asked' = Layer!detect_read_size(Layer!cond)
    BY <1>5 DEF Layer!detect_read
  <2>2. error = "ok"
    BY <1>2, <1>3, <1>5 DEF Layer!detect_read_size, Layer!Least, Layer!DetectSslAssumption, DetectInv, DetectType
  <2> QED BY <1>1, <1>3, <2>1, <2>2 DEF DetectInv, DetectType, Told
<1>6. CASE ~(Layer!detect_read_size(Layer!cond) > 0)
  <2>1. detect_pc' \in {"posted", "done"} /\ asked' = asked
    BY <1>6 DEF Layer!detect_read, Layer!Finish
  <2>2. error = "ok" => total >= AtLeast \/ detect_size = detect_max_size
    BY <1>2, <1>3, <1>4, <1>6
  <2> QED BY <1>1, <2>1, <2>2 DEF DetectInv, DetectType, Told
<1> QED BY <1>5, <1>6

LEMMA DeliveredKeeps ==
  ASSUME Layer!DetectSslAssumption, DetectInv, Layer!Delivered \/ Layer!Eof
  PROVE  DetectInv'
<1>1. /\ detect_pc = "reading" /\ detect_pc' = "continue" /\ error' \in {"ok", "eof"}
      /\ hello' = hello /\ detect_sent' = detect_sent /\ before' = before /\ asked' = asked
      /\ detect_call' = detect_call /\ detect_kind' = detect_kind /\ result' = result
  BY DEF Layer!Delivered, Layer!Eof, Layer!detect_peer, DetectInv, DetectType
<1>2. \/ detect_size' = detect_size /\ total' = total
      \/ \E k \in 1 .. Layer!Least(asked, Layer!available) : detect_size' = detect_size + k /\ total' = total + k
  BY DEF Layer!Delivered, Layer!Eof
<1>3. /\ detect_size' \in Nat /\ total' \in Nat /\ detect_size' = before + total'
      /\ detect_size' <= detect_sent /\ detect_size' <= detect_max_size
  BY <1>1, <1>2 DEF DetectInv, DetectType, Layer!Least, Layer!available, Layer!DetectSslAssumption
<1> QED BY <1>1, <1>3 DEF DetectInv, DetectType, Told

LEMMA OtherDetectKeeps ==
  ASSUME Layer!DetectSslAssumption, DetectInv,
         \/ Layer!DetectPeerSends \/ Layer!DetectPeerCloses \/ Layer!Start \/ Layer!DetectPosted
         \/ UNCHANGED Layer!detect_vars
  PROVE  DetectInv'
<1>1. /\ hello' = hello /\ detect_sent' \in Nat /\ detect_sent' >= detect_sent /\ detect_size' = detect_size
      /\ before' = before /\ asked' = asked /\ total' = total /\ error' = error /\ result' = result
  BY DEF DetectInv, DetectType, Layer!DetectPeerSends, Layer!DetectPeerCloses, Layer!Start, Layer!DetectPosted,
         Layer!detect_vars, Layer!detect_peer
<1>2. \/ detect_pc' = detect_pc /\ detect_call' = detect_call /\ detect_kind' = detect_kind
      \/ detect_pc' = "call" /\ detect_call' \in {"detect", "read"} /\ detect_kind' \in {"sync", "async"}
      \/ detect_pc = "posted" /\ detect_pc' = "done" /\ detect_call' = detect_call /\ detect_kind' = detect_kind
  BY DEF Layer!DetectSslAssumption, Layer!DetectPeerSends, Layer!DetectPeerCloses, Layer!Start, Layer!DetectPosted,
         Layer!detect_vars, Layer!detect_peer
<1>3. Layer!is_tls_client_hello(detect_size)' = Layer!is_tls_client_hello(detect_size)
  BY <1>1 DEF Layer!is_tls_client_hello
<1>4. DetectType'
  BY <1>1, <1>2 DEF DetectInv, DetectType
<1>5. detect_pc' \in {"posted", "done"} => Told'
  BY <1>1, <1>2, <1>3 DEF DetectInv, Told
<1>6. detect_size' <= detect_sent'
  BY <1>1 DEF DetectInv, DetectType
<1> QED BY <1>1, <1>2, <1>3, <1>4, <1>5, <1>6 DEF DetectInv

LEMMA AlwaysDetectInv ==
  ASSUME Layer!DetectSslAssumption
  PROVE  Layer!DetectSpec => []DetectInv
<1>1. DetectInv /\ [Layer!DetectNext]_(Layer!detect_vars) => DetectInv'
  BY DetectKeeps, ReadKeeps, DeliveredKeeps, OtherDetectKeeps DEF Layer!DetectNext, Layer!Operation
<1> QED BY InitialDetectInv, <1>1, PTL DEF Layer!DetectSpec

(* A verdict of detect_ssl is that of the whole hello, however the bytes   *)
(* arrive, for a buffer of any maximum (detect_ssl.hpp:128-168).           *)
THEOREM VerdictIsFinal ==
  ASSUME Layer!DetectSslAssumption
  PROVE  Layer!DetectSpec => []Layer!VerdictStands
<1>1. DetectInv => Layer!VerdictStands
  BY DEF DetectInv, DetectType, Hello, Told, Layer!VerdictStands, Layer!Decided, Layer!is_tls_client_hello
<1> QED BY AlwaysDetectInv, <1>1, PTL

(* It waits for bytes only while those it has can still be a hello         *)
(* (detect_ssl.hpp:132-153).                                               *)
THEOREM WaitsForTheVerdict ==
  ASSUME Layer!DetectSslAssumption
  PROVE  Layer!DetectSpec => []Layer!WaitsOnlyUndecided
<1>1. DetectInv => Layer!WaitsOnlyUndecided
  BY DEF DetectInv, DetectType, Hello, Layer!WaitsOnlyUndecided, Layer!is_tls_client_hello
<1> QED BY AlwaysDetectInv, <1>1, PTL

(* A read that ends without an error has met its condition or has filled   *)
(* the buffer (detail/impl/read.hpp:80-101, 200-210).                      *)
THEOREM ReadMeetsCondition ==
  ASSUME Layer!DetectSslAssumption
  PROVE  Layer!DetectSpec => []Layer!ReadsEnough
<1>1. DetectInv => Layer!ReadsEnough
  BY DEF DetectInv, DetectType, Told, Layer!ReadsEnough
<1> QED BY AlwaysDetectInv, <1>1, PTL

-----------------------------------------------------------------------------
(***************************************************************************)
(* flat_stream, for buffers of any number and size.  What is written comes *)
(* from sequences of sequences, so the lemmas are about FlattenSeq: it is  *)
(* a recursive function, and what holds of it is shown for the least       *)
(* number of sequences that could be otherwise.                            *)
(***************************************************************************)
(* A set of numbers has a least one: what induction rests on here.         *)
LEMMA LeastNumber ==
  ASSUME NEW N, N \subseteq Nat, N # {}
  PROVE  \E n \in N : \A m \in N : n <= m
<1>1. IsWellFoundedOn(OpToRel(<, Nat), Nat)
  BY NatLessThanWellFounded
<1>2. PICK n \in N : \A m \in N : ~(<<m, n>> \in OpToRel(<, Nat))
  BY <1>1, WFMin
<1>3. \A m \in N : ~(m < n)
  BY <1>2 DEF OpToRel
<1> QED BY <1>3

(* The first m of the sequences of b, appended to one another, are f[m].   *)
Appends(f, b, m) ==
  \A i \in 1 .. m : f[i] = IF i = 1 THEN b[i] ELSE f[i - 1] \o b[i]

Appended(b, m, f) == f = [i \in 1 .. m |-> IF i = 1 THEN b[i] ELSE f[i - 1] \o b[i]]
Appendable(b, m)  == \E f : Appended(b, m, f)

LEMMA NoneAppended ==
  ASSUME NEW b
  PROVE  Appendable(b, 0)
<1> DEFINE f == [i \in 1 .. 0 |-> b[i]]
<1>1. f = [i \in 1 .. 0 |-> IF i = 1 THEN b[i] ELSE f[i - 1] \o b[i]]
  OBVIOUS
<1> QED BY <1>1 DEF Appendable, Appended

LEMMA OneMoreAppended ==
  ASSUME NEW b, NEW m \in Nat \ {0}, Appendable(b, m - 1)
  PROVE  Appendable(b, m)
<1>1. PICK f : Appended(b, m - 1, f)
  BY DEF Appendable
<1> DEFINE g == [i \in 1 .. m |-> IF i = m THEN IF m = 1 THEN b[m] ELSE f[m - 1] \o b[m] ELSE f[i]]
<1>2. \A i \in 1 .. m - 1 : f[i] = IF i = 1 THEN b[i] ELSE f[i - 1] \o b[i]
  <2>1. f = [i \in 1 .. m - 1 |-> IF i = 1 THEN b[i] ELSE f[i - 1] \o b[i]]
    BY <1>1 DEF Appended
  <2> QED BY <2>1
<1>3. \A i \in 1 .. m - 1 : g[i] = f[i]
  OBVIOUS
<1>4. \A i \in 1 .. m : g[i] = IF i = 1 THEN b[i] ELSE g[i - 1] \o b[i]
  <2> SUFFICES ASSUME NEW i \in 1 .. m PROVE g[i] = IF i = 1 THEN b[i] ELSE g[i - 1] \o b[i]
    OBVIOUS
  <2>1. CASE i = m /\ m # 1
    <3>1. m - 1 \in 1 .. m - 1
      BY <2>1
    <3>2. g[m - 1] = f[m - 1]
      BY <1>3, <3>1
    <3> QED BY <2>1, <3>2
  <2>2. CASE i = m /\ m = 1
    BY <2>2
  <2>3. CASE i # m /\ i # 1
    <3>1. i \in 1 .. m - 1 /\ i - 1 \in 1 .. m - 1
      BY <2>3
    <3>2. g[i] = f[i] /\ g[i - 1] = f[i - 1] /\ f[i] = f[i - 1] \o b[i]
      BY <1>2, <1>3, <2>3, <3>1
    <3> QED BY <2>3, <3>2
  <2>4. CASE i # m /\ i = 1
    <3>1. i \in 1 .. m - 1
      BY <2>4
    <3>2. g[i] = f[i] /\ f[i] = b[i]
      BY <1>2, <1>3, <2>4, <3>1
    <3> QED BY <2>4, <3>2
  <2> QED BY <2>1, <2>2, <2>3, <2>4
<1>5. g = [i \in 1 .. m |-> g[i]]
  OBVIOUS
<1> HIDE DEF g
<1>6. Appended(b, m, g)
  BY <1>4, <1>5 DEF Appended
<1> QED BY <1>6 DEF Appendable

LEMMA AppendsExists ==
  ASSUME NEW b, NEW n \in Nat
  PROVE  Appendable(b, n)
<1> DEFINE N == {m \in Nat : ~Appendable(b, m)}
<1>1. N = {}
  <2> SUFFICES ASSUME N # {} PROVE FALSE
    OBVIOUS
  <2>1. PICK m \in N : \A k \in N : m <= k
    <3>1. N \subseteq Nat
      OBVIOUS
    <3> HIDE DEF N
    <3> QED BY <3>1, LeastNumber
  <2>2. m \in Nat /\ ~Appendable(b, m)
    OBVIOUS
  <2>3. m # 0
    BY <2>2, NoneAppended
  <2>4. m - 1 \in Nat /\ ~(m <= m - 1)
    BY <2>2, <2>3
  <2>5. Appendable(b, m - 1)
    BY <2>1, <2>4
  <2> QED BY <2>2, <2>3, <2>5, OneMoreAppended
<1> QED BY <1>1

LEMMA FlattenAppends ==
  ASSUME NEW S, NEW b \in Seq(Seq(S)), Len(b) # 0
  PROVE  \E f \in [1 .. Len(b) -> Seq(S)] : Appends(f, b, Len(b)) /\ FlattenSeq(b) = f[Len(b)]
<1> DEFINE n == Len(b)
           f == CHOOSE f : f = [i \in 1 .. n |-> IF i = 1 THEN b[i] ELSE f[i - 1] \o b[i]]
<1>1. n \in Nat /\ \A i \in 1 .. n : b[i] \in Seq(S)
  OBVIOUS
<1>2. f = [i \in 1 .. n |-> IF i = 1 THEN b[i] ELSE f[i - 1] \o b[i]]
  <2>1. \E g : g = [i \in 1 .. n |-> IF i = 1 THEN b[i] ELSE g[i - 1] \o b[i]]
    BY <1>1, AppendsExists DEF Appendable, Appended
  <2> QED BY <2>1
<1>3. FlattenSeq(b) = f[n]
  BY DEF FlattenSeq
<1> HIDE DEF f, n
<1>4. Appends(f, b, n)
  BY <1>2 DEF Appends
<1> DEFINE N == {i \in 1 .. n : f[i] \notin Seq(S)}
<1>5. N = {}
  <2> SUFFICES ASSUME N # {} PROVE FALSE
    OBVIOUS
  <2>1. PICK m \in N : \A k \in N : m <= k
    <3>1. N \subseteq Nat
      BY <1>1
    <3> HIDE DEF N
    <3> QED BY <3>1, LeastNumber
  <2>2. m \in 1 .. n /\ f[m] \notin Seq(S)
    OBVIOUS
  <2>3. m # 1
    BY <1>1, <1>4, <2>2 DEF Appends
  <2>4. m - 1 \in 1 .. n /\ ~(m <= m - 1)
    BY <1>1, <2>2, <2>3
  <2>5. f[m - 1] \in Seq(S)
    BY <2>1, <2>4
  <2>6. f[m] = f[m - 1] \o b[m] /\ b[m] \in Seq(S)
    BY <1>1, <1>4, <2>2, <2>3 DEF Appends
  <2> QED BY <2>2, <2>5, <2>6
<1>6. f \in [1 .. n -> Seq(S)]
  <2>1. f = [i \in 1 .. n |-> f[i]]
    BY <1>2
  <2> QED BY <1>5, <2>1
<1> QED BY <1>3, <1>4, <1>6 DEF n

(* The bytes of b's first n sequences.                                     *)
First(b, n) == FlattenSeq(SubSeq(b, 1, n))

LEMMA FlattenNone == FlattenSeq(<<>>) = <<>>
  BY DEF FlattenSeq

LEMMA FlattenTyped ==
  ASSUME NEW S, NEW b \in Seq(Seq(S))
  PROVE  FlattenSeq(b) \in Seq(S)
<1>1. CASE Len(b) = 0
  <2>1. b = <<>> /\ <<>> \in Seq(S)
    BY <1>1
  <2> QED BY <2>1, FlattenNone
<1>2. CASE Len(b) # 0
  <2>1. PICK f \in [1 .. Len(b) -> Seq(S)] : FlattenSeq(b) = f[Len(b)]
    BY <1>2, FlattenAppends
  <2>2. Len(b) \in 1 .. Len(b)
    BY <1>2
  <2> QED BY <2>1, <2>2
<1> QED BY <1>1, <1>2

(* Two ways to append the same sequences have the same result.             *)
LEMMA AppendsAlike ==
  ASSUME NEW f, NEW g, NEW b, NEW c, NEW n \in Nat, Appends(f, b, n), Appends(g, c, n),
         \A k \in 1 .. n : b[k] = c[k], n # 0
  PROVE  f[n] = g[n]
<1> DEFINE N == {k \in 1 .. n : f[k] # g[k]}
<1>1. N = {}
  <2> SUFFICES ASSUME N # {} PROVE FALSE
    OBVIOUS
  <2>1. PICK m \in N : \A k \in N : m <= k
    <3>1. N \subseteq Nat
      OBVIOUS
    <3> HIDE DEF N
    <3> QED BY <3>1, LeastNumber
  <2>2. m \in 1 .. n /\ f[m] # g[m]
    OBVIOUS
  <2>3. m # 1
    BY <2>2 DEF Appends
  <2>4. m - 1 \in 1 .. n /\ ~(m <= m - 1)
    BY <2>2, <2>3
  <2>5. f[m - 1] = g[m - 1]
    BY <2>1, <2>4
  <2>6. f[m] = f[m - 1] \o b[m] /\ g[m] = g[m - 1] \o c[m]
    BY <2>2, <2>3 DEF Appends
  <2>7. b[m] = c[m]
    BY <2>2
  <2> QED BY <2>2, <2>5, <2>6, <2>7
<1>2. n \in 1 .. n
  OBVIOUS
<1> QED BY <1>1, <1>2

LEMMA FlattenOne ==
  ASSUME NEW S, NEW s \in Seq(S)
  PROVE  FlattenSeq(<<s>>) = s
<1>1. <<s>> \in Seq(Seq(S)) /\ Len(<<s>>) = 1 /\ <<s>>[1] = s
  OBVIOUS
<1>2. PICK b \in Seq(Seq(S)) : b = <<s>>
  BY <1>1
<1>3. Len(b) = 1 /\ b[1] = s
  BY <1>2
<1>4. PICK f \in [1 .. Len(b) -> Seq(S)] : Appends(f, b, Len(b)) /\ FlattenSeq(b) = f[Len(b)]
  <2>1. Len(b) # 0
    BY <1>3
  <2> QED BY <2>1, FlattenAppends
<1>5. f[1] = b[1]
  BY <1>3, <1>4 DEF Appends
<1> QED BY <1>2, <1>3, <1>4, <1>5

(* Sequences, regrouped.                                                   *)
LEMMA Regrouped ==
  ASSUME NEW S, NEW s \in Seq(S), NEW t \in Seq(S), NEW u \in Seq(S)
  PROVE  (s \o t) \o u = s \o (t \o u) /\ s \o t \in Seq(S) /\ t \o u \in Seq(S)
<1>1. (s \o t) \o u = s \o (t \o u)
  BY ConcatAssociative
<1> QED BY <1>1

LEMMA ConcatMore ==
  ASSUME NEW S, NEW s \in Seq(S), NEW t \in Seq(S), NEW e \in S
  PROVE  s \o Append(t, e) = Append(s \o t, e) /\ s \o t \in Seq(S)
  OBVIOUS

LEMMA FrontMore ==
  ASSUME NEW S, NEW s \in Seq(S), NEW m \in 1 .. Len(s)
  PROVE  SubSeq(s, 1, m) = Append(SubSeq(s, 1, m - 1), s[m])
  OBVIOUS

LEMMA FlattenOneMore ==
  ASSUME NEW S, NEW b \in Seq(Seq(S)), NEW s \in Seq(S)
  PROVE  FlattenSeq(Append(b, s)) = FlattenSeq(b) \o s
<1>1. PICK c \in Seq(Seq(S)) : c = Append(b, s)
  <2>1. Append(b, s) \in Seq(Seq(S))
    OBVIOUS
  <2> QED BY <2>1
<1>2. Len(c) = Len(b) + 1 /\ c[Len(c)] = s /\ \A k \in 1 .. Len(b) : c[k] = b[k]
  BY <1>1
<1>3. PICK g \in [1 .. Len(c) -> Seq(S)] : Appends(g, c, Len(c)) /\ FlattenSeq(c) = g[Len(c)]
  BY <1>2, FlattenAppends
<1>4. CASE Len(b) = 0
  <2>1. b = <<>>
    BY <1>4
  <2>2. FlattenSeq(c) = s
    BY <1>2, <1>3, <1>4 DEF Appends
  <2> QED BY <1>1, <2>1, <2>2, FlattenNone, SMTT(40)
<1>5. CASE Len(b) # 0
  <2>1. PICK n \in Nat : n = Len(b)
    OBVIOUS
  <2>2. PICK f \in [1 .. Len(b) -> Seq(S)] : Appends(f, b, Len(b)) /\ FlattenSeq(b) = f[Len(b)]
    BY <1>5, FlattenAppends
  <2>3. Appends(g, c, n)
    <3>1. \A k \in 1 .. n : k \in 1 .. Len(c)
      BY <1>2, <2>1
    <3> QED BY <1>3, <3>1 DEF Appends
  <2>4. f[n] = g[n]
    BY <1>2, <1>5, <2>1, <2>2, <2>3, AppendsAlike
  <2>5. g[n + 1] = g[n] \o c[n + 1]
    <3>1. PICK k \in 1 .. Len(c) : k = n + 1
      BY <1>2, <2>1
    <3>2. k # 1 /\ k - 1 = n
      BY <1>5, <2>1, <3>1
    <3>3. g[k] = g[k - 1] \o c[k]
      BY <1>3, <3>2 DEF Appends
    <3> QED BY <3>1, <3>2, <3>3
  <2> QED BY <1>1, <1>2, <1>3, <2>1, <2>2, <2>4, <2>5
<1> QED BY <1>4, <1>5

LEMMA FlattenBoth ==
  ASSUME NEW S, NEW b \in Seq(Seq(S)), NEW c \in Seq(Seq(S))
  PROVE  FlattenSeq(b \o c) = FlattenSeq(b) \o FlattenSeq(c)
<1> DEFINE Whole(k) == FlattenSeq(b \o SubSeq(c, 1, k)) = FlattenSeq(b) \o FlattenSeq(SubSeq(c, 1, k))
           N == {k \in 0 .. Len(c) : ~Whole(k)}
<1>1. N = {}
  <2> SUFFICES ASSUME N # {} PROVE FALSE
    OBVIOUS
  <2>1. PICK m \in N : \A k \in N : m <= k
    <3>1. N \subseteq Nat
      OBVIOUS
    <3> HIDE DEF N
    <3> QED BY <3>1, LeastNumber
  <2>2. m \in 0 .. Len(c) /\ ~Whole(m)
    OBVIOUS
  <2>3. m # 0
    <3>1. SubSeq(c, 1, 0) = <<>> /\ b \o <<>> = b
      OBVIOUS
    <3>2. PICK s \in Seq(S) : s = FlattenSeq(b)
      BY FlattenTyped
    <3>3. s \o <<>> = s
      OBVIOUS
    <3> QED BY <2>2, <3>1, <3>2, <3>3, FlattenNone
  <2>4. m - 1 \in 0 .. Len(c) /\ ~(m <= m - 1)
    BY <2>2, <2>3
  <2>5. Whole(m - 1)
    BY <2>1, <2>4
  <2>6. PICK d \in Seq(Seq(S)) : d = SubSeq(c, 1, m - 1)
    <3>1. SubSeq(c, 1, m - 1) \in Seq(Seq(S))
      BY <2>4
    <3> QED BY <3>1
  <2>7. PICK s \in Seq(S) : s = c[m]
    BY <2>2, <2>3, SMTT(40)
  <2>8. SubSeq(c, 1, m) = Append(d, s)
    <3>1. m \in 1 .. Len(c)
      BY <2>2, <2>3
    <3> HIDE DEF N, Whole
    <3> QED BY <2>6, <2>7, <3>1, FrontMore
  <2>9. b \o Append(d, s) = Append(b \o d, s) /\ b \o d \in Seq(Seq(S))
    <3> HIDE DEF N, Whole
    <3> QED BY ConcatMore
  <2>10. PICK x \in Seq(S), y \in Seq(S) : x = FlattenSeq(b) /\ y = FlattenSeq(d)
    BY FlattenTyped
  <2>11. FlattenSeq(Append(b \o d, s)) = FlattenSeq(b \o d) \o s
    BY <2>9, FlattenOneMore
  <2>12. FlattenSeq(Append(d, s)) = y \o s
    BY <2>10, FlattenOneMore
  <2>13. FlattenSeq(b \o d) = x \o y
    BY <2>5, <2>6, <2>10
  <2>14. (x \o y) \o s = x \o (y \o s)
    <3> HIDE DEF N, Whole
    <3> QED BY Regrouped, SMTT(40)
  <2> HIDE DEF N
  <2> QED BY <2>2, <2>8, <2>9, <2>10, <2>11, <2>12, <2>13, <2>14
<1>2. Len(c) \in 0 .. Len(c) /\ SubSeq(c, 1, Len(c)) = c
  BY SubSeqFull
<1> QED BY <1>1, <1>2

(* The bytes up to the n-th sequence and the rest of them.                 *)
LEMMA FlattenApart ==
  ASSUME NEW S, NEW b \in Seq(Seq(S)), NEW n \in 0 .. Len(b)
  PROVE  /\ First(b, n) \in Seq(S) /\ FlattenSeq(SubSeq(b, n + 1, Len(b))) \in Seq(S)
         /\ FlattenSeq(b) = First(b, n) \o FlattenSeq(SubSeq(b, n + 1, Len(b)))
<1>1. PICK c \in Seq(Seq(S)), d \in Seq(Seq(S)) : c = SubSeq(b, 1, n) /\ d = SubSeq(b, n + 1, Len(b))
  <2>1. SubSeq(b, 1, n) \in Seq(Seq(S))
    OBVIOUS
  <2>2. SubSeq(b, n + 1, Len(b)) \in Seq(Seq(S))
    OBVIOUS
  <2> QED BY <2>1, <2>2
<1>2. c \o d = b
  <2>1. Len(b) \in n .. Len(b) /\ 1 \in 1 .. Len(b) + 1 /\ n \in 1 - 1 .. Len(b)
    OBVIOUS
  <2>2. SubSeq(b, 1, n) \o SubSeq(b, n + 1, Len(b)) = SubSeq(b, 1, Len(b))
    BY <2>1, ConcatAdjacentSubSeq
  <2> QED BY <1>1, <2>2, SubSeqFull
<1> QED BY <1>1, <1>2, FlattenTyped, FlattenBoth DEF First

LEMMA FirstGrows ==
  ASSUME NEW S, NEW b \in Seq(Seq(S)), NEW n \in 0 .. Len(b), NEW m \in 0 .. n
  PROVE  /\ Len(First(b, m)) \in Nat /\ Len(First(b, n)) \in Nat
         /\ Len(First(b, m)) <= Len(First(b, n))
<1>1. PICK c \in Seq(Seq(S)) : c = SubSeq(b, 1, n)
  <2>1. SubSeq(b, 1, n) \in Seq(Seq(S))
    OBVIOUS
  <2> QED BY <2>1
<1>2. Len(c) = n /\ SubSeq(c, 1, m) = SubSeq(b, 1, m) /\ m \in 0 .. Len(c)
  BY <1>1
<1>3. PICK x \in Seq(S), y \in Seq(S) : x = First(c, m) /\ FlattenSeq(c) = x \o y
  <2>1. /\ First(c, m) \in Seq(S) /\ FlattenSeq(SubSeq(c, m + 1, Len(c))) \in Seq(S)
        /\ FlattenSeq(c) = First(c, m) \o FlattenSeq(SubSeq(c, m + 1, Len(c)))
    <3>1. m \in 0 .. Len(c)
      BY <1>2
    <3> QED BY <3>1, FlattenApart
  <2> QED BY <2>1
<1>4. Len(x) \in Nat /\ Len(x \o y) \in Nat /\ Len(x) <= Len(x \o y)
  OBVIOUS
<1>5. First(b, m) = x /\ First(b, n) = x \o y
  BY <1>1, <1>2, <1>3 DEF First
<1> QED BY <1>4, <1>5

LEMMA FirstOneMore ==
  ASSUME NEW S, NEW b \in Seq(Seq(S)), NEW n \in 1 .. Len(b)
  PROVE  First(b, n) = First(b, n - 1) \o b[n] /\ b[n] \in Seq(S)
<1>1. PICK c \in Seq(Seq(S)) : c = SubSeq(b, 1, n - 1)
  <2>1. SubSeq(b, 1, n - 1) \in Seq(Seq(S))
    OBVIOUS
  <2> QED BY <2>1
<1>2. SubSeq(b, 1, n) = Append(c, b[n]) /\ b[n] \in Seq(S)
  BY <1>1
<1> QED BY <1>1, <1>2, FlattenOneMore DEF First

LEMMA FirstNone ==
  ASSUME NEW b
  PROVE  First(b, 0) = <<>>
<1>1. SubSeq(b, 1, 0) = <<>>
  OBVIOUS
<1> QED BY <1>1, FlattenNone DEF First

(* A set of numbers from a on, with no gaps, ends where its size says.     *)
LEMMA WithoutGaps ==
  ASSUME NEW a \in Nat, NEW n \in Nat, NEW G, G \subseteq a .. n,
         \A k \in G : \A j \in a .. k : j \in G
  PROVE  Cardinality(G) \in Nat /\ G = a .. (a + Cardinality(G) - 1)
<1> DEFINE N == {k \in Nat : a + k \notin G}
<1>1. PICK m \in N : \A k \in N : m <= k
  <2>1. N \subseteq Nat
    OBVIOUS
  <2>2. n + 1 \in N
    OBVIOUS
  <2> HIDE DEF N
  <2> QED BY <2>1, <2>2, LeastNumber
<1>2. m \in Nat /\ a + m \notin G
  OBVIOUS
<1>3. \A k \in Nat : k < m => a + k \in G
  BY <1>1, <1>2
<1>4. G = a .. (a + m - 1)
  <2>1. \A j \in G : j < a + m
    BY <1>2
  <2>2. \A j \in a .. (a + m - 1) : j \in G
    <3> TAKE j \in a .. (a + m - 1)
    <3>1. j - a \in Nat /\ j - a < m /\ a + (j - a) = j
      BY <1>2
    <3> QED BY <1>3, <3>1
  <2>3. \A j \in G : j \in a .. (a + m - 1)
    <3> TAKE j \in G
    <3>1. j \in Nat /\ a <= j /\ j < a + m
      BY <2>1
    <3> QED BY <1>2, <3>1
  <2> HIDE DEF N
  <2> QED BY <2>2, <2>3
<1>5. Cardinality(a .. (a + m - 1)) = m
  <2>1. a + m - 1 \in Int /\ a \in Int
    BY <1>2
  <2> QED BY <1>2, <2>1, FS_Interval
<1> QED BY <1>2, <1>4, <1>5

(* The operators of the community modules are the same in both modules.    *)
LEMMA SameBytes ==
  ASSUME NEW b
  PROVE  Layer!Bytes(b) = FlattenSeq(b)
BY DEF Layer!Bytes, Layer!FlattenSeq, FlattenSeq

LEMMA SameCardinality ==
  ASSUME NEW G
  PROVE  Layer!Cardinality(G) = Cardinality(G)
BY DEF Layer!Cardinality, Cardinality

LEMMA SizeIs ==
  ASSUME NEW S, NEW b \in Seq(Seq(S)), NEW k \in 0 .. Len(b)
  PROVE  /\ Layer!Size(b, k) = Len(First(b, k)) /\ Layer!Size(b, k) \in Nat
         /\ \A j \in 0 .. k : Layer!Size(b, j) \in Nat /\ Layer!Size(b, j) <= Layer!Size(b, k)
<1>1. \A j \in 0 .. Len(b) : Layer!Size(b, j) = Len(First(b, j))
  BY SameBytes DEF Layer!Size, First
<1>2. \A j \in 0 .. k :
        /\ Len(First(b, j)) \in Nat /\ Len(First(b, k)) \in Nat
        /\ Len(First(b, j)) <= Len(First(b, k))
  BY FirstGrows
<1>3. \A j \in 0 .. k : j \in 0 .. Len(b)
  OBVIOUS
<1>4. k \in 0 .. k
  OBVIOUS
<1> QED BY <1>1, <1>2, <1>3, <1>4

(* The first bytes of p, then q, are p.                                    *)
LEMMA FrontIs ==
  ASSUME NEW S, NEW p \in Seq(S), NEW q \in Seq(S)
  PROVE  SubSeq(p \o q, 1, Len(p)) = p
  OBVIOUS

LEMMA FirstReplaced ==
  ASSUME NEW S, NEW s \in Seq(S), s # <<>>, NEW e \in S
  PROVE  [s EXCEPT ![1] = e] = <<e>> \o SubSeq(s, 2, Len(s))
<1>1. Len(s) \in Nat \ {0}
  OBVIOUS
<1>2. PICK t \in Seq(S) : t = [s EXCEPT ![1] = e]
  <2>1. [s EXCEPT ![1] = e] \in Seq(S)
    OBVIOUS
  <2> QED BY <2>1
<1>3. PICK u \in Seq(S) : u = <<e>> \o SubSeq(s, 2, Len(s))
  <2>1. <<e>> \o SubSeq(s, 2, Len(s)) \in Seq(S)
    OBVIOUS
  <2> QED BY <2>1
<1>4. Len(t) = Len(s) /\ \A j \in 1 .. Len(t) : t[j] = IF j = 1 THEN e ELSE s[j]
  BY <1>1, <1>2
<1>5. Len(u) = Len(s) /\ \A j \in 1 .. Len(u) : u[j] = IF j = 1 THEN e ELSE s[j]
  BY <1>1, <1>3
<1>6. t = u
  BY <1>4, <1>5, SeqEqual
<1> QED BY <1>2, <1>3, <1>6

LEMMA Halves ==
  ASSUME NEW S, NEW s \in Seq(S), NEW m \in 0 .. Len(s)
  PROVE  SubSeq(s, 1, m) \o SubSeq(s, m + 1, Len(s)) = s
<1>1. Len(s) \in m .. Len(s) /\ 1 \in 1 .. Len(s) + 1 /\ m \in 1 - 1 .. Len(s)
  OBVIOUS
<1>2. SubSeq(s, 1, m) \o SubSeq(s, m + 1, Len(s)) = SubSeq(s, 1, Len(s))
  BY <1>1, ConcatAdjacentSubSeq
<1> QED BY <1>2, SubSeqFull

LEMMA FrontOfJoined ==
  ASSUME NEW S, NEW x \in Seq(S), NEW u \in Seq(S), NEW q \in Seq(S)
  PROVE  SubSeq((x \o u) \o q, 1, Len(x) + Len(u)) = x \o u
<1>1. PICK p \in Seq(S) : p = x \o u /\ Len(p) = Len(x) + Len(u)
  <2>1. x \o u \in Seq(S) /\ Len(x \o u) = Len(x) + Len(u)
    OBVIOUS
  <2> QED BY <2>1
<1>2. SubSeq(p \o q, 1, Len(p)) = p
  BY FrontIs
<1> QED BY <1>1, <1>2, Zenon

Splits(S, x, z) ==
  \A u, v \in Seq(S) :
    SubSeq(x \o ((u \o v) \o z), 1, Len(x) + Len(u)) \o (v \o z) = x \o ((u \o v) \o z)

LEMMA FrontAndRest ==
  ASSUME NEW S, NEW x \in Seq(S), NEW z \in Seq(S)
  PROVE  Splits(S, x, z)
<1> SUFFICES ASSUME NEW u \in Seq(S), NEW v \in Seq(S)
             PROVE  SubSeq(x \o ((u \o v) \o z), 1, Len(x) + Len(u)) \o (v \o z) = x \o ((u \o v) \o z)
  BY DEF Splits
<1>1. (u \o v) \o z = u \o (v \o z)
  BY Regrouped
<1>2. ASSUME NEW q \in Seq(S)
      PROVE  (x \o u) \o q = x \o (u \o q)
  BY Regrouped, SMTT(60)
<1>3. v \o z \in Seq(S)
  BY Regrouped
<1>4. (x \o u) \o (v \o z) = x \o (u \o (v \o z))
  BY <1>2, <1>3
<1>5. SubSeq((x \o u) \o (v \o z), 1, Len(x) + Len(u)) = x \o u
  BY <1>3, FrontOfJoined, Zenon
<1> QED BY <1>1, <1>4, <1>5, Zenon

TakesOff(S, y, m) ==
  \A x, z \in Seq(S) :
    SubSeq(x \o (y \o z), 1, Len(x) + m) \o (SubSeq(y, m + 1, Len(y)) \o z) = x \o (y \o z)

LEMMA TakenOff ==
  ASSUME NEW S, NEW y \in Seq(S), NEW m \in 0 .. Len(y)
  PROVE  TakesOff(S, y, m)
<1>1. SubSeq(y, 1, m) \in Seq(S) /\ Len(SubSeq(y, 1, m)) = m
  OBVIOUS
<1>2. SubSeq(y, m + 1, Len(y)) \in Seq(S)
  OBVIOUS
<1>3. SubSeq(y, 1, m) \o SubSeq(y, m + 1, Len(y)) = y
  BY Halves
<1> SUFFICES ASSUME NEW x \in Seq(S), NEW z \in Seq(S)
             PROVE  SubSeq(x \o (y \o z), 1, Len(x) + m) \o (SubSeq(y, m + 1, Len(y)) \o z) = x \o (y \o z)
  BY DEF TakesOff
<1>4. \A u, v \in Seq(S) : SubSeq(x \o ((u \o v) \o z), 1, Len(x) + Len(u)) \o (v \o z) = x \o ((u \o v) \o z)
  <2>1. Splits(S, x, z)
    BY FrontAndRest
  <2> QED BY <2>1, Zenon DEF Splits
<1>5. PICK u \in Seq(S) : u = SubSeq(y, 1, m)
  BY <1>1
<1>6. PICK v \in Seq(S) : v = SubSeq(y, m + 1, Len(y))
  BY <1>2
<1>7. SubSeq(x \o ((u \o v) \o z), 1, Len(x) + Len(u)) \o (v \o z) = x \o ((u \o v) \o z)
  BY <1>4, Zenon
<1>8. Len(u) = m /\ u \o v = y
  BY <1>1, <1>3, <1>5, <1>6, Zenon
<1> QED BY <1>6, <1>7, <1>8, Zenon

(* What buffers_suffix leaves are the bytes after the first n.             *)
LEMMA SuffixKeeps ==
  ASSUME NEW S, NEW b \in Seq(Seq(S)), NEW n \in 0 .. Len(FlattenSeq(b))
  PROVE  /\ Layer!Suffix(b, n) \in Seq(Seq(S))
         /\ SubSeq(FlattenSeq(b), 1, n) \o FlattenSeq(Layer!Suffix(b, n)) = FlattenSeq(b)
<1> DEFINE gone == {k \in 1 .. Len(b) : Layer!Size(b, k - 1) < n /\ Layer!Size(b, k) <= n}
<1>1. \A k \in 0 .. Len(b) : Layer!Size(b, k) = Len(First(b, k)) /\ Layer!Size(b, k) \in Nat
  BY SizeIs
<1>2. \A k \in 0 .. Len(b) : \A j \in 0 .. k : Layer!Size(b, j) <= Layer!Size(b, k)
  BY SizeIs
<1>3. n \in Nat /\ Len(b) \in Nat
  <2>1. FlattenSeq(b) \in Seq(S)
    BY FlattenTyped
  <2> QED BY <2>1
<1>4. \A k \in gone : \A j \in 1 .. k : j \in gone
  <2> TAKE k \in gone
  <2> TAKE j \in 1 .. k
  <2>1. k \in 1 .. Len(b) /\ Layer!Size(b, k - 1) < n /\ Layer!Size(b, k) <= n
    OBVIOUS
  <2>2. /\ j \in 1 .. Len(b) /\ j - 1 \in 0 .. k - 1 /\ k - 1 \in 0 .. Len(b)
        /\ j \in 0 .. k /\ k \in 0 .. Len(b) /\ j \in 0 .. Len(b) /\ j - 1 \in 0 .. Len(b)
    BY <2>1
  <2>3. Layer!Size(b, j - 1) <= Layer!Size(b, k - 1) /\ Layer!Size(b, j) <= Layer!Size(b, k)
    BY <1>2, <2>2
  <2>4. Layer!Size(b, j - 1) < n /\ Layer!Size(b, j) <= n
    <3>1. \A x, y \in Nat : (x <= y /\ y < n => x < n) /\ (x <= y /\ y <= n => x <= n)
      BY <1>3
    <3>2. /\ Layer!Size(b, j - 1) \in Nat /\ Layer!Size(b, k - 1) \in Nat
          /\ Layer!Size(b, j) \in Nat /\ Layer!Size(b, k) \in Nat
      BY <1>1, <2>2
    <3> QED BY <2>1, <2>3, <3>1, <3>2
  <2> QED BY <2>2, <2>4
<1>5. PICK top \in Nat : top = Cardinality(gone) /\ gone = 1 .. top
  <2>1. gone \subseteq 1 .. Len(b)
    OBVIOUS
  <2>2. 1 \in Nat /\ Cardinality(gone) \in Nat /\ gone = 1 .. (1 + Cardinality(gone) - 1)
    <3> HIDE DEF gone
    <3> QED BY <1>3, <1>4, <2>1, WithoutGaps
  <2> HIDE DEF gone
  <2> QED BY <2>2
<1>6. top \in 0 .. Len(b) /\ Layer!Size(b, top) <= n
  <2>1. CASE top = 0
    BY <1>1, <1>3, <2>1, FirstNone
  <2>2. CASE top # 0
    <3>1. top \in gone
      <4>1. top \in 1 .. top
        BY <2>2
      <4> HIDE DEF gone
      <4> QED BY <1>5, <4>1
    <3> QED BY <1>3, <3>1
  <2> QED BY <2>1, <2>2
<1>7. PICK left \in Seq(Seq(S)) : left = SubSeq(b, top + 1, Len(b))
  <2>1. SubSeq(b, top + 1, Len(b)) \in Seq(Seq(S))
    BY <1>6
  <2> QED BY <2>1
<1>8. Layer!Suffix(b, n) = IF left = <<>> THEN left
        ELSE [left EXCEPT ![1] = SubSeq(left[1], n - Layer!Size(b, top) + 1, Len(left[1]))]
  <2>1. Layer!Cardinality(gone) = top
    BY <1>5, SameCardinality
  <2> QED BY <1>7, <2>1 DEF Layer!Suffix
<1>9. PICK x \in Seq(S), z \in Seq(S) :
        x = First(b, top) /\ z = FlattenSeq(left) /\ FlattenSeq(b) = x \o z
  BY <1>6, <1>7, FlattenApart
<1>10. Layer!Size(b, top) = Len(x)
  BY <1>1, <1>6, <1>9
<1>11. CASE left = <<>>
  <2>1. z = <<>> /\ FlattenSeq(b) = x /\ Len(x) <= n
    BY <1>6, <1>9, <1>10, <1>11, FlattenNone
  <2>2. n = Len(x)
    BY <2>1
  <2>3. x \o <<>> = x /\ SubSeq(x, 1, Len(x)) = x
    OBVIOUS
  <2> QED BY <1>8, <1>11, <2>1, <2>2, <2>3, FlattenNone
<1>12. CASE left # <<>>
  <2>1. top + 1 \in 1 .. Len(b) /\ Len(left) = Len(b) - top /\ left[1] = b[top + 1]
    BY <1>6, <1>7, <1>12
  <2>2. PICK y \in Seq(S) : y = left[1]
    BY <2>1
  <2>3. Layer!Size(b, top + 1) = Len(x) + Len(y)
    <3>1. First(b, top + 1) = First(b, top + 1 - 1) \o b[top + 1]
      <4>1. PICK k \in 1 .. Len(b) : k = top + 1
        BY <2>1
      <4>2. First(b, k) = First(b, k - 1) \o b[k]
        BY FirstOneMore
      <4> QED BY <4>1, <4>2
    <3>2. top + 1 - 1 = top /\ top + 1 \in 0 .. Len(b)
      BY <2>1
    <3>3. First(b, top + 1) = x \o y
      BY <1>9, <2>1, <2>2, <3>1, <3>2
    <3>4. Len(x \o y) = Len(x) + Len(y)
      OBVIOUS
    <3>5. Layer!Size(b, top + 1) = Len(First(b, top + 1))
      BY <1>1, <3>2
    <3> QED BY <3>3, <3>4, <3>5
  <2>4. top + 1 \notin gone
    <3>1. top + 1 \notin 1 .. top
      OBVIOUS
    <3> HIDE DEF gone
    <3> QED BY <1>5, <3>1
  <2>5. n <= Len(x) \/ n < Len(x) + Len(y)
    <3>1. ~(Layer!Size(b, top + 1 - 1) < n /\ Layer!Size(b, top + 1) <= n)
      BY <2>1, <2>4
    <3>2. top + 1 - 1 = top
      OBVIOUS
    <3> QED BY <1>3, <1>10, <2>3, <3>1, <3>2
  <2>6. PICK m \in 0 .. Len(y) : n = Len(x) + m
    <3>1. n - Len(x) \in 0 .. Len(y) /\ n = Len(x) + (n - Len(x))
      BY <1>3, <1>6, <1>10, <2>5
    <3> QED BY <3>1
  <2>7. PICK v \in Seq(S) : v = SubSeq(y, m + 1, Len(y))
    <3>1. SubSeq(y, m + 1, Len(y)) \in Seq(S)
      OBVIOUS
    <3> QED BY <3>1
  <2>8. PICK d \in Seq(Seq(S)) : d = SubSeq(left, 2, Len(left))
    <3>1. SubSeq(left, 2, Len(left)) \in Seq(Seq(S))
      OBVIOUS
    <3> QED BY <3>1
  <2>9. left = <<y>> \o d /\ <<y>> \in Seq(Seq(S)) /\ <<v>> \in Seq(Seq(S))
    BY <1>12, <2>2, <2>8
  <2>10. Layer!Suffix(b, n) = <<v>> \o d
    <3>1. Layer!Suffix(b, n) = [left EXCEPT ![1] = v]
      <4>1. n - Layer!Size(b, top) = m
        BY <1>10, <2>6
      <4> QED BY <1>8, <1>12, <2>2, <2>7, <4>1
    <3>2. [left EXCEPT ![1] = v] = <<v>> \o d
      <4> HIDE DEF gone
      <4> QED BY <1>12, <2>8, FirstReplaced
    <3> QED BY <3>1, <3>2
  <2>11. PICK t \in Seq(S) : t = FlattenSeq(d)
    BY FlattenTyped
  <2>12. z = y \o t
    <3> HIDE DEF gone
    <3>1. PICK c \in Seq(Seq(S)) : c = <<y>>
      BY <2>9
    <3>2. FlattenSeq(c) = y
      BY <3>1, FlattenOne
    <3>3. FlattenSeq(c \o d) = FlattenSeq(c) \o FlattenSeq(d)
      BY FlattenBoth
    <3> QED BY <1>9, <2>9, <2>11, <3>1, <3>2, <3>3
  <2>13. FlattenSeq(Layer!Suffix(b, n)) = v \o t
    <3> HIDE DEF gone
    <3>1. PICK c \in Seq(Seq(S)) : c = <<v>>
      BY <2>9
    <3>2. FlattenSeq(c) = v
      BY <3>1, FlattenOne
    <3>3. FlattenSeq(c \o d) = FlattenSeq(c) \o FlattenSeq(d)
      BY FlattenBoth
    <3> QED BY <2>10, <2>11, <3>1, <3>2, <3>3
  <2>14. FlattenSeq(b) = x \o (y \o t)
    BY <1>9, <2>12
  <2>15. SubSeq(FlattenSeq(b), 1, n) \o (v \o t) = FlattenSeq(b)
    <3> HIDE DEF gone
    <3>1. TakesOff(S, y, m)
      BY TakenOff
    <3>2. SubSeq(x \o (y \o t), 1, Len(x) + m) \o (SubSeq(y, m + 1, Len(y)) \o t) = x \o (y \o t)
      BY <3>1, Zenon DEF TakesOff
    <3> QED BY <2>6, <2>7, <2>14, <3>2, Zenon
  <2>16. <<v>> \o d \in Seq(Seq(S))
    BY <2>9
  <2> QED BY <2>10, <2>13, <2>15, <2>16
<1> QED BY <1>11, <1>12

(* A write of one buffer takes that buffer as it is.                       *)
LEMMA PrefixOfOne ==
  ASSUME NEW S, NEW b \in Seq(Seq(S)), b # <<>>
  PROVE  /\ Layer!Prefix(b, Layer!Size(b, 1)) = <<b[1]>> /\ b[1] \in Seq(S)
         /\ Layer!Size(b, 1) \in 0 .. Len(FlattenSeq(b))
         /\ SubSeq(FlattenSeq(b), 1, Layer!Size(b, 1)) = b[1]
<1>1. 1 \in 1 .. Len(b) /\ Len(b) \in Nat /\ 1 - 1 = 0
  OBVIOUS
<1>2. PICK s \in Seq(S) : s = b[1]
  BY <1>1
<1>3. First(b, 1) = s
  <2>1. First(b, 1) = First(b, 0) \o b[1]
    BY <1>1, FirstOneMore
  <2>2. <<>> \o s = s
    OBVIOUS
  <2> QED BY <1>2, <2>1, <2>2, FirstNone
<1>4. \A k \in 0 .. Len(b) : Layer!Size(b, k) = Len(First(b, k)) /\ Layer!Size(b, k) \in Nat
  BY SizeIs
<1>5. Layer!Size(b, 1) = Len(s)
  BY <1>1, <1>3, <1>4
<1>6. PICK z \in Seq(S) : FlattenSeq(b) = s \o z
  <2>1. PICK k \in 0 .. Len(b) : k = 1
    BY <1>1
  <2>2. /\ First(b, k) \in Seq(S) /\ FlattenSeq(SubSeq(b, k + 1, Len(b))) \in Seq(S)
        /\ FlattenSeq(b) = First(b, k) \o FlattenSeq(SubSeq(b, k + 1, Len(b)))
    BY FlattenApart
  <2> QED BY <1>3, <2>1, <2>2
<1>7. \A j \in 1 .. Len(b) : (j = 1 \/ Layer!Size(b, j - 1) < Layer!Size(b, 1)) <=> j = 1
  <2> SUFFICES ASSUME NEW j \in 1 .. Len(b), j # 1 PROVE ~(Layer!Size(b, j - 1) < Layer!Size(b, 1))
    OBVIOUS
  <2>1. j - 1 \in 0 .. Len(b) /\ 1 \in 0 .. j - 1 /\ 1 \in 0 .. Len(b)
    OBVIOUS
  <2>2. PICK k \in 0 .. Len(b) : k = j - 1
    BY <2>1
  <2>3. Layer!Size(b, 1) <= Layer!Size(b, k)
    BY <2>1, <2>2, SizeIs
  <2>4. Layer!Size(b, 1) \in Nat /\ Layer!Size(b, k) \in Nat
    BY <1>4, <2>1
  <2> QED BY <2>2, <2>3, <2>4
<1>8. {j \in 1 .. Len(b) : j = 1 \/ Layer!Size(b, j - 1) < Layer!Size(b, 1)} = {1}
  BY <1>1, <1>7
<1>9. Cardinality({1}) = 1
  BY FS_Singleton
<1>10. Layer!Prefix(b, Layer!Size(b, 1)) = [j \in 1 .. 1 |-> b[1]]
  <2>1. Layer!Prefix(b, Layer!Size(b, 1)) =
          [j \in 1 .. 1 |-> IF Layer!Size(b, j) <= Layer!Size(b, 1) THEN b[j]
                            ELSE SubSeq(b[j], 1, Layer!Size(b, 1) - Layer!Size(b, j - 1))]
    BY <1>8, <1>9, SameCardinality DEF Layer!Prefix
  <2>2. \A j \in 1 .. 1 : j = 1
    OBVIOUS
  <2>3. Layer!Size(b, 1) <= Layer!Size(b, 1)
    BY <1>5
  <2> QED BY <2>1, <2>2, <2>3
<1>11. [j \in 1 .. 1 |-> s] = <<s>>
  OBVIOUS
<1>12. Len(s) \in 0 .. Len(s \o z)
  OBVIOUS
<1>13. SubSeq(s \o z, 1, Len(s)) = s
  BY FrontIs
<1> QED BY <1>2, <1>5, <1>6, <1>10, <1>11, <1>12, <1>13

(* What one write takes, when it flattens it, may be flattened.            *)
LEMMA TakenFits ==
  ASSUME NEW S, NEW b \in Seq(Seq(S)), Layer!Flattened(b), flat_max_size \in Nat
  PROVE  /\ Layer!Size(b, Layer!Taken(b)) \in 0 .. Len(FlattenSeq(b))
         /\ Layer!Size(b, Layer!Taken(b)) <= flat_max_size
<1> DEFINE G == {k \in 2 .. Len(b) : Layer!Fits(b, k)}
<1>1. \A k \in 0 .. Len(b) : Layer!Size(b, k) = Len(First(b, k)) /\ Layer!Size(b, k) \in Nat
  BY SizeIs
<1>2. \A k \in G : \A j \in 2 .. k : j \in G
  <2> TAKE k \in G
  <2> TAKE j \in 2 .. k
  <2>1. k \in 2 .. Len(b) /\ Layer!Size(b, 1) < flat_max_size /\ Layer!Size(b, k) <= flat_max_size
    BY DEF Layer!Fits
  <2>2. j \in 2 .. Len(b) /\ j \in 0 .. k /\ k \in 0 .. Len(b) /\ j \in 0 .. Len(b)
    BY <2>1
  <2>3. Len(First(b, j)) <= Len(First(b, k))
    BY <2>2, FirstGrows
  <2>4. Layer!Size(b, j) <= flat_max_size
    BY <1>1, <2>1, <2>2, <2>3
  <2> QED BY <2>1, <2>2, <2>4 DEF Layer!Fits
<1>3. Cardinality(G) \in Nat /\ G = 2 .. (2 + Cardinality(G) - 1)
  <2>1. G \subseteq 2 .. Len(b) /\ Len(b) \in Nat /\ 2 \in Nat
    OBVIOUS
  <2> HIDE DEF G
  <2> QED BY <1>2, <2>1, WithoutGaps
<1>4. Layer!Taken(b) = 1 + Cardinality(G)
  BY SameCardinality DEF Layer!Taken
<1>5. Layer!Taken(b) \in G
  <2>1. 1 + Cardinality(G) > 1
    BY <1>4 DEF Layer!Flattened
  <2> HIDE DEF G
  <2> QED BY <1>3, <1>4, <2>1
<1>6. PICK k \in 2 .. Len(b) : k = Layer!Taken(b) /\ Layer!Fits(b, k)
  BY <1>5
<1>7. k \in 0 .. Len(b)
  OBVIOUS
<1>8. PICK x \in Seq(S), z \in Seq(S) : x = First(b, k) /\ FlattenSeq(b) = x \o z
  BY <1>7, FlattenApart
<1>9. Layer!Size(b, k) = Len(x) /\ Len(x) \in 0 .. Len(x \o z)
  BY <1>1, <1>7, <1>8
<1> QED BY <1>6, <1>8, <1>9 DEF Layer!Fits

(* The marks of the caller's bytes, whatever the buffers.                  *)
Marks == {Layer!Total(SubSeq(s, 1, k - 1)) + j : s \in Shapes, k \in Nat, j \in Nat}

(* s is the first of the bytes that are left.                              *)
IsFront(s) == \E n \in 0 .. Len(FlattenSeq(rest)) : s = SubSeq(FlattenSeq(rest), 1, n)

FlatType ==
  /\ rest \in Seq(Seq(Marks)) /\ handed \in Seq(Seq(Marks))
  /\ buffer \in Seq(Marks) /\ wire \in Seq(Marks)
  /\ flat_pending \in {"none", "buffer", "caller"}

FlatInv ==
  /\ FlatType
  /\ wire \o FlattenSeq(rest) = flat_all
  /\ Len(handed) <= 1
  /\ Len(buffer) <= flat_max_size /\ Len(stack) <= max_stack
  /\ flat_pending = "buffer" => IsFront(buffer)
  /\ flat_pending = "caller" => IsFront(FlattenSeq(handed))

LEMMA InitialFlatInv ==
  ASSUME Layer!FlatStreamAssumption, Layer!FlatInit
  PROVE  FlatInv
<1>1. PICK s \in Shapes : rest = Layer!Numbered(s)
  BY DEF Layer!FlatInit
<1>2. s \in Seq(Nat)
  BY DEF Layer!FlatStreamAssumption
<1>3. \A k \in 1 .. Len(s) : s[k] \in Nat /\ k \in Nat
  BY <1>2
<1>4. \A k \in 1 .. Len(s) : [j \in 1 .. s[k] |-> Layer!Total(SubSeq(s, 1, k - 1)) + j] \in Seq(Marks)
  <2> TAKE k \in 1 .. Len(s)
  <2>1. \A j \in 1 .. s[k] : Layer!Total(SubSeq(s, 1, k - 1)) + j \in Marks
    BY <1>3, SMTT(40) DEF Marks
  <2> QED BY <1>3, <2>1
<1>5. Len(s) \in Nat
  BY <1>2
<1>6. rest \in Seq(Seq(Marks))
  BY <1>1, <1>4, <1>5 DEF Layer!Numbered
<1>7. PICK x \in Seq(Marks) : x = FlattenSeq(rest)
  BY <1>6, FlattenTyped
<1>8. <<>> \o x = x
  OBVIOUS
<1>9. /\ wire = <<>> /\ handed = <<>> /\ buffer = <<>> /\ stack = <<>> /\ flat_pending = "none" /\ flat_all = x
      /\ flat_max_size \in Nat /\ max_stack \in Nat
  BY <1>7, SameBytes DEF Layer!FlatInit, Layer!FlatStreamAssumption
<1>10. /\ wire \in Seq(Marks) /\ buffer \in Seq(Marks) /\ handed \in Seq(Seq(Marks))
       /\ Len(handed) = 0 /\ Len(buffer) = 0 /\ Len(stack) = 0
  BY <1>9
<1>11. wire \o FlattenSeq(rest) = flat_all
  BY <1>7, <1>8, <1>9
<1> QED BY <1>6, <1>9, <1>10, <1>11 DEF FlatInv, FlatType

LEMMA RegroupsMarks ==
  ASSUME NEW s \in Seq(Marks), NEW t \in Seq(Marks), NEW u \in Seq(Marks)
  PROVE  (s \o t) \o u = s \o (t \o u) /\ s \o t \in Seq(Marks)
BY Regrouped

LEMMA ResultKeeps ==
  ASSUME FlatInv, NEW s \in Seq(Marks), IsFront(s), Layer!Result(s)
  PROVE  /\ rest' \in Seq(Seq(Marks)) /\ wire' \in Seq(Marks)
         /\ wire' \o FlattenSeq(rest') = wire \o FlattenSeq(rest)
<1>1. CASE wire' = wire /\ rest' = rest
  BY <1>1 DEF FlatInv, FlatType
<1>2. CASE \E n \in Layer!FlatSome(Len(s)) : wire' = wire \o SubSeq(s, 1, n) /\ rest' = Layer!Suffix(rest, n)
  <2>1. PICK n \in 0 .. Len(s) : wire' = wire \o SubSeq(s, 1, n) /\ rest' = Layer!Suffix(rest, n)
    BY <1>2 DEF Layer!FlatSome
  <2>2. PICK b \in Seq(Seq(Marks)), w \in Seq(Marks) : b = rest /\ w = wire
    BY DEF FlatInv, FlatType
  <2>3. PICK x \in Seq(Marks) : x = FlattenSeq(b)
    BY FlattenTyped
  <2>4. PICK m \in 0 .. Len(x) : s = SubSeq(x, 1, m)
    BY <2>2, <2>3 DEF IsFront
  <2>5. n \in 0 .. Len(x) /\ SubSeq(s, 1, n) = SubSeq(x, 1, n)
    BY <2>4
  <2>6. /\ Layer!Suffix(b, n) \in Seq(Seq(Marks))
        /\ SubSeq(x, 1, n) \o FlattenSeq(Layer!Suffix(b, n)) = x
    BY <2>3, <2>5, SuffixKeeps
  <2>7. PICK u \in Seq(Marks), v \in Seq(Marks) : u = SubSeq(x, 1, n) /\ v = FlattenSeq(Layer!Suffix(b, n))
    <3>1. SubSeq(x, 1, n) \in Seq(Marks)
      BY <2>5
    <3>2. FlattenSeq(Layer!Suffix(b, n)) \in Seq(Marks)
      BY <2>6, FlattenTyped
    <3> QED BY <3>1, <3>2
  <2>8. (w \o u) \o v = w \o (u \o v) /\ w \o u \in Seq(Marks)
    BY RegroupsMarks, Zenon
  <2> QED BY <2>1, <2>2, <2>3, <2>5, <2>6, <2>7, <2>8
<1> QED BY <1>1, <1>2 DEF Layer!Result

(* What a write hands to the next layer.                                   *)
LEMMA Hands ==
  ASSUME Layer!FlatStreamAssumption, FlatInv, Layer!Idle, NEW n, n = Layer!Size(rest, Layer!Taken(rest)),
         NEW s, s = SubSeq(FlattenSeq(rest), 1, n)
  PROVE  /\ Layer!Flattened(rest) => s \in Seq(Marks) /\ IsFront(s) /\ Len(s) = n /\ n \in Nat /\ n <= flat_max_size
         /\ ~Layer!Flattened(rest) =>
              \E e \in Seq(Marks) : Layer!Prefix(rest, n) = <<e>> /\ FlattenSeq(<<e>>) = e /\ IsFront(e)
<1>1. PICK b \in Seq(Seq(Marks)) : b = rest
  BY DEF FlatInv, FlatType
<1>2. PICK x \in Seq(Marks) : x = FlattenSeq(b)
  BY FlattenTyped
<1>3. b # <<>>
  BY <1>1, FlattenNone, SameBytes DEF Layer!Idle
<1>4. CASE Layer!Flattened(b)
  <2>1. n \in 0 .. Len(x) /\ n <= flat_max_size
    BY <1>1, <1>2, <1>4, TakenFits DEF Layer!FlatStreamAssumption
  <2>2. SubSeq(x, 1, n) \in Seq(Marks) /\ Len(SubSeq(x, 1, n)) = n
    BY <2>1
  <2>3. IsFront(SubSeq(x, 1, n))
    BY <1>1, <1>2, <2>1 DEF IsFront
  <2> QED BY <1>1, <1>2, <1>4, <2>1, <2>2, <2>3
<1>5. CASE ~Layer!Flattened(b)
  <2>1. Layer!Taken(b) = 1
    <3>1. {k \in 2 .. Len(b) : Layer!Fits(b, k)} \subseteq 2 .. Len(b) /\ IsFiniteSet(2 .. Len(b))
      BY FS_Interval
    <3>2. Cardinality({k \in 2 .. Len(b) : Layer!Fits(b, k)}) \in Nat
      BY <3>1, FS_Subset, FS_CardinalityType
    <3>3. Layer!Taken(b) = 1 + Cardinality({k \in 2 .. Len(b) : Layer!Fits(b, k)})
      BY SameCardinality DEF Layer!Taken
    <3> QED BY <1>5, <3>2, <3>3 DEF Layer!Flattened
  <2>2. PICK e \in Seq(Marks) : e = b[1]
    BY <1>3
  <2>3. /\ Layer!Prefix(b, Layer!Size(b, 1)) = <<e>> /\ Layer!Size(b, 1) \in 0 .. Len(x)
        /\ SubSeq(x, 1, Layer!Size(b, 1)) = e
    BY <1>2, <1>3, <2>2, PrefixOfOne
  <2>4. FlattenSeq(<<e>>) = e
    BY FlattenOne
  <2>5. IsFront(e)
    BY <1>1, <1>2, <2>3 DEF IsFront
  <2> QED BY <1>1, <1>5, <2>1, <2>3, <2>4, <2>5
<1> QED BY <1>1, <1>4, <1>5

LEMMA WriteSomeKeeps ==
  ASSUME Layer!FlatStreamAssumption, FlatInv, Layer!write_some
  PROVE  FlatInv'
<1>1. PICK n : n = Layer!Size(rest, Layer!Taken(rest))
  OBVIOUS
<1>2. PICK s : s = SubSeq(FlattenSeq(rest), 1, n)
  OBVIOUS
<1>3. /\ Layer!Idle /\ flat_pending' = flat_pending /\ flat_all' = flat_all /\ flat_pending = "none"
      /\ Layer!Result(FlattenSeq(handed'))
      /\ \/ /\ Layer!Flattened(rest) /\ n <= max_stack
            /\ stack' = s /\ handed' = <<s>> /\ buffer' = buffer
         \/ /\ Layer!Flattened(rest) /\ ~(n <= max_stack)
            /\ buffer' = s /\ handed' = <<s>> /\ stack' = <<>>
         \/ /\ ~Layer!Flattened(rest)
            /\ buffer' = <<>> /\ handed' = Layer!Prefix(rest, n) /\ stack' = <<>>
  BY <1>1, <1>2, SameBytes DEF Layer!write_some, Layer!stack_write_some, Layer!Idle
<1>4. PICK e \in Seq(Marks) :
        /\ handed' = <<e>> /\ FlattenSeq(<<e>>) = e /\ IsFront(e)
        /\ Layer!Flattened(rest) => e = s /\ Len(s) = n /\ n \in Nat /\ n <= flat_max_size
  <2>1. CASE Layer!Flattened(rest)
    <3>1. s \in Seq(Marks) /\ IsFront(s) /\ Len(s) = n /\ n \in Nat /\ n <= flat_max_size
      BY <1>1, <1>2, <1>3, <2>1, Hands
    <3>2. FlattenSeq(<<s>>) = s
      BY <3>1, FlattenOne
    <3> QED BY <1>3, <2>1, <3>1, <3>2
  <2>2. CASE ~Layer!Flattened(rest)
    BY <1>1, <1>2, <1>3, <2>2, Hands
  <2> QED BY <2>1, <2>2
<1>5. /\ rest' \in Seq(Seq(Marks)) /\ wire' \in Seq(Marks)
      /\ wire' \o FlattenSeq(rest') = flat_all'
  <2>1. Layer!Result(e)
    BY <1>3, <1>4
  <2>2. wire \o FlattenSeq(rest) = flat_all
    BY DEF FlatInv
  <2> QED BY <1>3, <1>4, <2>1, <2>2, ResultKeeps
<1>6. handed' \in Seq(Seq(Marks)) /\ Len(handed') <= 1
  BY <1>4
<1>7. flat_max_size \in Nat /\ max_stack \in Nat /\ Len(<<>>) = 0 /\ <<>> \in Seq(Marks)
  BY EmptySeq DEF Layer!FlatStreamAssumption
<1>8. buffer \in Seq(Marks) /\ Len(buffer) <= flat_max_size /\ Len(stack) <= max_stack
  BY DEF FlatInv, FlatType
<1>9. buffer' \in Seq(Marks) /\ Len(buffer') <= flat_max_size /\ Len(stack') <= max_stack
  <2>1. CASE Layer!Flattened(rest)
    BY <1>3, <1>4, <1>7, <1>8, <2>1
  <2>2. CASE ~Layer!Flattened(rest)
    <3>1. buffer' = <<>> /\ stack' = <<>>
      BY <1>3, <2>2
    <3> QED BY <1>7, <3>1
  <2> QED BY <2>1, <2>2
<1> QED BY <1>3, <1>5, <1>6, <1>9 DEF FlatInv, FlatType

LEMMA AsyncWriteKeeps ==
  ASSUME Layer!FlatStreamAssumption, FlatInv, Layer!async_write_some
  PROVE  FlatInv'
<1>1. PICK n : n = Layer!Size(rest, Layer!Taken(rest))
  OBVIOUS
<1>2. PICK s : s = SubSeq(FlattenSeq(rest), 1, n)
  OBVIOUS
<1>3. /\ Layer!Idle /\ stack' = stack /\ rest' = rest /\ wire' = wire /\ flat_all' = flat_all
      /\ \/ Layer!Flattened(rest) /\ buffer' = s /\ handed' = <<s>> /\ flat_pending' = "buffer"
         \/ /\ ~Layer!Flattened(rest) /\ buffer' = <<>> /\ handed' = Layer!Prefix(rest, n)
            /\ flat_pending' = "caller"
  BY <1>1, <1>2, SameBytes DEF Layer!async_write_some, Layer!Idle
<1>4. \A e : IsFront(e) => IsFront(e)'
  BY <1>3 DEF IsFront
<1>5. flat_max_size \in Nat /\ Len(<<>>) = 0 /\ <<>> \in Seq(Marks)
  BY EmptySeq DEF Layer!FlatStreamAssumption
<1>6. CASE Layer!Flattened(rest)
  <2>1. s \in Seq(Marks) /\ IsFront(s) /\ Len(s) = n /\ n \in Nat /\ n <= flat_max_size
    BY <1>1, <1>2, <1>3, <1>6, Hands
  <2>2. buffer' \in Seq(Marks) /\ Len(buffer') <= flat_max_size /\ handed' \in Seq(Seq(Marks)) /\ Len(handed') <= 1
    <3>1. buffer' = s /\ handed' = <<s>>
      BY <1>3, <1>6
    <3>2. <<s>> \in Seq(Seq(Marks)) /\ Len(<<s>>) <= 1
      BY <2>1
    <3> QED BY <2>1, <3>1, <3>2
  <2>3. flat_pending' = "buffer" /\ IsFront(buffer)'
    BY <1>3, <1>6, <2>1 DEF IsFront
  <2> QED BY <1>3, <2>2, <2>3 DEF FlatInv, FlatType
<1>7. CASE ~Layer!Flattened(rest)
  <2>1. PICK e \in Seq(Marks) : handed' = <<e>> /\ FlattenSeq(<<e>>) = e /\ IsFront(e)
    BY <1>1, <1>2, <1>3, <1>7, Hands
  <2>2. buffer' \in Seq(Marks) /\ Len(buffer') <= flat_max_size
    <3>1. buffer' = <<>>
      BY <1>3, <1>7
    <3> QED BY <1>5, <3>1
  <2>3. handed' \in Seq(Seq(Marks)) /\ Len(handed') <= 1
    BY <2>1
  <2>4. flat_pending' = "caller" /\ IsFront(FlattenSeq(handed))'
    BY <1>3, <1>7, <2>1 DEF IsFront
  <2> QED BY <1>3, <2>2, <2>3, <2>4 DEF FlatInv, FlatType
<1> QED BY <1>6, <1>7

LEMMA WriteOpKeeps ==
  ASSUME FlatInv, Layer!write_op
  PROVE  FlatInv'
<1>1. PICK s \in Seq(Marks) : s = (IF flat_pending = "buffer" THEN buffer ELSE FlattenSeq(handed))
  <2>1. FlattenSeq(handed) \in Seq(Marks) /\ buffer \in Seq(Marks)
    BY FlattenTyped DEF FlatInv, FlatType
  <2> QED BY <2>1
<1>2. IsFront(s)
  BY <1>1 DEF FlatInv, FlatType, Layer!write_op
<1>3. Layer!Result(s)
  BY <1>1, SameBytes DEF Layer!write_op
<1>4. /\ rest' \in Seq(Seq(Marks)) /\ wire' \in Seq(Marks)
      /\ wire' \o FlattenSeq(rest') = wire \o FlattenSeq(rest)
  BY <1>2, <1>3, ResultKeeps
<1>5. flat_pending' = "none" /\ buffer' = buffer /\ stack' = stack /\ handed' = handed /\ flat_all' = flat_all
  BY DEF Layer!write_op
<1> QED BY <1>4, <1>5 DEF FlatInv, FlatType

LEMMA OtherFlatKeeps ==
  ASSUME FlatInv, UNCHANGED Layer!flat_vars
  PROVE  FlatInv'
<1>1. /\ rest' = rest /\ handed' = handed /\ buffer' = buffer /\ wire' = wire /\ stack' = stack
      /\ flat_pending' = flat_pending /\ flat_all' = flat_all
  BY DEF Layer!flat_vars
<1> QED BY <1>1 DEF FlatInv, FlatType, IsFront

LEMMA AlwaysFlatInv ==
  ASSUME Layer!FlatStreamAssumption
  PROVE  Layer!FlatSpec => []FlatInv
<1>1. FlatInv /\ [Layer!FlatNext]_(Layer!flat_vars) => FlatInv'
  BY WriteSomeKeeps, AsyncWriteKeeps, WriteOpKeeps, OtherFlatKeeps DEF Layer!FlatNext
<1> QED BY InitialFlatInv, <1>1, PTL DEF Layer!FlatSpec

(* Whatever buffers a caller writes through flat_stream, and however       *)
(* little the next layer takes of each, it gets the caller's bytes in      *)
(* order and without one missing (impl/flat_stream.hpp:45, 222).           *)
THEOREM FlatKeepsOrder ==
  ASSUME Layer!FlatStreamAssumption
  PROVE  Layer!FlatSpec => []Layer!FlatInOrder
<1>1. FlatInv => Layer!FlatInOrder
  BY SameBytes DEF FlatInv, Layer!FlatInOrder
<1> QED BY AlwaysFlatInv, <1>1, PTL

(* The next layer never gets two buffers, which is what the class is for,  *)
(* and no more is copied than max_size bytes, on the stack no more than    *)
(* its room (impl/flat_stream.hpp:56, 218, detail/flat_stream.hpp:57).     *)
THEOREM FlatHandsOne ==
  ASSUME Layer!FlatStreamAssumption
  PROVE  Layer!FlatSpec => [](Layer!OneBuffer /\ Layer!Bounded)
<1>1. FlatInv => Layer!OneBuffer /\ Layer!Bounded
  BY DEF FlatInv, Layer!OneBuffer, Layer!Bounded
<1> QED BY AlwaysFlatInv, <1>1, PTL

------------------------------------------------------------------------------
(* The streams together.  A step of one leaves the others at rest, so that *)
(* a run of them all is a run of each, and what was shown of each holds.   *)
LEMMA EachStarts ==
  StreamsInit => /\ Test!Init /\ Layer!FlatInit /\ Layer!IcyInit
                 /\ Layer!BufferedInit /\ Layer!DetectInit
BY DEF StreamsInit

LEMMA OthersRest ==
  ASSUME NEW p, Runs(p)
  PROVE  /\ p # "test" => UNCHANGED Test!vars
         /\ p # "flat" => UNCHANGED Layer!flat_vars
         /\ p # "icy" => UNCHANGED Layer!icy_vars
         /\ p # "buffered" => UNCHANGED Layer!buffered_vars
         /\ p # "detect" => UNCHANGED Layer!detect_vars
<1>1. p # "test" => UNCHANGED Test!vars
  BY DEF Runs, test_vars, Test!vars
<1>2. p # "flat" => UNCHANGED Layer!flat_vars
  BY DEF Runs, flat_vars, Layer!flat_vars
<1>3. p # "icy" => UNCHANGED Layer!icy_vars
  BY DEF Runs, icy_vars, Layer!icy_vars, Layer!icy_peer, Layer!stream
<1>4. p # "buffered" => UNCHANGED Layer!buffered_vars
  BY DEF Runs, buffered_vars, Layer!buffered_vars, Layer!buffered_call, Layer!count
<1>5. p # "detect" => UNCHANGED Layer!detect_vars
  BY DEF Runs, detect_vars, Layer!detect_vars, Layer!detect_peer
<1> QED BY <1>1, <1>2, <1>3, <1>4, <1>5

LEMMA EachSteps ==
  ASSUME [StreamsNext]_streams_vars
  PROVE  /\ [Test!Next]_(Test!vars) /\ [Layer!FlatNext]_(Layer!flat_vars)
         /\ [Layer!IcyNext]_(Layer!icy_vars) /\ [Layer!BufferedNext]_(Layer!buffered_vars)
         /\ [Layer!DetectNext]_(Layer!detect_vars)
<1>1. CASE Runs("basic") \/ Runs("transfers")
  BY <1>1, OthersRest
<1>2. CASE Runs("test") /\ Test!Next
  BY <1>2, OthersRest
<1>3. CASE Runs("flat") /\ Layer!FlatNext
  BY <1>3, OthersRest
<1>4. CASE Runs("icy") /\ Layer!IcyNext
  BY <1>4, OthersRest
<1>5. CASE Runs("buffered") /\ Layer!BufferedNext
  BY <1>5, OthersRest
<1>6. CASE Runs("detect") /\ Layer!DetectNext
  BY <1>6, OthersRest
<1>7. CASE UNCHANGED streams_vars
  <2>1. UNCHANGED <<test_vars, flat_vars, icy_vars, buffered_vars, detect_vars>>
    BY <1>7 DEF streams_vars
  <2>2. UNCHANGED Test!vars
    BY <2>1 DEF test_vars, Test!vars
  <2>3. UNCHANGED Layer!flat_vars
    BY <2>1 DEF flat_vars, Layer!flat_vars
  <2>4. UNCHANGED Layer!icy_vars
    BY <2>1 DEF icy_vars, Layer!icy_vars, Layer!icy_peer, Layer!stream
  <2>5. UNCHANGED Layer!buffered_vars
    BY <2>1 DEF buffered_vars, Layer!buffered_vars, Layer!buffered_call, Layer!count
  <2>6. UNCHANGED Layer!detect_vars
    BY <2>1 DEF detect_vars, Layer!detect_vars, Layer!detect_peer
  <2> QED BY <2>2, <2>3, <2>4, <2>5, <2>6
<1> QED BY <1>1, <1>2, <1>3, <1>4, <1>5, <1>6, <1>7 DEF StreamsNext

LEMMA RunOfEach ==
  StreamsSpec => /\ Test!Spec /\ Layer!FlatSpec /\ Layer!IcySpec
                 /\ Layer!BufferedSpec /\ Layer!DetectSpec
BY EachStarts, EachSteps, PTL
   DEF StreamsSpec, Test!Spec, Layer!FlatSpec, Layer!IcySpec, Layer!BufferedSpec, Layer!DetectSpec

(* No step of detect_ssl tells its caller from inside the initiating call. *)
LEMMA TellsFromOutside == Layer!DetectSpec => []Layer!NotInside
<1>1. Layer!DetectInit => Layer!NotInside
  BY DEF Layer!DetectInit, Layer!NotInside
<1>2. Layer!NotInside /\ [Layer!DetectNext]_(Layer!detect_vars) => Layer!NotInside'
  BY DEF Layer!NotInside, Layer!DetectNext, Layer!DetectPeerSends, Layer!DetectPeerCloses,
         Layer!Start, Layer!Operation, Layer!detect, Layer!detect_read, Layer!Delivered,
         Layer!Eof, Layer!DetectPosted, Layer!Finish, Layer!detect_vars
<1> QED BY <1>1, <1>2, PTL DEF Layer!DetectSpec

(* Whatever mixture of calls, sizes, partial results, cancellations,       *)
(* errors and capacities: through test::stream, flat_stream, icy_stream    *)
(* and buffered_read_stream the bytes come once and in their order         *)
(* (impl/stream.hpp:91-99, impl/flat_stream.hpp:45, 222,                   *)
(* impl/icy_stream.hpp:92-144, impl/buffered_read_stream.hpp:92-101).      *)
THEOREM AllKeepOrder == StreamsSpec => []BytesInOrder
<1>1. /\ Test!TestStreamAssumption /\ Layer!FlatStreamAssumption
      /\ Layer!IcyStreamAssumption /\ Layer!BufferedReadAssumption
  BY StreamsAssumption
<1>2. /\ Test!Spec => []Test!InOrder
      /\ Layer!FlatSpec => []Layer!FlatInOrder
      /\ Layer!FlatSpec => [](Layer!OneBuffer /\ Layer!Bounded)
      /\ Layer!IcySpec => []Layer!IcyInOrder
      /\ Layer!BufferedSpec => []Layer!BufferedInOrder
  BY <1>1, EndsKeepOrder, FlatKeepsOrder, FlatHandsOne, IcyKeepsOrder, BufferKeepsOrder
<1>3. /\ Test!InOrder /\ Layer!FlatInOrder /\ Layer!OneBuffer /\ Layer!Bounded
      /\ Layer!IcyInOrder /\ Layer!BufferedInOrder
      => BytesInOrder
  BY DEF BytesInOrder
<1> QED BY RunOfEach, <1>2, <1>3, PTL

(* A read of a test::stream waits only for what somebody can still bring,  *)
(* in one place; an end that has failed goes on failing; and detect_ssl    *)
(* and read wait, and answer, as the bytes they have demand                *)
(* (impl/stream.ipp:48-65, impl/stream.hpp:90, fail_count.hpp:21-25,       *)
(* detect_ssl.hpp:128-168, detail/impl/read.hpp:80-101).                   *)
THEOREM AllWaitAndAnswer == StreamsSpec => []WaitsAndVerdicts
<1>1. Test!TestStreamAssumption /\ Layer!DetectSslAssumption
  BY StreamsAssumption
<1>2. /\ Test!Spec => []Test!WaitsForNothing
      /\ Test!Spec => []Test!OnePlace
      /\ Test!Spec => []Test!FailsEverAfter
      /\ Layer!DetectSpec => []Layer!WaitsOnlyUndecided
      /\ Layer!DetectSpec => []Layer!VerdictStands
      /\ Layer!DetectSpec => []Layer!ReadsEnough
      /\ Layer!DetectSpec => []Layer!NotInside
  BY <1>1, NoReadIsLeft, ReadIsInOnePlace, FailsFromThereOn, WaitsForTheVerdict, VerdictIsFinal,
     ReadMeetsCondition, TellsFromOutside
<1>3. /\ Test!WaitsForNothing /\ Test!OnePlace /\ Test!FailsEverAfter
      /\ Layer!WaitsOnlyUndecided /\ Layer!VerdictStands /\ Layer!ReadsEnough /\ Layer!NotInside
      => WaitsAndVerdicts
  BY DEF WaitsAndVerdicts
<1> QED BY RunOfEach, <1>2, <1>3, PTL
=============================================================================
