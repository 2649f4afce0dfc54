--------------------------- MODULE RestClientProofs ---------------------------
(***************************************************************************)
(* The invariants of RestClient and of its pace, for any number of         *)
(* endpoints.                                                              *)
(*                                                                         *)
(* The bound on late posts is not inductive: it rests on what each thread  *)
(* has seen.  A thread that has posted since the io_context stopped cannot *)
(* get past its two checks once more, because exactly one of mError and    *)
(* mStopSubscriber is the reason of the stop and stays set.                *)
(***************************************************************************)
EXTENDS MCRestClient, Integers, TLAPS

(* The threads exist from their launch on, and are done before an object   *)
(* they use is destroyed.                                                  *)
PhaseInv ==
  /\ pc["client"] \in {"idle", "checkError", "checkStop", "checkReady", "post", "pause", "done"}
  /\ pc["subscriber"] \in {"idle", "checkStop", "checkError", "tasks", "post", "pause", "done"}
  /\ pc["client"] = "idle" <=> main \in {"construct", "launchClient"}
  /\ pc["subscriber"] = "idle" => main \in {"construct", "launchClient", "launchTasks"}
  /\ alive < 11 => main \in {"destroy", "exited"} /\ pc["client"] = "done"
  /\ alive < 10 => pc["subscriber"] = "done"

(* The io_context stops for exactly one of two reasons.                    *)
ReasonInv ==
  /\ stopped <=> mError \/ mStopSubscriber
  /\ ~(mError /\ mStopSubscriber)
  /\ pc["client"] = "done" =>
       \/ status = "SessionError" /\ mError
       \/ status = "EndSubscribeRequest" /\ mStopSubscriber

(* What a thread has posted late, at each place of its loop.               *)
LateInv ==
  /\ \A t \in Thread : late[t] > 0 => stopped
  /\ LatePostsBounded
  /\ pc["subscriber"] = "checkError" /\ late["subscriber"] > 0 => mError
  /\ pc["subscriber"] \in {"tasks", "post"} => late["subscriber"] <= next
  /\ pc["subscriber"] = "pause" => late["subscriber"] <= next + 1
  /\ pc["subscriber"] \in {"post", "pause"} => next < Subscribers
  /\ pc["client"] = "checkStop" /\ late["client"] > 0 => mStopSubscriber
  /\ pc["client"] \in {"checkReady", "post"} => late["client"] = 0

(* Everything above, inductive only together.                              *)
IInv == TypeOK /\ PhaseInv /\ ReasonInv /\ LateInv

------------------------------------------------------------------------------
(* The order of destruction: the futures come before what their tasks use. *)
LEMMA ObjectsFacts ==
  /\ Len(Objects) = 11
  /\ DOMAIN Objects = 1 .. 11
  /\ Objects[11] = "clientFuture"
  /\ Objects[10] = "mFutTasks"
  /\ Objects[9] = "mSubscriber"
BY DEF Objects

(* Nothing a thread uses is destroyed after the future that joins it.      *)
LEMMA UsedObjects ==
  ASSUME NEW t \in Thread, NEW i \in DOMAIN Objects, Objects[i] \in Uses(t)
  PROVE  i <= 9
<1>1. i \in 1 .. 11
  BY ObjectsFacts
<1>2. Objects[10] \notin Uses(t) /\ Objects[11] \notin Uses(t)
  BY ObjectsFacts DEF Uses, Thread
<1>. QED
  BY <1>1, <1>2

(* Nothing runs yet.                                                       *)
LEMMA InitInv == Init => IInv
<1>. SUFFICES ASSUME Init PROVE IInv
  OBVIOUS
<1>. USE DEF Init, Life!Init
<1>1. TypeOK
  <2>1. alive \in 0 .. Len(Objects)
    BY ObjectsFacts
  <2>2. pc \in [Thread -> {"idle", "checkStop", "checkError", "checkReady", "tasks", "post",
                         "pause", "done"}]
    OBVIOUS
  <2>3. next \in 0 .. Subscribers /\ late \in [Thread -> Nat]
    BY SubscribersAssumption
  <2>. QED
    BY <2>1, <2>2, <2>3 DEF TypeOK
<1>2. PhaseInv
  BY ObjectsFacts DEF PhaseInv, Thread
<1>3. ReasonInv
  BY DEF ReasonInv, Thread
<1>4. LateInv
  BY SubscribersAssumption DEF LateInv, LatePostsBounded, Thread
<1>. QED
  BY <1>1, <1>2, <1>3, <1>4 DEF IInv

(* The steps of main, of the session it serves and of the signal handler.  *)
LEMMA MainStep ==
  ASSUME IInv, Main \/ Serve \/ SignalHandler \/ CallbackThrows
  PROVE  IInv'
<1>. USE DEF IInv, TypeOK, PhaseInv, ReasonInv, LateInv, LatePostsBounded, Thread,
             session, threads
<1>1. CASE Construct
  BY <1>1 DEF Construct, Life!Start
<1>2. CASE LaunchClient
  BY <1>2 DEF LaunchClient
<1>3. CASE LaunchTaskSubscribe
  BY <1>3 DEF LaunchTaskSubscribe
<1>4. CASE RunReturns \/ WaitTasks \/ WaitClient \/ CallbackThrows
  BY <1>4 DEF RunReturns, WaitTasks, WaitClient, CallbackThrows
<1>5. CASE Destroy \/ Exit
  BY <1>5, ObjectsFacts DEF Destroy, Exit
<1>6. CASE Serve
  <2>1. CASE Life!Fail
    BY <1>6, <2>1 DEF Serve, Life!Fail, Life!Running
  <2>2. CASE Life!BecomeReady \/ Life!Overflow
    <3>1. /\ UNCHANGED <<mError, stopped, mStopSubscriber, main, alive>>
          /\ UNCHANGED <<started, pc, next, status, late>>
      BY <1>6, <2>2 DEF Serve, Life!BecomeReady, Life!Overflow
    <3>2. mSessionReady' \in BOOLEAN /\ terminated' \in BOOLEAN
      BY <2>2 DEF Life!BecomeReady, Life!Overflow
    <3>. QED
      BY <3>1, <3>2
  <2>. QED
    BY <1>6, <2>1, <2>2 DEF Serve
<1>7. CASE SignalHandler
  BY <1>7 DEF SignalHandler, Life!Stop, Life!Running
<1>. QED
  BY <1>1, <1>2, <1>3, <1>4, <1>5, <1>6, <1>7 DEF Main

(* The steps of the subscriber task.                                       *)
LEMMA SubscriberStep == ASSUME IInv, SubscriberTask PROVE IInv'
<1>. USE SubscribersAssumption
     DEF IInv, TypeOK, PhaseInv, ReasonInv, LateInv, LatePostsBounded, Thread, session, Goto
<1>1. CASE SubscriberCheckStop
  BY <1>1 DEF SubscriberCheckStop
<1>2. CASE SubscriberCheckError
  BY <1>2 DEF SubscriberCheckError
<1>3. CASE SubscriberRequest
  BY <1>3 DEF SubscriberRequest, CheckReady
<1>4. CASE Post("subscriber")
  BY <1>4 DEF Post
<1>5. CASE SubscriberPause
  BY <1>5 DEF SubscriberPause
<1>6. CASE SubscriberRepeats
  BY <1>6 DEF SubscriberRepeats
<1>. QED
  BY <1>1, <1>2, <1>3, <1>4, <1>5, <1>6 DEF SubscriberTask

(* The steps of the client task.                                           *)
LEMMA ClientStep == ASSUME IInv, ClientTask PROVE IInv'
<1>. USE SubscribersAssumption
     DEF IInv, TypeOK, PhaseInv, ReasonInv, LateInv, LatePostsBounded, Thread, session, Goto,
         Status
<1>1. CASE ClientCheckError
  BY <1>1 DEF ClientCheckError
<1>2. CASE ClientCheckStop
  BY <1>2 DEF ClientCheckStop
<1>3. CASE ClientRequest
  BY <1>3 DEF ClientRequest, CheckReady
<1>4. CASE Post("client")
  BY <1>4 DEF Post
<1>5. CASE ClientPause
  BY <1>5 DEF ClientPause
<1>. QED
  BY <1>1, <1>2, <1>3, <1>4, <1>5 DEF ClientTask

(* The inductive invariant holds of every RestClient.                      *)
THEOREM RestClientInvariant == Spec => []IInv
<1>1. ASSUME IInv, [Next]_vars PROVE IInv'
  <2>1. CASE Ended \/ UNCHANGED vars
    <3>1. /\ UNCHANGED <<started, mSessionReady, mError, stopped, terminated>>
          /\ UNCHANGED <<mStopSubscriber, main, alive>>
          /\ UNCHANGED <<pc, next, status, late>>
      BY <2>1 DEF Ended, vars, session, threads
    <3>. QED
      BY <1>1, <3>1 DEF IInv, TypeOK, PhaseInv, ReasonInv, LateInv, LatePostsBounded
  <2>. QED
    BY <1>1, <2>1, MainStep, SubscriberStep, ClientStep DEF Next
<1>. QED
  BY <1>1, InitInv, PTL DEF Spec

------------------------------------------------------------------------------
(* Type correctness of the program.                                        *)
THEOREM RestClientTypeCorrect == Spec => []TypeOK
<1>1. IInv => TypeOK
  BY DEF IInv
<1>. QED
  BY <1>1, RestClientInvariant, PTL

(* However many endpoints are subscribed, a stopped session is posted at   *)
(* most one round of them and one request of the client.                   *)
THEOREM FewLatePosts == Spec => []LatePostsBounded
<1>1. IInv => LatePostsBounded
  BY DEF IInv, LateInv
<1>. QED
  BY <1>1, RestClientInvariant, PTL

(* No thread outlives an object it uses.                                   *)
THEOREM NoUseAfterDestruction == Spec => []UsesLiveObjects
<1>1. ASSUME IInv, NEW t \in Thread, Active(t), NEW i \in DOMAIN Objects, Objects[i] \in Uses(t)
      PROVE  i <= alive
  <2>1. i \in 1 .. 11 /\ i <= 9
    BY <1>1, UsedObjects, ObjectsFacts
  <2>2. alive \in 0 .. 11
    BY <1>1, ObjectsFacts DEF IInv, TypeOK
  <2>3. alive >= 10
    BY <1>1, <2>2 DEF IInv, PhaseInv, Active, Thread
  <2>. QED
    BY <2>1, <2>2, <2>3
<1>2. IInv => UsesLiveObjects
  BY <1>1 DEF UsesLiveObjects
<1>. QED
  BY <1>2, RestClientInvariant, PTL

(* The client task ends with the reason the session ended for.             *)
THEOREM ClientLearnsWhy == Spec => []ClientToldWhy
<1>1. IInv => ClientToldWhy
  BY DEF IInv, ReasonInv, ClientToldWhy
<1>. QED
  BY <1>1, RestClientInvariant, PTL
------------------------------------------------------------------------------
(* The pace of the requests, for any limit, ring and server.               *)

(* In the time between two ticks the ring takes a request of the           *)
(* subscriber, and one of the client in every other: room for three of     *)
(* them in two ticks of AnswerTime, and for those of the last moment.      *)
RoomForAnswers == 2 * Slots > 3 * AnswerTime + 2

AtMost(n, m) == IF n > m THEN m ELSE n
Slack(s, c) == 2 * AtMost(s, 1) + AtMost(c, 2)

(* The ages r of a thread's requests, oldest first, are at least a tick    *)
(* apart; it sleeps for s ticks, so none is from now if it does not.       *)
Spaced(r, s) ==
  /\ r \in Seq(0 .. Minute - 1)
  /\ \A i, j \in 1 .. Len(r) : i < j => r[i] > r[j]
  /\ \A i \in 1 .. Len(r) : r[i] >= Len(r) - i + (IF s = 0 THEN 1 ELSE 0)

(* Of the requests in the ring w, those as young as the i-th are no more   *)
(* than two threads post in that time, when they sleep for s and c ticks.  *)
Roomy(w, s, c) ==
  /\ w \in Seq(0 .. AnswerTime)
  /\ \A i \in 1 .. Len(w) :
       2 * (Len(w) - i + 1) <= 3 * w[i] + Slack(s, c)

PaceInv ==
  /\ sleep \in [Rate!Thread -> Nat]
  /\ DOMAIN recent = Rate!Thread
  /\ Spaced(recent["subscriber"], sleep["subscriber"])
  /\ ~silent => Roomy(waiting, sleep["subscriber"], sleep["client"]) /\ ~rate_terminated

(* A request.                                                              *)
LEMMA SpacedRequest ==
  ASSUME NEW r, Spaced(r, 0), NEW s \in Nat, s > 0
  PROVE  Spaced(Append(r, 0), s)
<1>1. r \in Seq(0 .. Minute - 1) /\ Len(r) \in Nat /\ Minute \in Nat \ {0}
  BY RateAssumption DEF Spaced, Rate!RequestRateAssumption
<1> DEFINE q == Append(r, 0)
<1>2. q \in Seq(0 .. Minute - 1) /\ Len(q) = Len(r) + 1 /\ q[Len(r) + 1] = 0
  BY <1>1
<1>3. \A i \in 1 .. Len(r) : q[i] = r[i] /\ r[i] \in 0 .. Minute - 1
  BY <1>1
<1>4. \A i \in 1 .. Len(r) : r[i] >= Len(r) - i + 1
  BY <1>1 DEF Spaced
<1> HIDE DEF q
<1>5. \A i, j \in 1 .. Len(q) : i < j => q[i] > q[j]
  <2> SUFFICES ASSUME NEW i \in 1 .. Len(q), NEW j \in 1 .. Len(q), i < j PROVE q[i] > q[j]
    OBVIOUS
  <2>1. CASE j = Len(r) + 1
    BY <1>1, <1>2, <1>3, <1>4, <2>1
  <2>2. CASE j # Len(r) + 1
    <3>1. i \in 1 .. Len(r) /\ j \in 1 .. Len(r)
      <4>1. Len(r) \in Nat /\ Len(q) = Len(r) + 1
        BY <1>1, <1>2
      <4> QED BY <2>2, <4>1
    <3>2. r[i] > r[j]
      BY <3>1 DEF Spaced
    <3> QED BY <1>3, <3>1, <3>2
  <2> QED BY <2>1, <2>2
<1>6. \A i \in 1 .. Len(q) : q[i] >= Len(q) - i
  <2> SUFFICES ASSUME NEW i \in 1 .. Len(q) PROVE q[i] >= Len(q) - i
    OBVIOUS
  <2>1. CASE i = Len(r) + 1
    BY <1>1, <1>2, <2>1
  <2>2. CASE i # Len(r) + 1
    <3>1. i \in 1 .. Len(r)
      BY <1>1, <1>2, <2>2
    <3>2. q[i] = r[i] /\ r[i] >= Len(r) - i + 1 /\ r[i] \in Int
      BY <1>1, <1>3, <1>4, <3>1
    <3> QED BY <1>1, <1>2, <3>1, <3>2
  <2> QED BY <2>1, <2>2
<1>7. Spaced(q, s)
  BY <1>1, <1>2, <1>5, <1>6 DEF Spaced
<1> QED BY <1>7 DEF q

LEMMA RoomyRequest ==
  ASSUME NEW w, NEW s \in Nat, NEW c \in Nat, Roomy(w, s, c),
         NEW d \in Nat, NEW e \in Nat,
         \/ s = 0 /\ d > 0 /\ e = c
         \/ s = d /\ c = 0 /\ e >= 2
  PROVE  /\ RoomForAnswers => Len(w) # Slots
         /\ Roomy(Append(w, 0), d, e)
<1> DEFINE q == Append(w, 0)
           x == Slack(s, c)
           y == Slack(d, e)
<1>1. w \in Seq(0 .. AnswerTime) /\ Len(w) \in Nat /\ {AnswerTime, Slots} \subseteq Nat \ {0}
  BY RateAssumption DEF Roomy, Rate!RequestRateAssumption
<1>2. q \in Seq(0 .. AnswerTime) /\ Len(q) = Len(w) + 1 /\ q[Len(w) + 1] = 0
  BY <1>1
<1>3. \A i \in 1 .. Len(w) : q[i] = w[i] /\ w[i] \in 0 .. AnswerTime
  BY <1>1
<1>4. y = x + 2 /\ x \in 0 .. 2
  BY DEF Slack, AtMost
<1>5. \A i \in 1 .. Len(w) : 2 * (Len(w) - i + 1) <= 3 * w[i] + x
  BY DEF Roomy
<1> HIDE DEF q, x, y
<1>6. \A i \in 1 .. Len(q) : 2 * (Len(q) - i + 1) <= 3 * q[i] + y
  <2> SUFFICES ASSUME NEW i \in 1 .. Len(q) PROVE 2 * (Len(q) - i + 1) <= 3 * q[i] + y
    OBVIOUS
  <2>1. CASE i = Len(w) + 1
    <3>1. Len(q) - i + 1 = 1 /\ q[i] = 0
      BY <1>1, <1>2, <2>1
    <3> QED BY <1>4, <3>1
  <2>2. CASE i # Len(w) + 1
    <3>1. i \in 1 .. Len(w) /\ Len(q) = Len(w) + 1 /\ Len(w) \in Int
      BY <1>1, <1>2, <2>2
    <3>2. q[i] = w[i] /\ w[i] \in Int /\ 2 * (Len(w) - i + 1) <= 3 * w[i] + x
      BY <1>1, <1>3, <1>5, <3>1
    <3> QED BY <1>4, <3>1, <3>2
  <2> QED BY <2>1, <2>2
<1>7. ASSUME RoomForAnswers, Len(w) = Slots PROVE FALSE
  <2>1. 1 \in 1 .. Len(w) /\ w[1] \in 0 .. AnswerTime
    BY <1>1, <1>3, <1>7
  <2>2. 2 * (Len(w) - 1 + 1) <= 3 * w[1] + x
    BY <1>5, <2>1
  <2>3. w[1] \in Int /\ w[1] <= AnswerTime /\ {AnswerTime, Slots} \subseteq Int
    BY <1>1, <2>1
  <2>4. 2 * Slots <= 3 * w[1] + x
    BY <1>7, <2>2, <2>3
  <2> QED BY <1>4, <1>7, <2>3, <2>4 DEF RoomForAnswers
<1>8. Roomy(q, d, e)
  BY <1>2, <1>6 DEF Roomy, y
<1> QED BY <1>7, <1>8 DEF q

(* More sleep.                                                             *)
LEMMA SpacedLater ==
  ASSUME NEW r, NEW s \in Nat, Spaced(r, s), NEW d \in Nat, s = 0 \/ d # 0
  PROVE  Spaced(r, d)
<1>1. r \in Seq(0 .. Minute - 1) /\ Len(r) \in Nat /\ Minute \in Nat \ {0}
  BY RateAssumption DEF Spaced, Rate!RequestRateAssumption
<1>2. \A i \in 1 .. Len(r) : r[i] >= Len(r) - i + (IF d = 0 THEN 1 ELSE 0)
  <2> SUFFICES ASSUME NEW i \in 1 .. Len(r)
               PROVE  r[i] >= Len(r) - i + (IF d = 0 THEN 1 ELSE 0)
    OBVIOUS
  <2>1. r[i] >= Len(r) - i + (IF s = 0 THEN 1 ELSE 0)
    BY DEF Spaced
  <2>2. r[i] \in 0 .. Minute - 1
    BY <1>1
  <2> QED BY <1>1, <2>1, <2>2
<1> QED BY <1>1, <1>2 DEF Spaced

LEMMA RoomyLater ==
  ASSUME NEW w, NEW s \in Nat, NEW c \in Nat, Roomy(w, s, c),
         NEW d \in Nat, NEW e \in Nat, d >= s, e >= c
  PROVE  Roomy(w, d, e)
<1>1. w \in Seq(0 .. AnswerTime) /\ Len(w) \in Nat /\ AnswerTime \in Nat
  BY RateAssumption DEF Roomy, Rate!RequestRateAssumption
<1>2. Slack(d, e) >= Slack(s, c) /\ Slack(d, e) \in Int /\ Slack(s, c) \in Int
  BY DEF Slack, AtMost
<1>3. \A i \in 1 .. Len(w) : 2 * (Len(w) - i + 1) <= 3 * w[i] + Slack(d, e)
  <2> SUFFICES ASSUME NEW i \in 1 .. Len(w) PROVE 2 * (Len(w) - i + 1) <= 3 * w[i] + Slack(d, e)
    OBVIOUS
  <2>1. 2 * (Len(w) - i + 1) <= 3 * w[i] + Slack(s, c)
    BY DEF Roomy
  <2>2. w[i] \in 0 .. AnswerTime
    BY <1>1
  <2>3. w[i] \in Int /\ Len(w) \in Int /\ i \in Int
    BY <1>1, <2>2
  <2> QED BY <1>2, <2>1, <2>3
<1> QED BY <1>1, <1>3 DEF Roomy

(* A sequence is one over any set its elements are in.                     *)
LEMMA ElementsInSet ==
  ASSUME NEW S, NEW T, NEW q \in Seq(S), \A i \in 1 .. Len(q) : q[i] \in T
  PROVE  q \in Seq(T)
OBVIOUS

(* A tick.                                                                 *)
LEMMA SpacedTick ==
  ASSUME NEW r, NEW s \in Nat, Spaced(r, s)
  PROVE  Spaced(Rate!InMinute(r), IF s > 0 THEN s - 1 ELSE 0)
<1> DEFINE Over(n) == \A i \in DOMAIN r : r[i] = Minute - 1 <=> i <= n
           k == CHOOSE n \in 0 .. Len(r) : Over(n)
           o == Rate!Older(r)
           q == SubSeq(o, k + 1, Len(r))
           d == IF s > 0 THEN s - 1 ELSE 0
<1>1. r \in Seq(0 .. Minute - 1) /\ Len(r) \in Nat /\ Minute \in Nat \ {0} /\ DOMAIN r = 1 .. Len(r)
  BY RateAssumption DEF Spaced, Rate!RequestRateAssumption
<1>2. \A i \in 1 .. Len(r) : r[i] \in 0 .. Minute - 1
  BY <1>1
<1>3. \A i, j \in 1 .. Len(r) : i < j => r[i] > r[j]
  BY DEF Spaced
<1>4. \A i \in 2 .. Len(r) : r[i] < Minute - 1
  <2> SUFFICES ASSUME NEW i \in 2 .. Len(r) PROVE r[i] < Minute - 1
    OBVIOUS
  <2>1. 1 \in 1 .. Len(r) /\ i \in 1 .. Len(r) /\ 1 < i
    BY <1>1
  <2>2. r[1] > r[i]
    BY <1>3, <2>1
  <2> QED BY <1>1, <1>2, <2>1, <2>2
<1>5. k \in 0 .. 1 /\ \A i \in k + 1 .. Len(r) : i \in 1 .. Len(r) /\ r[i] < Minute - 1
  <2>1. \E n \in 0 .. Len(r) : Over(n)
    <3>1. CASE Len(r) > 0 /\ r[1] = Minute - 1
      <4>1. 1 \in 0 .. Len(r) /\ \A i \in DOMAIN r : i # 1 => i \in 2 .. Len(r) /\ ~(i <= 1)
        BY <1>1, <3>1
      <4>2. \A i \in DOMAIN r : i # 1 => r[i] # Minute - 1
        BY <1>1, <1>2, <1>4, <4>1
      <4>3. Over(1)
        BY <3>1, <4>1, <4>2
      <4> QED BY <4>1, <4>3
    <3>2. CASE ~(Len(r) > 0 /\ r[1] = Minute - 1)
      <4>1. \A i \in DOMAIN r : i # 1 => i \in 2 .. Len(r)
        BY <1>1
      <4>2. \A i \in DOMAIN r : r[i] # Minute - 1
        BY <1>1, <1>2, <1>4, <3>2, <4>1
      <4>3. Over(0)
        BY <1>1, <4>2
      <4> QED BY <1>1, <4>3
    <3> QED BY <3>1, <3>2
  <2>2. k \in 0 .. Len(r) /\ Over(k)
    BY <2>1
  <2> HIDE DEF k
  <2>3. k \in 0 .. 1
    <3> SUFFICES ASSUME k > 1 PROVE FALSE
      BY <1>1, <2>2
    <3>1. 2 \in 2 .. Len(r) /\ 2 \in DOMAIN r /\ 2 <= k
      BY <1>1, <2>2
    <3> QED BY <1>1, <1>2, <1>4, <2>2, <3>1
  <2>4. \A i \in k + 1 .. Len(r) : i \in 1 .. Len(r) /\ ~(i <= k)
    BY <1>1, <2>2
  <2>5. \A i \in 1 .. Len(r) : r[i] # Minute - 1 => r[i] < Minute - 1
    BY <1>1, <1>2
  <2> QED BY <1>1, <2>2, <2>3, <2>4, <2>5
<1>6. o = [i \in 1 .. Len(r) |-> r[i] + 1] /\ o \in Seq(Nat) /\ Len(o) = Len(r)
  BY <1>1 DEF Rate!Older
<1>7. Rate!InMinute(r) = q
  BY DEF Rate!InMinute
<1> HIDE DEF k, o
<1>8. /\ Len(q) = IF k + 1 <= Len(r) THEN Len(r) - k ELSE 0
      /\ q \in Seq(Nat)
      /\ \A i \in 1 .. Len(q) : q[i] = o[k + i]
  BY <1>1, <1>5, <1>6
<1> HIDE DEF q
<1>9. \A i \in 1 .. Len(q) : k + i \in k + 1 .. Len(r) /\ k + i \in 1 .. Len(r) /\ q[i] = r[k + i] + 1
  <2> SUFFICES ASSUME NEW i \in 1 .. Len(q)
               PROVE  k + i \in k + 1 .. Len(r) /\ k + i \in 1 .. Len(r) /\ q[i] = r[k + i] + 1
    OBVIOUS
  <2>1. k \in Nat /\ Len(r) \in Nat
    BY <1>1, <1>5
  <2>2. k + i \in k + 1 .. Len(r) /\ k + i \in 1 .. Len(r)
    BY <1>8, <2>1
  <2> QED BY <1>6, <1>8, <2>2
<1>10. q \in Seq(0 .. Minute - 1)
  <2>1. \A i \in 1 .. Len(q) : q[i] \in 0 .. Minute - 1
    <3> SUFFICES ASSUME NEW i \in 1 .. Len(q) PROVE q[i] \in 0 .. Minute - 1
      OBVIOUS
    <3>1. r[k + i] \in Int /\ r[k + i] >= 0 /\ r[k + i] < Minute - 1 /\ q[i] = r[k + i] + 1
      BY <1>2, <1>5, <1>9
    <3> QED BY <1>1, <3>1
  <2> QED BY <1>8, <2>1, ElementsInSet
<1>11. \A i, j \in 1 .. Len(q) : i < j => q[i] > q[j]
  <2> SUFFICES ASSUME NEW i \in 1 .. Len(q), NEW j \in 1 .. Len(q), i < j PROVE q[i] > q[j]
    OBVIOUS
  <2>1. k + i \in 1 .. Len(r) /\ k + j \in 1 .. Len(r) /\ k + i < k + j
    BY <1>5, <1>8, <1>9
  <2>2. r[k + i] > r[k + j]
    BY <1>3, <2>1
  <2> QED BY <1>1, <1>2, <1>9, <2>1, <2>2
<1>12. \A i \in 1 .. Len(q) : q[i] >= Len(q) - i + (IF d = 0 THEN 1 ELSE 0)
  <2> SUFFICES ASSUME NEW i \in 1 .. Len(q)
               PROVE  q[i] >= Len(q) - i + (IF d = 0 THEN 1 ELSE 0)
    OBVIOUS
  <2>1. k + i \in 1 .. Len(r) /\ r[k + i] \in Nat /\ q[i] = r[k + i] + 1
    BY <1>1, <1>2, <1>9
  <2>2. r[k + i] >= Len(r) - (k + i) + (IF s = 0 THEN 1 ELSE 0)
    BY <2>1 DEF Spaced
  <2>3. Len(q) = Len(r) - k /\ k \in Nat /\ Len(r) \in Nat
    <3>1. k \in Nat /\ Len(r) \in Nat
      BY <1>1, <1>5
    <3> QED BY <1>8, <3>1
  <2>4. r[k + i] >= Len(r) - (k + i)
    BY <1>1, <1>5, <2>1, <2>2
  <2> QED BY <2>1, <2>3, <2>4 DEF d
<1> QED BY <1>7, <1>10, <1>11, <1>12 DEF Spaced

LEMMA RoomyTick ==
  ASSUME NEW w, NEW s \in Nat, NEW c \in Nat, Roomy(w, s, c),
         \A i \in DOMAIN w : w[i] < AnswerTime
  PROVE  Roomy(Rate!Older(w), IF s > 0 THEN s - 1 ELSE 0, IF c > 0 THEN c - 1 ELSE 0)
<1> DEFINE q == Rate!Older(w)
           x == Slack(s, c)
           y == Slack(IF s > 0 THEN s - 1 ELSE 0, IF c > 0 THEN c - 1 ELSE 0)
<1>1. w \in Seq(0 .. AnswerTime) /\ Len(w) \in Nat /\ AnswerTime \in Nat /\ DOMAIN w = 1 .. Len(w)
  BY RateAssumption DEF Roomy, Rate!RequestRateAssumption
<1>2. q = [i \in 1 .. Len(w) |-> w[i] + 1] /\ q \in Seq(Nat) /\ Len(q) = Len(w)
  BY <1>1 DEF Rate!Older
<1>3. \A i \in 1 .. Len(w) : w[i] \in 0 .. AnswerTime - 1 /\ q[i] = w[i] + 1
  <2>1. \A i \in 1 .. Len(w) : w[i] \in 0 .. AnswerTime /\ w[i] < AnswerTime
    BY <1>1
  <2> QED BY <1>1, <1>2, <2>1
<1>4. y + 3 >= x /\ x \in Int /\ y \in Int
  BY DEF Slack, AtMost
<1>5. \A i \in 1 .. Len(w) : 2 * (Len(w) - i + 1) <= 3 * w[i] + x
  BY DEF Roomy
<1> HIDE DEF q, x, y
<1>6. q \in Seq(0 .. AnswerTime)
  <2>1. \A i \in 1 .. Len(q) : q[i] \in 0 .. AnswerTime
    BY <1>1, <1>2, <1>3
  <2> QED BY <1>2, <2>1
<1>7. \A i \in 1 .. Len(q) : 2 * (Len(q) - i + 1) <= 3 * q[i] + y
  <2> SUFFICES ASSUME NEW i \in 1 .. Len(w)
               PROVE  2 * (Len(w) - i + 1) <= 3 * (w[i] + 1) + y
    BY <1>2, <1>3
  <2>1. w[i] \in Int /\ Len(w) \in Int /\ i \in Int
    BY <1>1, <1>3
  <2> QED BY <1>4, <1>5, <2>1
<1> QED BY <1>6, <1>7 DEF Roomy, q, y

(* An answer.                                                              *)
LEMMA RoomyAnswer ==
  ASSUME NEW w, NEW s \in Nat, NEW c \in Nat, Roomy(w, s, c), w # <<>>
  PROVE  Roomy(Tail(w), s, c)
<1> DEFINE q == Tail(w)
<1>1. w \in Seq(0 .. AnswerTime) /\ Len(w) \in Nat
  BY DEF Roomy
<1>2. q \in Seq(0 .. AnswerTime) /\ Len(q) = Len(w) - 1
  BY <1>1
<1>3. \A i \in 1 .. Len(q) : i + 1 \in 1 .. Len(w) /\ q[i] = w[i + 1]
  BY <1>1, <1>2
<1> HIDE DEF q
<1>4. \A i \in 1 .. Len(q) : 2 * (Len(q) - i + 1) <= 3 * q[i] + Slack(s, c)
  <2> SUFFICES ASSUME NEW i \in 1 .. Len(q)
               PROVE  2 * (Len(q) - i + 1) <= 3 * q[i] + Slack(s, c)
    OBVIOUS
  <2>1. 2 * (Len(w) - (i + 1) + 1) <= 3 * w[i + 1] + Slack(s, c)
    BY <1>3 DEF Roomy
  <2>2. Len(w) - (i + 1) + 1 = Len(q) - i + 1
    BY <1>1, <1>2
  <2> QED BY <1>3, <2>1, <2>2
<1> QED BY <1>2, <1>4 DEF Roomy, q

LEMMA PaceInitially == Rate!Init => PaceInv
<1> SUFFICES ASSUME Rate!Init PROVE PaceInv
  OBVIOUS
<1>1. recent["subscriber"] = <<>> /\ sleep["subscriber"] = 0 /\ DOMAIN recent = Rate!Thread
  BY DEF Rate!Init, Rate!Thread
<1>2. Spaced(<<>>, 0) /\ Roomy(<<>>, 0, 0)
  BY DEF Spaced, Roomy
<1>3. sleep \in [Rate!Thread -> Nat] /\ waiting = <<>> /\ ~rate_terminated /\ sleep["client"] = 0
  BY DEF Rate!Init, Rate!Thread
<1> QED BY <1>1, <1>2, <1>3 DEF PaceInv

LEMMA PaceKept ==
  ASSUME RoomForAnswers, PaceInv, [Rate!Next]_rate_vars
  PROVE  PaceInv'
<1> DEFINE s == sleep["subscriber"]
           c == sleep["client"]
<1>1. s \in Nat /\ c \in Nat /\ Rate!Thread = {"subscriber", "client"}
  BY DEF PaceInv, Rate!Thread
<1>2. CASE \E t \in Rate!Thread : Rate!NotReady(t)
  <2>1. PICK t \in Rate!Thread : Rate!NotReady(t)
    BY <1>2
  <2> DEFINE n == Rate!Second + Rate!Pause(t)
  <2>2. n \in Nat /\ n >= 3 /\ sleep' = [sleep EXCEPT ![t] = n] /\ sleep[t] = 0
    BY <1>1, <2>1 DEF Rate!NotReady, Rate!Awake, Rate!Second, Rate!Pause
  <2>3. UNCHANGED <<rate_terminated, silent, recent, waiting>>
    BY <2>1 DEF Rate!NotReady
  <2> HIDE DEF n
  <2>4. Spaced(recent["subscriber"], sleep'["subscriber"])
    <3>1. sleep'["subscriber"] \in Nat /\ (s = 0 \/ sleep'["subscriber"] # 0)
      BY <1>1, <2>2 DEF PaceInv
    <3>2. Spaced(recent["subscriber"], s)
      BY DEF PaceInv
    <3> HIDE DEF s
    <3> QED BY <1>1, <3>1, <3>2, SpacedLater
  <2>5. Roomy(waiting, s, c) => Roomy(waiting, sleep'["subscriber"], sleep'["client"])
    BY <1>1, <2>2, RoomyLater DEF PaceInv
  <2> QED BY <2>2, <2>3, <2>4, <2>5 DEF PaceInv
<1>3. CASE \E t \in Rate!Thread : Rate!Request(t)
  <2>1. PICK t \in Rate!Thread : Rate!Request(t)
    BY <1>3
  <2>2. /\ sleep[t] = 0 /\ sleep' = [sleep EXCEPT ![t] = IF t = "client" THEN 2 ELSE 1]
        /\ recent' = [recent EXCEPT ![t] = Append(@, 0)]
        /\ UNCHANGED silent
        /\ \/ Len(waiting) = Slots
           \/ waiting' = Append(waiting, 0) /\ UNCHANGED rate_terminated
    BY <1>1, <2>1 DEF Rate!Request, Rate!Awake, Rate!Second, Rate!Pause, Rate!RingFull
  <2>3. sleep' \in [Rate!Thread -> Nat] /\ DOMAIN recent' = Rate!Thread
    BY <1>1, <2>2 DEF PaceInv
  <2>4. Spaced(recent'["subscriber"], sleep'["subscriber"])
    BY <1>1, <2>2, SpacedRequest DEF PaceInv
  <2>5. CASE silent
    BY <2>2, <2>3, <2>4, <2>5 DEF PaceInv
  <2>6. CASE ~silent
    <3>1. Roomy(waiting, s, c) /\ ~rate_terminated
      BY <2>6 DEF PaceInv
    <3>2. sleep'["subscriber"] \in Nat /\ sleep'["client"] \in Nat
      BY <1>1, <2>3
    <3>3. \/ s = 0 /\ sleep'["subscriber"] > 0 /\ sleep'["client"] = c
          \/ s = sleep'["subscriber"] /\ c = 0 /\ sleep'["client"] >= 2
      BY <1>1, <2>2 DEF PaceInv
    <3>4. Len(waiting) # Slots /\ Roomy(Append(waiting, 0), sleep'["subscriber"], sleep'["client"])
      BY <1>1, <3>1, <3>2, <3>3, RoomyRequest
    <3>5. waiting' = Append(waiting, 0) /\ ~rate_terminated'
      BY <2>2, <3>1, <3>4
    <3> QED BY <2>3, <2>4, <3>4, <3>5 DEF PaceInv
  <2> QED BY <2>5, <2>6
<1>4. CASE Rate!BecomeReady \/ Rate!FallSilent \/ Rate!Ended \/ UNCHANGED rate_vars
  <2>1. /\ UNCHANGED <<sleep, recent, waiting, rate_terminated>>
        /\ silent' = silent \/ silent' = TRUE
    BY <1>4 DEF Rate!BecomeReady, Rate!FallSilent, Rate!Ended, Rate!vars, rate_vars
  <2> QED BY <2>1 DEF PaceInv
<1>5. CASE Rate!Answer
  <2>1. /\ waiting # <<>> /\ waiting' = Tail(waiting)
        /\ UNCHANGED <<sleep, recent, rate_terminated, silent>>
    BY <1>5 DEF Rate!Answer
  <2>2. Roomy(waiting, s, c) => Roomy(Tail(waiting), s, c)
    BY <1>1, <2>1, RoomyAnswer
  <2> QED BY <2>1, <2>2 DEF PaceInv
<1>6. CASE Rate!Tick
  <2>1. /\ sleep' = [t \in Rate!Thread |-> IF sleep[t] > 0 THEN sleep[t] - 1 ELSE 0]
        /\ recent' = [t \in Rate!Thread |-> Rate!InMinute(recent[t])]
        /\ UNCHANGED <<silent, rate_terminated>>
        /\ ~silent => /\ waiting' = Rate!Older(waiting)
                      /\ \A i \in DOMAIN waiting : waiting[i] < AnswerTime
    BY <1>6 DEF Rate!Tick
  <2>2. sleep' \in [Rate!Thread -> Nat] /\ DOMAIN recent' = Rate!Thread
    BY <2>1 DEF PaceInv
  <2>3. /\ sleep'["subscriber"] = IF s > 0 THEN s - 1 ELSE 0
        /\ sleep'["client"] = IF c > 0 THEN c - 1 ELSE 0
        /\ recent'["subscriber"] = Rate!InMinute(recent["subscriber"])
    BY <1>1, <2>1
  <2>4. Spaced(recent'["subscriber"], sleep'["subscriber"])
    BY <1>1, <2>3, SpacedTick DEF PaceInv
  <2>5. ~silent => Roomy(waiting', sleep'["subscriber"], sleep'["client"])
    <3> SUFFICES ASSUME ~silent PROVE Roomy(waiting', sleep'["subscriber"], sleep'["client"])
      OBVIOUS
    <3>1. Roomy(waiting, s, c)
      BY DEF PaceInv
    <3> QED BY <1>1, <2>1, <2>3, <3>1, RoomyTick
  <2> QED BY <2>1, <2>2, <2>4, <2>5 DEF PaceInv
<1> QED BY <1>2, <1>3, <1>4, <1>5, <1>6 DEF Rate!Next

(* The subscriber keeps to the limit in every minute, and add() throws     *)
(* only if the server has fallen silent, for any number of endpoints, any  *)
(* limit, and any ring with room for the time the server takes to answer.  *)
THEOREM PaceIsEnough == ASSUME RoomForAnswers PROVE ProgramSpec => []PaceSuffices
<1>1. ProgramInit => PaceInv
  BY PaceInitially DEF ProgramInit
<1>2. PaceInv /\ [ProgramNext]_program_vars => PaceInv'
  <2>1. [ProgramNext]_program_vars => [Rate!Next]_rate_vars
    BY DEF ProgramNext, Threads, program_vars
  <2> QED BY <2>1, PaceKept
<1>3. PaceInv => PaceSuffices
  <2> SUFFICES ASSUME PaceInv PROVE PaceSuffices
    OBVIOUS
  <2> DEFINE r == recent["subscriber"]
  <2>1. r \in Seq(0 .. Minute - 1) /\ Len(r) \in Nat /\ Minute \in Nat \ {0}
    BY RateAssumption DEF PaceInv, Spaced, Rate!RequestRateAssumption
  <2>2. \A i \in 1 .. Len(r) : r[i] >= Len(r) - i + (IF sleep["subscriber"] = 0 THEN 1 ELSE 0)
    BY DEF PaceInv, Spaced
  <2>3. Len(r) <= Minute
    <3> HIDE DEF r
    <3> SUFFICES ASSUME Len(r) > Minute PROVE FALSE
      BY <2>1
    <3>1. 1 \in 1 .. Len(r) /\ r[1] \in 0 .. Minute - 1
      BY <2>1
    <3>2. r[1] >= Len(r) - 1
      BY <2>1, <2>2, <3>1
    <3> QED BY <2>1, <3>1, <3>2
  <2>4. rate_terminated => silent
    BY DEF PaceInv
  <2> QED BY <2>3, <2>4
       DEF PaceSuffices, Rate!SubscriberWithinLimit, Rate!OverflowTakesSilence, Rate!Limit
<1> QED BY <1>1, <1>2, <1>3, PTL DEF ProgramSpec
==============================================================================
