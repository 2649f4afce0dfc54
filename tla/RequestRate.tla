---------------------------- MODULE RequestRate ----------------------------
(***************************************************************************)
(* How fast the subscriber task and the client task post requests, and     *)
(* what that rate does to a server with a limit and to the ring of         *)
(* requests.  Nothing counts requests: all the program does about the      *)
(* limit is to sleep after each of them.  Time passes in ticks of          *)
(* cTimeoutMs.  A sleep lasts for at least its time and for any time more. *)
(***************************************************************************)
EXTENDS Integers, Sequences

CONSTANTS
  Endpoints,    (* number of endpoints subscribed                          *)
  Minute,       (* ticks in a minute, and so the limit of requests in it   *)
  Slots,        (* mSize of the ring of requests                           *)
  AnswerTime    (* ticks a server that is not silent takes to answer       *)

RequestRateAssumption ==
  {Endpoints, Minute, Slots, AnswerTime} \subseteq Nat \ {0}

Thread == {"subscriber", "client"}

VARIABLES
  mSessionReady,
  terminated,   (* add() has thrown                                        *)
  silent,       (* the server has stopped answering                        *)
  next,         (* position of the subscriber in mSubscriber               *)
  sleep,        (* ticks each thread still sleeps at least                 *)
  recent,       (* ages of the requests each thread posted in this minute  *)
  waiting       (* ages of the requests in the ring                        *)

vars == <<mSessionReady, terminated, silent, next, sleep, recent, waiting>>

(* cTimeoutMs is the time between two requests at the limit; the client    *)
(* sleeps for a second, and so does AsyncRequest() of a session that is    *)
(* not ready.                                                              *)
Limit  == Minute
Second == 2

Init ==
  /\ mSessionReady = FALSE
  /\ terminated = FALSE
  /\ silent = FALSE
  /\ next = 1
  /\ sleep = [t \in Thread |-> 0]
  /\ recent = [t \in Thread |-> <<>>]
  /\ waiting = <<>>

(* Wrong: one sleep for a round of all endpoints.                          *)
PausePerRound(t) ==
  CASE t = "client"     -> Second
    [] t = "subscriber" -> IF next = Endpoints THEN 1 ELSE 0

(* The sleep after a request.                                              *)
Pause(t) ==
  CASE t = "client"     -> Second
    [] t = "subscriber" -> 1

Awake(t) == ~terminated /\ sleep[t] = 0

Advance(t) == next' = IF t = "client" THEN next ELSE (next % Endpoints) + 1

(* AsyncRequest() before the handshake has ended: a second's sleep of its  *)
(* own, then that of the caller.                                           *)
NotReady(t) ==
  /\ Awake(t)
  /\ ~mSessionReady
  /\ sleep' = [sleep EXCEPT ![t] = Second + Pause(t)]
  /\ Advance(t)
  /\ UNCHANGED <<mSessionReady, terminated, silent, recent, waiting>>

RingFull == Len(waiting) = Slots

(* AsyncRequest() posts, and ExecRequest() puts the request into the ring, *)
(* where add() throws if there is no room.                                 *)
Request(t) ==
  /\ Awake(t)
  /\ mSessionReady
  /\ sleep' = [sleep EXCEPT ![t] = Pause(t)]
  /\ Advance(t)
  /\ recent' = [recent EXCEPT ![t] = Append(@, 0)]
  /\ IF RingFull THEN terminated' = TRUE /\ UNCHANGED waiting
                 ELSE waiting' = Append(waiting, 0) /\ UNCHANGED terminated
  /\ UNCHANGED <<mSessionReady, silent>>

BecomeReady ==
  /\ ~mSessionReady
  /\ mSessionReady' = TRUE
  /\ UNCHANGED <<terminated, silent, next, sleep, recent, waiting>>

(* The server answers and OnRead takes the oldest request from the ring.   *)
Answer ==
  /\ waiting # <<>>
  /\ ~silent
  /\ waiting' = Tail(waiting)
  /\ UNCHANGED <<mSessionReady, terminated, silent, next, sleep, recent>>

(* The server stops answering without closing the connection.              *)
FallSilent ==
  /\ ~silent
  /\ silent' = TRUE
  /\ UNCHANGED <<mSessionReady, terminated, next, sleep, recent, waiting>>

Older(ages) == [i \in DOMAIN ages |-> ages[i] + 1]

(* A tick later those whose minute is over, which come first, are left out.*)
InMinute(ages) ==
  LET over == CHOOSE n \in 0 .. Len(ages) :
                \A i \in DOMAIN ages : ages[i] = Minute - 1 <=> i <= n
  IN SubSeq(Older(ages), over + 1, Len(ages))

(* A silent server's requests need no age any more.                        *)
Tick ==
  /\ ~terminated
  /\ silent \/ \A i \in DOMAIN waiting : waiting[i] < AnswerTime
  /\ sleep' = [t \in Thread |-> IF sleep[t] > 0 THEN sleep[t] - 1 ELSE 0]
  /\ recent' = [t \in Thread |-> InMinute(recent[t])]
  /\ waiting' = IF silent THEN waiting ELSE Older(waiting)
  /\ UNCHANGED <<mSessionReady, terminated, silent, next>>

Ended == terminated /\ UNCHANGED vars

Next ==
  \/ \E t \in Thread : NotReady(t) \/ Request(t)
  \/ BecomeReady \/ Answer \/ FallSilent \/ Tick \/ Ended

Spec == Init /\ [][Next]_vars

------------------------------------------------------------------------------
(* Type invariant.                                                         *)
TypeOK ==
  /\ mSessionReady \in BOOLEAN
  /\ terminated \in BOOLEAN
  /\ silent \in BOOLEAN
  /\ next \in 1 .. Endpoints
  /\ sleep \in [Thread -> 0 .. 2 * Second]
  /\ \A t \in Thread : recent[t] \in Seq(0 .. Minute - 1)
  /\ waiting \in Seq(0 .. AnswerTime)
  /\ Len(waiting) <= Slots

(* The subscriber alone keeps to the limit over any minute, whichever      *)
(* endpoints it has (rest_client.cpp LaunchTaskSubscribe, rest_client.hpp  *)
(* cTimeoutMs).                                                            *)
SubscriberWithinLimit == Len(recent["subscriber"]) <= Limit

(* add() throws only because the server has fallen silent: at this pace a  *)
(* server that answers in AnswerTime leaves the ring room for every        *)
(* request (request_buffer.hpp add, session.cpp ExecRequest).              *)
OverflowTakesSilence == terminated => silent

==============================================================================
