----------------------------- MODULE RestClient -----------------------------
(***************************************************************************)
(* The program around one session: the class RestClient, main() and        *)
(* ClientImpl().  Three threads share the session: main, which runs the    *)
(* io_context and destroys everything in the end, the subscriber task and  *)
(* the client task.  What the session does is taken from SessionLife, which *)
(* Session implements.                                                     *)
(*                                                                         *)
(* A thread's step reads or writes one shared variable, so that every      *)
(* check may be out of date when the thread acts on it.  Sleeping takes    *)
(* any time.  mStopSubscriber and mError are set just before mIoc.stop(),  *)
(* and no thread but main can tell that moment from the next: setting and  *)
(* stopping are one step.                                                  *)
(***************************************************************************)
EXTENDS Naturals, Sequences

CONSTANT Subscribers   (* number of endpoints subscribed *)

ASSUME SubscribersAssumption == Subscribers \in Nat

Thread == {"subscriber", "client"}

(* RequestStatus, as far as ClientImpl looks at it.                        *)
Status == {"SessionError", "EndSubscribeRequest"}

VARIABLES
  (* the session, as in SessionLife *)
  started, mSessionReady, mError, stopped, terminated,
  (* RestClient and the threads *)
  mStopSubscriber,
  main,      (* where main is                                              *)
  alive,     (* how many of Objects are not destroyed yet                  *)
  pc,        (* where the other two threads are                            *)
  next,      (* position of the subscriber in mSubscriber                  *)
  status,    (* the status that ended the client, or "none"                *)
  late       (* requests each thread has posted after mIoc.stop()          *)

session == <<started, mSessionReady, mError, stopped, terminated>>
threads == <<pc, next, status, late>>
vars    == <<session, mStopSubscriber, main, alive, threads>>

Life == INSTANCE SessionLife

(* Wrong: the future of the subscriber task is destroyed after the vector  *)
(* the task walks through.                                                 *)
ObjectsFutureEarlier ==
  <<"decoder", "mIoc", "mCtx", "mHost", "mPort", "mSession", "mStopSubscriber",
    "mSignal", "mFutTasks", "mSubscriber", "clientFuture">>

(* main's locals and the members of restClient among them, in the order in *)
(* which they are constructed: they are destroyed from the last to the     *)
(* first.  A future of std::async joins its thread when it is destroyed.   *)
Objects ==
  <<"decoder", "mIoc", "mCtx", "mHost", "mPort", "mSession", "mStopSubscriber",
    "mSignal", "mSubscriber", "mFutTasks", "clientFuture">>

(* The objects a thread refers to as long as it runs.                      *)
Uses(t) ==
  CASE t = "subscriber" -> {"mStopSubscriber", "mSession", "mIoc", "mSubscriber"}
    [] t = "client"     -> {"mStopSubscriber", "mSession", "mIoc"}

Active(t) == pc[t] \notin {"idle", "done"}

Init ==
  /\ Life!Init
  /\ mStopSubscriber = FALSE
  /\ main = "construct"
  /\ alive = Len(Objects)
  /\ pc = [t \in Thread |-> "idle"]
  /\ next = 0
  /\ status = "none"
  /\ late = [t \in Thread |-> 0]

------------------------------------------------------------------------------
(* main.                                                                   *)

(* The constructor of RestClient ends with mSession->Run().                *)
Construct ==
  /\ main = "construct"
  /\ main' = "launchClient"
  /\ Life!Start
  /\ UNCHANGED <<mStopSubscriber, alive, threads>>

LaunchClient ==
  /\ main = "launchClient"
  /\ main' = "launchTasks"
  /\ pc' = [pc EXCEPT !["client"] = "checkError"]
  /\ UNCHANGED <<session, mStopSubscriber, alive, next, status, late>>

LaunchTaskSubscribe ==
  /\ main = "launchTasks"
  /\ main' = "serve"
  /\ pc' = [pc EXCEPT !["subscriber"] = "checkStop"]
  /\ UNCHANGED <<session, mStopSubscriber, alive, next, status, late>>

(* A handler of the session runs in mIoc.run().                            *)
Serve ==
  /\ main = "serve"
  /\ Life!BecomeReady \/ Life!Fail \/ Life!Overflow
  /\ UNCHANGED <<mStopSubscriber, main, alive, threads>>

(* Wrong: the subscriber is told to stop, the io_context is not.           *)
SignalHandlerFlagOnly ==
  /\ main = "serve"
  /\ Life!Running
  /\ mStopSubscriber' = TRUE
  /\ UNCHANGED <<session, main, alive, threads>>

(* SIGINT: its handler runs in mIoc.run() as well.                         *)
SignalHandler ==
  /\ main = "serve"
  /\ mStopSubscriber' = TRUE
  /\ Life!Stop
  /\ UNCHANGED <<main, alive, threads>>

(* The wait for SIGINT keeps mIoc.run() from running out of work: it       *)
(* returns only once stopped.                                              *)
RunReturns ==
  /\ main = "serve"
  /\ stopped
  /\ main' = "waitTasks"
  /\ UNCHANGED <<session, mStopSubscriber, alive, threads>>

(* A callback throws an exception that main() catches: the locals of main  *)
(* are destroyed on the way to the catch clause.                           *)
CallbackThrows ==
  /\ main = "serve"
  /\ Life!Running
  /\ mSessionReady
  /\ main' = "destroy"
  /\ UNCHANGED <<session, mStopSubscriber, alive, threads>>

(* wait_for() returns when the task is done or after a second.             *)
WaitTasks ==
  /\ main = "waitTasks"
  /\ main' = "waitClient"
  /\ UNCHANGED <<session, mStopSubscriber, alive, threads>>

WaitClient ==
  /\ main = "waitClient"
  /\ main' = "destroy"
  /\ UNCHANGED <<session, mStopSubscriber, alive, threads>>

Destroy ==
  /\ main = "destroy"
  /\ alive > 0
  /\ Objects[alive] = "clientFuture" => pc["client"] = "done"
  /\ Objects[alive] = "mFutTasks" => pc["subscriber"] = "done"
  /\ alive' = alive - 1
  /\ UNCHANGED <<session, mStopSubscriber, main, threads>>

Exit ==
  /\ main = "destroy"
  /\ alive = 0
  /\ main' = "exited"
  /\ UNCHANGED <<session, mStopSubscriber, alive, threads>>

------------------------------------------------------------------------------
(* The other two threads.                                                  *)

(* The process ends with main, or at once with an exception no one catches. *)
Gone == terminated \/ main = "exited"

Goto(t, from, to) == ~Gone /\ pc[t] = from /\ pc' = [pc EXCEPT ![t] = to]

(* AsyncRequest() of the session once it has found the session ready.      *)
Post(t) ==
  /\ Goto(t, "post", "pause")
  /\ late' = [late EXCEPT ![t] = IF stopped THEN @ + 1 ELSE @]
  /\ UNCHANGED <<session, mStopSubscriber, main, alive, next, status>>

(* AsyncRequest() of the session looks whether it is ready, and sleeps if  *)
(* it is not.                                                              *)
CheckReady(t, from) ==
  /\ Goto(t, from, IF mSessionReady THEN "post" ELSE "pause")
  /\ UNCHANGED <<session, mStopSubscriber, main, alive, next, status, late>>

(* The task of LaunchTaskSubscribe(): two reads in the condition of its    *)
(* loop, and in the loop one request and one sleep per endpoint, whatever  *)
(* has become of the session meanwhile.                                    *)
SubscriberCheckStop ==
  /\ Goto("subscriber", "checkStop", IF mStopSubscriber THEN "done" ELSE "checkError")
  /\ UNCHANGED <<session, mStopSubscriber, main, alive, next, status, late>>

(* Wrong: the error of the session is not looked at.                       *)
SubscriberIgnoresError ==
  /\ Goto("subscriber", "checkError", "tasks")
  /\ next' = 0
  /\ UNCHANGED <<session, mStopSubscriber, main, alive, status, late>>

SubscriberCheckError ==
  /\ Goto("subscriber", "checkError", IF mError THEN "done" ELSE "tasks")
  /\ next' = 0
  /\ UNCHANGED <<session, mStopSubscriber, main, alive, status, late>>

SubscriberRequest ==
  /\ next < Subscribers
  /\ CheckReady("subscriber", "tasks")

SubscriberPause ==
  /\ Goto("subscriber", "pause", "tasks")
  /\ next' = next + 1
  /\ UNCHANGED <<session, mStopSubscriber, main, alive, status, late>>

SubscriberRepeats ==
  /\ next = Subscribers
  /\ Goto("subscriber", "tasks", "checkStop")
  /\ UNCHANGED <<session, mStopSubscriber, main, alive, next, status, late>>

(* ClientImpl() calls AsyncRequest() of RestClient: two reads, then that   *)
(* of the session.                                                         *)
ClientCheckError ==
  /\ Goto("client", "checkError", IF mError THEN "done" ELSE "checkStop")
  /\ status' = IF mError THEN "SessionError" ELSE status
  /\ UNCHANGED <<session, mStopSubscriber, main, alive, next, late>>

(* Wrong: the client is not told that the program ends.                    *)
ClientIgnoresStop ==
  /\ Goto("client", "checkStop", "checkReady")
  /\ UNCHANGED <<session, mStopSubscriber, main, alive, next, status, late>>

ClientCheckStop ==
  /\ Goto("client", "checkStop", IF mStopSubscriber THEN "done" ELSE "checkReady")
  /\ status' = IF mStopSubscriber THEN "EndSubscribeRequest" ELSE status
  /\ UNCHANGED <<session, mStopSubscriber, main, alive, next, late>>

ClientRequest == CheckReady("client", "checkReady")

ClientPause ==
  /\ Goto("client", "pause", "checkError")
  /\ UNCHANGED <<session, mStopSubscriber, main, alive, next, status, late>>

------------------------------------------------------------------------------
Main ==
  \/ Construct \/ LaunchClient \/ LaunchTaskSubscribe
  \/ RunReturns \/ WaitTasks \/ WaitClient \/ Destroy \/ Exit

SubscriberTask ==
  \/ SubscriberCheckStop \/ SubscriberCheckError \/ SubscriberRequest
  \/ Post("subscriber") \/ SubscriberPause \/ SubscriberRepeats

ClientTask ==
  ClientCheckError \/ ClientCheckStop \/ ClientRequest \/ Post("client") \/ ClientPause

Ended == Gone /\ UNCHANGED vars

Next == Main \/ Serve \/ SignalHandler \/ CallbackThrows \/ SubscriberTask \/ ClientTask \/ Ended

Spec == Init /\ [][Next]_vars

------------------------------------------------------------------------------
(* Type invariant of the program.                                          *)
TypeOK ==
  /\ started \in BOOLEAN
  /\ mSessionReady \in BOOLEAN
  /\ mError \in BOOLEAN
  /\ stopped \in BOOLEAN
  /\ terminated \in BOOLEAN
  /\ mStopSubscriber \in BOOLEAN
  /\ main \in {"construct", "launchClient", "launchTasks", "serve", "waitTasks", "waitClient",
               "destroy", "exited"}
  /\ alive \in 0 .. Len(Objects)
  /\ pc \in [Thread -> {"idle", "checkStop", "checkError", "checkReady", "tasks", "post",
                        "pause", "done"}]
  /\ next \in 0 .. Subscribers
  /\ status \in Status \cup {"none"}
  /\ late \in [Thread -> Nat]

(* RestClient::AsyncRequest and the loop of LaunchTaskSubscribe check for  *)
(* the end before they post, not while.  A stopped session still takes     *)
(* requests that nothing will ever answer, although their status is        *)
(* RequestSent: at most one round of the subscriber and one call of the    *)
(* client.                                                                 *)
LatePostsBounded ==
  /\ late["subscriber"] <= Subscribers
  /\ late["client"] <= 1

(* The futures are joined before anything their tasks refer to is          *)
(* destroyed, even when wait_for() gave up or an exception unwinds main()  *)
(* (rest_client.hpp:51-61, main.cpp:19-31).                                *)
UsesLiveObjects ==
  \A t \in Thread : Active(t) =>
    \A i \in DOMAIN Objects : Objects[i] \in Uses(t) => i <= alive

(* A session ends for one reason, and the client task ends with it:        *)
(* SessionError after a failed operation, EndSubscribeRequest after SIGINT *)
(* (rest_client.cpp AsyncRequest and SignalHandler, session.cpp            *)
(* ErrorHandle).                                                           *)
ClientToldWhy ==
  pc["client"] = "done" =>
    IF status = "SessionError" THEN mError /\ ~mStopSubscriber
                               ELSE mStopSubscriber /\ ~mError

(* Once the io_context is stopped the program ends: both tasks see the     *)
(* reason, and main joins them (rest_client.cpp run, main.cpp:27-31).      *)
EndsAfterStop == stopped ~> main = "exited"
==============================================================================
