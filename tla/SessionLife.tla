----------------------------- MODULE SessionLife -----------------------------
(***************************************************************************)
(* What a Session promises to the threads that use it: the five facts they *)
(* can observe, and the only ways in which these change.  A session        *)
(* becomes ready at most once, never falls back, and once it has stopped   *)
(* or the process is lost nothing of it changes any more; an error always  *)
(* ends it.  Session implements this module, RestClient is built on it.    *)
(***************************************************************************)
VARIABLES
  started,        (* Run() has been called                           *)
  mSessionReady,  (* requests are accepted                           *)
  mError,         (* an operation of the session has failed          *)
  stopped,        (* the io_context has been told to stop            *)
  terminated      (* an exception no one catches has ended the process *)

vars == <<started, mSessionReady, mError, stopped, terminated>>

Init ==
  /\ started = FALSE
  /\ mSessionReady = FALSE
  /\ mError = FALSE
  /\ stopped = FALSE
  /\ terminated = FALSE

Running == started /\ ~stopped /\ ~terminated

Start ==
  /\ ~started
  /\ started' = TRUE
  /\ UNCHANGED <<mSessionReady, mError, stopped, terminated>>

BecomeReady ==
  /\ Running
  /\ ~mSessionReady
  /\ mSessionReady' = TRUE
  /\ UNCHANGED <<started, mError, stopped, terminated>>

Fail ==
  /\ Running
  /\ mError' = TRUE
  /\ stopped' = TRUE
  /\ UNCHANGED <<started, mSessionReady, terminated>>

Stop ==
  /\ Running
  /\ stopped' = TRUE
  /\ UNCHANGED <<started, mSessionReady, mError, terminated>>

(* Only a session that has taken requests can take too many.               *)
Overflow ==
  /\ Running
  /\ mSessionReady
  /\ terminated' = TRUE
  /\ UNCHANGED <<started, mSessionReady, mError, stopped>>

Next == Start \/ BecomeReady \/ Fail \/ Stop \/ Overflow

Spec == Init /\ [][Next]_vars
==============================================================================
