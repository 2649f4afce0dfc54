---------------------------- MODULE MCRestClient ----------------------------
(***************************************************************************)
(* The program around the session, checked in two parts: its threads and   *)
(* their end (RestClient), and the pace of its requests (RequestRate).     *)
(***************************************************************************)
EXTENDS RestClient

CONSTANTS
  Parts,                 (* the parts that are checked *)
  Minute, Slots, AnswerTime

VARIABLES
  part,                  (* the part that runs, the other is at rest *)
  rate_ready, rate_terminated, silent, rate_next, sleep, recent, waiting

Rate == INSTANCE RequestRate WITH
  Endpoints <- Subscribers, mSessionReady <- rate_ready,
  terminated <- rate_terminated, next <- rate_next

rate_vars == <<rate_ready, rate_terminated, silent, rate_next, sleep, recent,
               waiting>>
program_vars == <<part, vars, rate_vars>>

ASSUME RateAssumption == Rate!RequestRateAssumption

ProgramInit == part \in Parts /\ Init /\ Rate!Init

Threads == part = "threads" /\ UNCHANGED <<part, rate_vars>>

ProgramNext ==
  \/ Threads /\ Next
  \/ part = "rate" /\ Rate!Next /\ UNCHANGED <<part, vars>>

(* The fairness of RestClient: every thread that can go on does.           *)
ProgramSpec ==
  /\ ProgramInit /\ [][ProgramNext]_program_vars
  /\ WF_program_vars(Threads /\ Main)
  /\ WF_program_vars(Threads /\ SubscriberTask)
  /\ WF_program_vars(Threads /\ ClientTask)

----------------------------------------------------------------------------
(* The sleep after each request keeps the subscriber to the limit over any *)
(* minute, whichever endpoints it has (rest_client.cpp:38-56,              *)
(* rest_client.hpp:25-27), and, at this pace, a server that answers in     *)
(* AnswerTime leaves the ring room for every request: add() throws only    *)
(* because the server has fallen silent (request_buffer.hpp:50-57).        *)
PaceSuffices == Rate!SubscriberWithinLimit /\ Rate!OverflowTakesSilence
==============================================================================
