------------------------------- MODULE Session -------------------------------
(***************************************************************************)
(* One HTTPS session: classes Session and Handler, the RequestBuffer they  *)
(* share, the io_context that runs their handlers and the peer.            *)
(*                                                                         *)
(* A single thread runs the io_context, so a handler is one atomic step;   *)
(* handlers run in the order in which they were queued.  Any thread may    *)
(* queue one with AsyncRequest, and the reactor queues the completion of   *)
(* an asynchronous operation some time after it was started.               *)
(*                                                                         *)
(* A request is the number of the AsyncRequest call that posted it and     *)
(* stands for the target and the callback of that call.  A response is the *)
(* number of the request it answers, or Stray.                             *)
(***************************************************************************)
EXTENDS RequestRing, FiniteSets

CONSTANTS
  MaxRequests,   (* bound of the model: requests posted                    *)
  MaxStray       (* bound of the model: responses that answer no request   *)

ASSUME SessionAssumption ==
  /\ MaxRequests \in Nat
  /\ MaxStray \in Nat
  /\ Request = 1 .. MaxRequests
  /\ NoRequest = 0

Stray == 0

(* Handlers of the io_context.  ok is the negation of the error_code, n    *)
(* the request executed or written, or the response read.                  *)
HandlerName == {"OnResolve", "OnConnect", "OnHandshake", "OnRead", "OnWrite", "ExecRequest"}
Writing == {"OnWrite", "ExecRequest"}
Handler == [h : Writing, ok : BOOLEAN, n : Request]
           \cup [h : HandlerName \ Writing, ok : BOOLEAN, n : 0 .. MaxRequests]
Completion(h, ok, n) == [h |-> h, ok |-> ok, n |-> n]

(* A callback made: the request it was posted with, the response it got.   *)
Callback == [req : Request \cup {NoRequest}, resp : 0 .. MaxRequests]

SetupOps == {"resolve", "connect", "handshake"}

VARIABLES
  (* Session and Handler *)
  started,        (* Run() has been called                                 *)
  mSessionReady,
  mError,         (* mError holds an error                                 *)
  mRequest,       (* the RequestBuffer                                     *)
  called,         (* callbacks made: request, and the response it was given *)
  accepted,       (* number of AsyncRequest calls that posted a request    *)
  (* io_context and stream *)
  ready,          (* handlers queued, in order                             *)
  stopped,        (* mIoc.stop() has been called                           *)
  terminated,     (* an exception no one catches has left mIoc.run()       *)
  setup,          (* the set-up operation outstanding, or "none"           *)
  expiry,         (* the deadline of the stream: "never" or "set"          *)
  reads,          (* http::async_read operations outstanding               *)
  readTimed,      (* the latest read was started under a deadline          *)
  writes,         (* http::async_write operations not yet handed over      *)
  (* the peer *)
  link,           (* "none", "open" or "closed"                            *)
  sent,           (* number of requests that reached the peer              *)
  atServer,       (* requests the peer has not answered                    *)
  inbound,        (* responses on their way to the client                  *)
  stray           (* number of responses sent that answer no request       *)

clientVars == <<started, mSessionReady, mError, mRequest, called, accepted>>
iocVars    == <<ready, stopped, terminated, setup, expiry, reads, readTimed, writes>>
peerVars   == <<link, sent, atServer, inbound, stray>>
vars       == <<clientVars, iocVars, peerVars>>

Init ==
  /\ started = FALSE
  /\ mSessionReady = FALSE
  /\ mError = FALSE
  /\ mRequest = NewBuffer
  /\ called = <<>>
  /\ accepted = 0
  /\ ready = <<>>
  /\ stopped = FALSE
  /\ terminated = FALSE
  /\ setup = "none"
  /\ expiry = "never"
  /\ reads = 0
  /\ readTimed = FALSE
  /\ writes = <<>>
  /\ link = "none"
  /\ sent = 0
  /\ atServer = <<>>
  /\ inbound = <<>>
  /\ stray = 0

(* The thread in mIoc.run() goes on until stop() or an exception.          *)
Running == ~stopped /\ ~terminated

------------------------------------------------------------------------------
(* Calls made on the session from outside its handlers.                    *)

(* Run(): without a server name no look-up is started and no error kept.   *)
Run ==
  /\ ~started
  /\ started' = TRUE
  /\ setup' \in {"resolve", "none"}
  /\ UNCHANGED <<mSessionReady, mError, mRequest, called, accepted, ready, stopped,
                 terminated, expiry, reads, readTimed, writes, peerVars>>

(* AsyncRequest() once the session is ready; before, it changes nothing.   *)
(* Nothing here asks whether the io_context still runs.                    *)
AsyncRequest ==
  /\ mSessionReady
  /\ ~terminated
  /\ accepted < MaxRequests
  /\ accepted' = accepted + 1
  /\ ready' = Append(ready, Completion("ExecRequest", TRUE, accepted + 1))
  /\ UNCHANGED <<started, mSessionReady, mError, mRequest, called, stopped, terminated,
                 setup, expiry, reads, readTimed, writes, peerVars>>

(* Stop(), which the signal handler calls on the thread of the io_context. *)
Stop ==
  /\ started
  /\ Running
  /\ stopped' = TRUE
  /\ UNCHANGED <<clientVars, ready, terminated, setup, expiry, reads, readTimed, writes, peerVars>>

------------------------------------------------------------------------------
(* Handlers.                                                               *)

(* Wrong: the error is kept and the io_context goes on.                    *)
ErrorHandleGoesOn ==
  /\ mError' = TRUE
  /\ UNCHANGED <<started, mSessionReady, mRequest, called, accepted, stopped, terminated,
                 setup, expiry, reads, readTimed, writes, peerVars>>

(* ErrorHandle(): keep the error, stop the io_context.                     *)
ErrorHandle ==
  /\ mError' = TRUE
  /\ stopped' = TRUE
  /\ UNCHANGED <<started, mSessionReady, mRequest, called, accepted, terminated, setup,
                 expiry, reads, readTimed, writes, peerVars>>

(* Handler::Read() under the deadline e: a stream operation waits on the   *)
(* timer that is set when it starts.                                       *)
Read(e) ==
  /\ reads' = reads + 1
  /\ readTimed' = (e # "never")

(* Handler::Write(): an asynchronous write that refers to the message r.   *)
Write(r) == writes' = Append(writes, r)

(* Wrong: no deadline is set for connect and handshake.                    *)
OnResolveUntimed(hd) ==
  \/ ~hd.ok /\ ErrorHandle
  \/ /\ hd.ok
     /\ setup' = "connect"
     /\ UNCHANGED <<clientVars, stopped, terminated, expiry, reads, readTimed, writes, peerVars>>

OnResolve(hd) ==
  \/ ~hd.ok /\ ErrorHandle
  \/ /\ hd.ok
     /\ expiry' = "set"
     /\ setup' = "connect"
     /\ UNCHANGED <<clientVars, stopped, terminated, reads, readTimed, writes, peerVars>>

OnConnect(hd) ==
  \/ ~hd.ok /\ ErrorHandle
  \/ /\ hd.ok
     /\ setup' = "handshake"
     /\ UNCHANGED <<clientVars, stopped, terminated, expiry, reads, readTimed, writes, peerVars>>

OnHandshake(hd) ==
  \/ ~hd.ok /\ ErrorHandle
  \/ /\ hd.ok
     /\ expiry' = "never"
     /\ mSessionReady' = TRUE
     /\ Read(expiry')
     /\ UNCHANGED <<started, mError, mRequest, called, accepted, stopped, terminated,
                    setup, writes, peerVars>>

(* Wrong: returns without awaiting a response when no request is held.     *)
OnReadReturnsEarly(hd) ==
  \/ ~hd.ok /\ ErrorHandle
  \/ /\ hd.ok
     /\ \/ /\ ~IsEmpty(mRequest)
           /\ called' = Append(called, [req |-> Front(mRequest), resp |-> hd.n])
           /\ mRequest' = Drop(mRequest)
           /\ Read(expiry)
        \/ /\ IsEmpty(mRequest)
           /\ UNCHANGED <<called, mRequest, reads, readTimed>>
     /\ UNCHANGED <<started, mSessionReady, mError, accepted, stopped, terminated,
                    setup, expiry, writes, peerVars>>

(* OnRead(): the oldest request in the buffer, if any, is called back with *)
(* the response just read; then the next response is awaited.              *)
OnRead(hd) ==
  \/ ~hd.ok /\ ErrorHandle
  \/ /\ hd.ok
     /\ \/ /\ ~IsEmpty(mRequest)
           /\ called' = Append(called, [req |-> Front(mRequest), resp |-> hd.n])
           /\ mRequest' = Drop(mRequest)
        \/ /\ IsEmpty(mRequest)
           /\ UNCHANGED <<called, mRequest>>
     /\ Read(expiry)
     /\ UNCHANGED <<started, mSessionReady, mError, accepted, stopped, terminated,
                    setup, expiry, writes, peerVars>>

OnWrite(hd) ==
  \/ ~hd.ok /\ ErrorHandle
  \/ /\ hd.ok
     /\ UNCHANGED <<clientVars, stopped, terminated, setup, expiry, reads, readTimed, writes, peerVars>>

(* ExecRequest(): the message written is the one in the slot add() filled. *)
(* add() on a full buffer throws a std::string, which nothing catches.     *)
ExecRequest(hd) ==
  \/ /\ IsFull(mRequest)
     /\ terminated' = TRUE
     /\ UNCHANGED <<clientVars, stopped, setup, expiry, reads, readTimed, writes, peerVars>>
  \/ /\ ~IsFull(mRequest)
     /\ mRequest' = Add(mRequest, hd.n)
     /\ Write(mRequest'.mRequests[Slot(mRequest.mWritePos)])
     /\ UNCHANGED <<started, mSessionReady, mError, called, accepted, stopped, terminated,
                    setup, expiry, reads, readTimed, peerVars>>

RunHandler ==
  /\ started
  /\ Running
  /\ ready # <<>>
  /\ ready' = Tail(ready)
  /\ LET hd == Head(ready)
     IN \/ hd.h = "OnResolve"   /\ OnResolve(hd)
        \/ hd.h = "OnConnect"   /\ OnConnect(hd)
        \/ hd.h = "OnHandshake" /\ OnHandshake(hd)
        \/ hd.h = "OnRead"      /\ OnRead(hd)
        \/ hd.h = "OnWrite"     /\ OnWrite(hd)
        \/ hd.h = "ExecRequest" /\ ExecRequest(hd)

------------------------------------------------------------------------------
(* Completions, queued by the thread in mIoc.run().                        *)

Complete(h, ok, n) == Running /\ ready' = Append(ready, Completion(h, ok, n))

ResolveDone ==
  /\ setup = "resolve"
  /\ setup' = "none"
  /\ \E ok \in BOOLEAN : Complete("OnResolve", ok, 0)
  /\ UNCHANGED <<clientVars, stopped, terminated, expiry, reads, readTimed, writes, peerVars>>

ConnectDone ==
  /\ setup = "connect"
  /\ setup' = "none"
  /\ \/ link' = "open" /\ Complete("OnConnect", TRUE, 0)
     \/ link' = link   /\ Complete("OnConnect", FALSE, 0)
  /\ UNCHANGED <<clientVars, stopped, terminated, expiry, reads, readTimed, writes,
                 sent, atServer, inbound, stray>>

HandshakeDone ==
  /\ setup = "handshake"
  /\ setup' = "none"
  /\ \/ link = "open" /\ Complete("OnHandshake", TRUE, 0)
     \/ Complete("OnHandshake", FALSE, 0)
  /\ UNCHANGED <<clientVars, stopped, terminated, expiry, reads, readTimed, writes, peerVars>>

(* The deadline passes: the stream closes the socket and the operation     *)
(* that waits on the timer ends with error::timeout.                       *)
SetupTimedOut ==
  /\ expiry = "set"
  /\ \/ setup = "connect"   /\ Complete("OnConnect", FALSE, 0)
     \/ setup = "handshake" /\ Complete("OnHandshake", FALSE, 0)
  /\ setup' = "none"
  /\ link' = "closed"
  /\ UNCHANGED <<clientVars, stopped, terminated, expiry, reads, readTimed, writes,
                 sent, atServer, inbound, stray>>

(* The oldest write has left the client, or failed.  Requests leave in the *)
(* order in which their writes were started: the stream lets a write that  *)
(* overlaps another one wait for it (see README, overlapping writes).      *)
WriteDone ==
  /\ writes # <<>>
  /\ writes' = Tail(writes)
  /\ \/ /\ link = "open"
        /\ sent' = sent + 1
        /\ atServer' = Append(atServer, Head(writes))
        /\ Complete("OnWrite", TRUE, Head(writes))
     \/ /\ link = "closed"
        /\ Complete("OnWrite", FALSE, Head(writes))
        /\ UNCHANGED <<sent, atServer>>
  /\ UNCHANGED <<clientVars, stopped, terminated, setup, expiry, reads, readTimed,
                 link, inbound, stray>>

(* A response has been read, or the connection has ended (a response that  *)
(* cannot be parsed counts as such), or the deadline the read was started  *)
(* under, if any, has passed.                                              *)
ReadDone ==
  /\ reads > 0
  /\ reads' = reads - 1
  /\ \/ /\ inbound # <<>>
        /\ inbound' = Tail(inbound)
        /\ Complete("OnRead", TRUE, Head(inbound))
        /\ UNCHANGED link
     \/ /\ link = "closed" \/ readTimed
        /\ link' = "closed"
        /\ Complete("OnRead", FALSE, 0)
        /\ UNCHANGED inbound
  /\ UNCHANGED <<clientVars, stopped, terminated, setup, expiry, readTimed, writes,
                 sent, atServer, stray>>

------------------------------------------------------------------------------
(* The peer: answers in the order of the requests, as HTTP/1.1 asks of it. *)

ServerAnswers ==
  /\ link = "open"
  /\ atServer # <<>>
  /\ inbound' = Append(inbound, Head(atServer))
  /\ atServer' = Tail(atServer)
  /\ UNCHANGED <<clientVars, iocVars, link, sent, stray>>

(* A response to no request of the client, as "408 Request Timeout" is.    *)
ServerSendsStray ==
  /\ link = "open"
  /\ stray < MaxStray
  /\ stray' = stray + 1
  /\ inbound' = Append(inbound, Stray)
  /\ UNCHANGED <<clientVars, iocVars, link, sent, atServer>>

LinkLost ==
  /\ link = "open"
  /\ link' = "closed"
  /\ UNCHANGED <<clientVars, iocVars, sent, atServer, inbound, stray>>

------------------------------------------------------------------------------
Reactor == ResolveDone \/ ConnectDone \/ HandshakeDone \/ SetupTimedOut
           \/ WriteDone \/ ReadDone

Peer == ServerAnswers \/ ServerSendsStray \/ LinkLost

Next == Run \/ AsyncRequest \/ Stop \/ RunHandler \/ Reactor \/ Peer

Spec == Init /\ [][Next]_vars

(* The thread in mIoc.run() keeps polling and running handlers; a name is  *)
(* looked up or not found; a peer that keeps the connection answers what   *)
(* it has read.  Nothing is assumed of connect and handshake: the deadline *)
(* of the stream ends them.                                                *)
Fairness ==
  /\ WF_vars(RunHandler)
  /\ WF_vars(ResolveDone)
  /\ WF_vars(SetupTimedOut)
  /\ WF_vars(WriteDone)
  /\ WF_vars(ReadDone)
  /\ WF_vars(ServerAnswers)

FairSpec == Spec /\ Fairness

------------------------------------------------------------------------------
(* Type invariant of the session, the positions of its buffer included.    *)
TypeOK ==
  /\ started \in BOOLEAN
  /\ mSessionReady \in BOOLEAN
  /\ mError \in BOOLEAN
  /\ mRequest \in Buffer
  /\ PositionsOK(mRequest)
  /\ called \in Seq(Callback)
  /\ accepted \in 0 .. MaxRequests
  /\ ready \in Seq(Handler)
  /\ stopped \in BOOLEAN
  /\ terminated \in BOOLEAN
  /\ setup \in SetupOps \cup {"none"}
  /\ expiry \in {"never", "set"}
  /\ reads \in Nat
  /\ readTimed \in BOOLEAN
  /\ writes \in Seq(Request)
  /\ link \in {"none", "open", "closed"}
  /\ sent \in Nat
  /\ atServer \in Seq(Request)
  /\ inbound \in Seq(0 .. MaxRequests)
  /\ stray \in 0 .. MaxStray

Queued(h) == {i \in DOMAIN ready : ready[i].h = h}

(* Session::AsyncRequest says RequestSent, posts, and from then on the     *)
(* request is, exactly once and in the order of the calls, in one of three *)
(* places: a handler not yet run, the buffer, a callback made.             *)
RequestsKeepOrder ==
  /\ Len(called) = mRequest.mReadPos
  /\ \A i \in DOMAIN called : called[i].req = i
  /\ \A i \in DOMAIN Window(mRequest) : Window(mRequest)[i] = Len(called) + i
  /\ \A i, j \in Queued("ExecRequest") : i < j => ready[i].n < ready[j].n
  /\ ~terminated =>
       {ready[i].n : i \in Queued("ExecRequest")} = mRequest.mWritePos + 1 .. accepted

(* Handler::OnRead pairs a response with a request only by their order.    *)
(* As long as the peer answers requests and nothing else, a callback is    *)
(* given the response to its own request.                                  *)
OwnResponse ==
  stray = 0 => \A i \in DOMAIN called : called[i].resp = called[i].req

(* A ready session that still runs awaits exactly one response: Read() is  *)
(* called again after every response, and never while one is awaited,      *)
(* which http::async_read forbids (http/read.hpp:750).                     *)
OneReadAtATime ==
  mSessionReady /\ ~mError =>
    \/ reads = 1 /\ Queued("OnRead") = {}
    \/ reads = 0 /\ \E i \in DOMAIN ready : Queued("OnRead") = {i}

(* http::async_write refers to the message in its slot of the buffer until *)
(* OnWrite: add() must not refill the slot before.  That holds only        *)
(* because a peer cannot answer what it has not read.                      *)
WriteOutstanding(n) ==
  \/ \E i \in DOMAIN writes : writes[i] = n
  \/ \E i \in Queued("OnWrite") : ready[i].n = n

SlotHeld ==
  \A n \in Request :
    WriteOutstanding(n) => mRequest.mRequests[Slot(n - 1)] = n

SlotHeldIfNoStray == stray = 0 => SlotHeld

(* OnHandshake lifts the deadline before it awaits the first response, so  *)
(* a quiet session is not ended five seconds after it was ready.           *)
ReadsUntimed == reads > 0 => ~readTimed

(* No request is written to a stream whose handshake has not ended.        *)
WritesFollowHandshake ==
  writes # <<>> \/ sent > 0 => mSessionReady /\ setup = "none"

(* The exception of add() ends the process only when more than mSize calls *)
(* of AsyncRequest wait for their response.                                *)
TerminatesOnlyOnOverflow == terminated => accepted - Len(called) > mSize

(* To the threads that use it, the session is no more than SessionLife: it *)
(* becomes ready once, an error stops it, and a stopped session stays as   *)
(* it is (session.cpp ErrorHandle, OnHandshake, Stop).                     *)
Life == INSTANCE SessionLife

ImplementsLife == Life!Spec

(* A session that looks its peer up becomes ready or ends with an error:   *)
(* connect and handshake share the deadline OnResolve sets.                *)
SetupSettles ==
  setup = "resolve" ~> mSessionReady \/ stopped

(* A request posted is called back, unless the session ends first.         *)
EveryRequestAnswered ==
  \A n \in Request : accepted >= n ~> Len(called) >= n \/ stopped \/ terminated

(* "The program must ensure that the stream performs no other writes until *)
(* this operation completes" (http/write.hpp:673): an http::async_write is *)
(* not started while another one awaits its OnWrite.                       *)
OneWriteAtATime == Len(writes) + Cardinality(Queued("OnWrite")) <= 1
==============================================================================
