---------------------------- MODULE SessionProofs ----------------------------
(***************************************************************************)
(* The safety properties of Session hold for every size of the buffer and  *)
(* every number of requests and stray responses: its inductive invariant   *)
(* in named parts, each part's proof, what the peer knows of the requests, *)
(* and the properties that follow.                                         *)
(***************************************************************************)
EXTENDS Session, Integers, SequenceTheorems, TLAPS

(* A handler of the set-up chain resolve, connect, handshake.              *)
InSetup(hd) == hd.h \in {"OnResolve", "OnConnect", "OnHandshake"}

(* The set-up operations follow one another, and until the last one has    *)
(* ended well nothing else goes on; after it there is no deadline.         *)
SetupInv ==
  /\ \A i, j \in DOMAIN ready : InSetup(ready[i]) /\ InSetup(ready[j]) => i = j
  /\ setup # "none" => \A i \in DOMAIN ready : ~InSetup(ready[i])
  /\ setup # "none" \/ (\E i \in DOMAIN ready : InSetup(ready[i])) => started /\ ~mSessionReady
  /\ setup \in {"resolve", "connect"} \/ (\E i \in DOMAIN ready : ready[i].h = "OnResolve")
       => link = "none"
  /\ link # "none" \/ mSessionReady => started
  /\ ~mSessionReady =>
       /\ \A i \in DOMAIN ready : InSetup(ready[i])
       /\ reads = 0
       /\ writes = <<>>
       /\ sent = 0
       /\ accepted = 0
       /\ mRequest.mWritePos = 0
  /\ mSessionReady => expiry = "never"
  /\ ~readTimed
  /\ mError => stopped

(* A ready session awaits one response, or has one to look at.             *)
ReadInv ==
  mSessionReady /\ ~mError =>
    \/ reads = 1 /\ \A i \in DOMAIN ready : ready[i].h # "OnRead"
    \/ /\ reads = 0
       /\ \E i \in DOMAIN ready :
            \A j \in DOMAIN ready : ready[j].h = "OnRead" <=> j = i

(* Request n occupies position n - 1: called back below mReadPos, in its   *)
(* slot below mWritePos, in a queued handler from there on.                *)
OrderInv ==
  /\ Len(called) = mRequest.mReadPos
  /\ \A i \in DOMAIN called : called[i].req = i
  /\ \A p \in mRequest.mReadPos .. mRequest.mWritePos - 1 :
       mRequest.mRequests[Slot(p)] = p + 1
  /\ mRequest.mWritePos <= accepted
  /\ \A i \in DOMAIN ready : ready[i].h = "ExecRequest" =>
       ready[i].n \in mRequest.mWritePos + 1 .. accepted
  /\ \A i, j \in DOMAIN ready :
       ready[i].h = "ExecRequest" /\ ready[j].h = "ExecRequest" /\ i < j
         => ready[i].n < ready[j].n
  /\ ~terminated =>
       \A k \in mRequest.mWritePos + 1 .. accepted :
         \E i \in DOMAIN ready : ready[i].h = "ExecRequest" /\ ready[i].n = k

(* Requests leave in order, and the peer knows a prefix of them.           *)
SentInv ==
  /\ \A i \in DOMAIN writes : writes[i] = mRequest.mWritePos - Len(writes) + i
  /\ sent <= mRequest.mWritePos - Len(writes)
  /\ link = "open" => sent = mRequest.mWritePos - Len(writes)

(* Without strays, what the peer answered, what is on its way and what was *)
(* called back are consecutive stretches of the requests sent.             *)
Answered == sent - Len(atServer) - Len(inbound)

AnswerInv ==
  /\ \A i \in DOMAIN atServer : atServer[i] = sent - Len(atServer) + i
  /\ \A i \in DOMAIN inbound : inbound[i] = Answered + i
  /\ \A i \in DOMAIN called : called[i].resp = i
  /\ \A i \in DOMAIN ready : ready[i].h = "OnRead" /\ ready[i].ok =>
       ready[i].n = mRequest.mReadPos + 1 /\ Answered = mRequest.mReadPos + 1
  /\ (\A i \in DOMAIN ready : ready[i].h = "OnRead" => ~ready[i].ok) =>
       Answered = mRequest.mReadPos

(* Without strays, the end of a write is handled before the response to    *)
(* what it wrote.                                                          *)
HeldInv ==
  \A i \in DOMAIN ready : ready[i].h = "OnWrite" =>
    /\ ready[i].n \in mRequest.mReadPos + 1 .. mRequest.mWritePos - Len(writes)
    /\ \A j \in DOMAIN ready :
         ready[j].h = "OnRead" /\ ready[j].ok /\ ready[j].n = ready[i].n => i < j

(* Everything above: each part is inductive only together with the ones    *)
(* before it.                                                              *)
IInv ==
  /\ TypeOK
  /\ SetupInv
  /\ ReadInv
  /\ OrderInv
  /\ SentInv
  /\ stray = 0 => AnswerInv /\ HeldInv
  /\ TerminatesOnlyOnOverflow

------------------------------------------------------------------------------
(* What queueing a handler and taking one do to the queue of the           *)
(* io_context.                                                             *)
LEMMA AppendFacts ==
  ASSUME NEW S, NEW s \in Seq(S), NEW x \in S
  PROVE  /\ Append(s, x) \in Seq(S)
         /\ Len(s) \in Nat
         /\ Len(Append(s, x)) = Len(s) + 1
         /\ DOMAIN s = 1 .. Len(s)
         /\ DOMAIN Append(s, x) = 1 .. Len(s) + 1
         /\ \A i \in 1 .. Len(s) : Append(s, x)[i] = s[i]
         /\ Append(s, x)[Len(s) + 1] = x
  OBVIOUS

(* Elements of a sequence without its first one.                           *)
LEMMA TailFacts ==
  ASSUME NEW S, NEW s \in Seq(S), s # <<>>
  PROVE  /\ Tail(s) \in Seq(S)
         /\ Len(s) \in Nat \ {0}
         /\ Len(Tail(s)) = Len(s) - 1
         /\ DOMAIN s = 1 .. Len(s)
         /\ DOMAIN Tail(s) = 1 .. Len(s) - 1
         /\ \A i \in 1 .. Len(s) - 1 : Tail(s)[i] = s[i + 1]
         /\ Head(s) = s[1]
         /\ Head(s) \in S
  BY HeadTailProperties, LenProperties, EmptySeq

(* A completion is a handler.                                              *)
LEMMA CompletionType ==
  ASSUME NEW h \in HandlerName, NEW ok \in BOOLEAN, NEW n \in 0 .. MaxRequests,
         h \in Writing => n \in Request
  PROVE  /\ Completion(h, ok, n) \in Handler
         /\ Completion(h, ok, n).h = h
         /\ Completion(h, ok, n).ok = ok
         /\ Completion(h, ok, n).n = n
  BY DEF Completion, Handler

------------------------------------------------------------------------------
(* Type correctness.                                                       *)
LEMMA TypeInit == Init => TypeOK
<1>1. 0 \in 0 .. MaxRequests /\ 0 \in 0 .. MaxStray
  BY SessionAssumption
<1>2. \A S : <<>> \in Seq(S)
  BY EmptySeq
<1>3. Init => /\ mRequest \in Buffer /\ PositionsOK(mRequest)
              /\ called \in Seq(Callback) /\ ready \in Seq(Handler) /\ writes \in Seq(Request)
              /\ atServer \in Seq(Request) /\ inbound \in Seq(0 .. MaxRequests)
  BY <1>2, NewBufferFacts DEF Init
<1>4. Init => /\ accepted \in 0 .. MaxRequests /\ stray \in 0 .. MaxStray
              /\ reads \in Nat /\ sent \in Nat
              /\ setup \in SetupOps \cup {"none"} /\ expiry \in {"never", "set"}
              /\ link \in {"none", "open", "closed"}
  BY <1>1 DEF Init
<1>5. Init => /\ started \in BOOLEAN /\ mSessionReady \in BOOLEAN /\ mError \in BOOLEAN
              /\ stopped \in BOOLEAN /\ terminated \in BOOLEAN /\ readTimed \in BOOLEAN
  BY DEF Init
<1>. QED
  BY <1>3, <1>4, <1>5, Zenon DEF TypeOK

(* The completion of a set-up operation, or of a read, queues a handler.   *)
LEMMA TypeComplete ==
  ASSUME TypeOK, NEW h \in HandlerName, NEW ok \in BOOLEAN, NEW n \in 0 .. MaxRequests,
         h \in Writing => n \in Request, Complete(h, ok, n)
  PROVE  ready' \in Seq(Handler)
  BY CompletionType, AppendFacts DEF Complete, TypeOK

(* The completions of the set-up operations keep the types.                *)
LEMMA TypeSetup ==
  ASSUME TypeOK, ResolveDone \/ ConnectDone \/ HandshakeDone \/ SetupTimedOut
  PROVE  TypeOK'
<1>1. /\ 0 \in 0 .. MaxRequests
      /\ \A h \in {"OnResolve", "OnConnect", "OnHandshake"} : h \in HandlerName \ Writing
  BY SessionAssumption DEF HandlerName, Writing
<1>2. PICK h \in {"OnResolve", "OnConnect", "OnHandshake"}, ok \in BOOLEAN : Complete(h, ok, 0)
  BY DEF ResolveDone, ConnectDone, HandshakeDone, SetupTimedOut
<1>3. ready' \in Seq(Handler)
  BY <1>1, <1>2, TypeComplete
<1>4. /\ setup' = "none"
      /\ link' \in {"open", "closed", link}
      /\ UNCHANGED <<clientVars, stopped, terminated, expiry, reads, readTimed, writes,
                     sent, atServer, inbound, stray>>
  BY DEF ResolveDone, ConnectDone, HandshakeDone, SetupTimedOut, peerVars
<1>. QED
  BY <1>3, <1>4 DEF TypeOK, clientVars

(* The end of a write keeps the types.                                     *)
LEMMA TypeWriteDone == ASSUME TypeOK, WriteDone PROVE TypeOK'
<1>1. writes \in Seq(Request) /\ writes # <<>> /\ writes' = Tail(writes)
  BY DEF TypeOK, WriteDone
<1>2. Head(writes) \in Request /\ writes' \in Seq(Request)
  BY <1>1, TailFacts
<1>3. Head(writes) \in 0 .. MaxRequests /\ "OnWrite" \in HandlerName
  BY <1>2, SessionAssumption DEF HandlerName
<1>4. ready' \in Seq(Handler)
  <2>1. PICK ok \in BOOLEAN : Complete("OnWrite", ok, Head(writes))
    BY DEF WriteDone
  <2>. QED
    BY <1>2, <1>3, <2>1, TypeComplete
<1>5. sent' \in Nat /\ atServer' \in Seq(Request)
  <2>1. \/ sent' = sent + 1 /\ atServer' = Append(atServer, Head(writes))
        \/ sent' = sent /\ atServer' = atServer
    BY DEF WriteDone
  <2>2. Append(atServer, Head(writes)) \in Seq(Request) /\ atServer \in Seq(Request)
    BY <1>2, AppendFacts DEF TypeOK
  <2>3. sent + 1 \in Nat /\ sent \in Nat
    BY DEF TypeOK
  <2>. QED
    BY <2>1, <2>2, <2>3
<1>. QED
  BY <1>2, <1>4, <1>5 DEF TypeOK, WriteDone, clientVars

(* The end of a read keeps the types.                                      *)
LEMMA TypeReadDone == ASSUME TypeOK, ReadDone PROVE TypeOK'
<1>1. /\ inbound \in Seq(0 .. MaxRequests)
      /\ inbound # <<>> => /\ Head(inbound) \in 0 .. MaxRequests
                          /\ Tail(inbound) \in Seq(0 .. MaxRequests)
  BY TailFacts DEF TypeOK
<1>2. "OnRead" \in HandlerName \ Writing /\ 0 \in 0 .. MaxRequests
  BY SessionAssumption DEF HandlerName, Writing
<1>3. /\ inbound' \in Seq(0 .. MaxRequests)
      /\ link' \in {"closed", link}
      /\ \E ok \in BOOLEAN, n \in 0 .. MaxRequests : Complete("OnRead", ok, n)
  BY <1>1, <1>2 DEF ReadDone
<1>4. ready' \in Seq(Handler)
  BY <1>2, <1>3, TypeComplete
<1>. QED
  BY <1>3, <1>4 DEF TypeOK, ReadDone, clientVars

(* Every completion keeps the types.                                       *)
LEMMA TypeReactor == ASSUME TypeOK, Reactor PROVE TypeOK'
  BY TypeSetup, TypeWriteDone, TypeReadDone DEF Reactor

(* The peer keeps the types.                                               *)
LEMMA TypePeer == ASSUME TypeOK, Peer PROVE TypeOK'
<1>. USE SessionAssumption DEF TypeOK
<1>1. CASE ServerAnswers
  <2>1. Head(atServer) \in 0 .. MaxRequests /\ atServer' \in Seq(Request)
    BY <1>1, TailFacts DEF ServerAnswers
  <2>2. inbound' \in Seq(0 .. MaxRequests)
    BY <1>1, <2>1, AppendFacts DEF ServerAnswers
  <2>. QED
    BY <1>1, <2>1, <2>2 DEF ServerAnswers, clientVars, iocVars
<1>2. CASE ServerSendsStray
  <2>1. inbound' \in Seq(0 .. MaxRequests)
    BY <1>2, AppendFacts DEF ServerSendsStray, Stray
  <2>. QED
    BY <1>2, <2>1 DEF ServerSendsStray, clientVars, iocVars
<1>3. CASE LinkLost
  BY <1>3 DEF LinkLost, clientVars, iocVars
<1>. QED
  BY <1>1, <1>2, <1>3 DEF Peer

(* Read() keeps the types of what it changes.                              *)
LEMMA ReadType ==
  ASSUME TypeOK, NEW e, Read(e)
  PROVE  reads' \in Nat /\ readTimed' \in BOOLEAN
<1>1. reads' \in Nat
  BY DEF Read, TypeOK
<1>2. readTimed' \in BOOLEAN
  BY Zenon DEF Read
<1>. QED
  BY <1>1, <1>2

(* Every handler keeps the types.                                          *)
LEMMA TypeHandler == ASSUME TypeOK, RunHandler PROVE TypeOK'
<1>. DEFINE hd == Head(ready)
<1>0. /\ hd \in Handler
      /\ ready' \in Seq(Handler)
  BY TailFacts DEF TypeOK, RunHandler
<1>. USE SessionAssumption DEF TypeOK, SetupOps
<1>1. CASE ErrorHandle
  BY <1>0, <1>1 DEF ErrorHandle, peerVars
<1>2. CASE OnResolve(hd) /\ hd.ok
  BY <1>0, <1>2 DEF OnResolve, ErrorHandle, clientVars, peerVars
<1>3. CASE OnConnect(hd) /\ hd.ok
  BY <1>0, <1>3 DEF OnConnect, clientVars, peerVars
<1>4. CASE OnHandshake(hd) /\ hd.ok
  <2>1. reads' \in Nat /\ readTimed' \in BOOLEAN
    BY <1>4, ReadType DEF OnHandshake
  <2>. QED
    BY <1>0, <1>4, <2>1 DEF OnHandshake, peerVars
<1>5. CASE OnRead(hd) /\ hd.ok
  <2>1. /\ called' \in Seq(Callback)
        /\ mRequest' \in Buffer
        /\ PositionsOK(mRequest')
    <3>1. CASE IsEmpty(mRequest)
      BY <1>5, <3>1 DEF OnRead
    <3>2. CASE ~IsEmpty(mRequest)
      <4>1. mRequest' \in Buffer /\ PositionsOK(mRequest')
        BY <1>5, <3>2, DropKeepsBuffer DEF OnRead
      <4>2. [req |-> Front(mRequest), resp |-> hd.n]
              \in Callback
        <5>1. Front(mRequest) \in Request \cup {NoRequest}
          BY SlotInRange DEF Buffer, Front
        <5>2. hd.n \in 0 .. MaxRequests
          BY <1>0 DEF Handler
        <5>. QED
          BY <5>1, <5>2 DEF Callback
      <4>3. called' \in Seq(Callback)
        <5>1. called' = Append(called, [req |-> Front(mRequest), resp |-> hd.n])
          BY <1>5, <3>2 DEF OnRead
        <5>. QED
          BY <4>2, <5>1, AppendFacts
      <4>. QED
        BY <4>1, <4>3
    <3>. QED
      BY <3>1, <3>2
  <2>2. reads' \in Nat /\ readTimed' \in BOOLEAN
    BY <1>5, ReadType DEF OnRead
  <2>. QED
    BY <1>0, <1>5, <2>1, <2>2 DEF OnRead, peerVars
<1>6. CASE OnWrite(hd) /\ hd.ok
  <2>1. UNCHANGED <<clientVars, stopped, terminated, setup, expiry, reads, readTimed, writes, peerVars>>
    BY <1>6 DEF OnWrite
  <2>. QED
    BY <1>0, <2>1 DEF clientVars, peerVars
<1>7. CASE hd.h = "ExecRequest" /\ ExecRequest(hd)
  <2>1. CASE IsFull(mRequest)
    BY <1>0, <1>7, <2>1 DEF ExecRequest, clientVars, peerVars
  <2>2. CASE ~IsFull(mRequest)
    <3>1. hd.n \in Request
      BY <1>0, <1>7 DEF Handler, Writing
    <3>2. /\ mRequest' \in Buffer
          /\ PositionsOK(mRequest')
          /\ mRequest'.mRequests[Slot(mRequest.mWritePos)] = hd.n
      <4>1. mRequest' = Add(mRequest, hd.n)
        BY <1>7, <2>2 DEF ExecRequest
      <4>. QED
        BY <2>2, <3>1, <4>1, AddKeepsBuffer
    <3>3. writes' \in Seq(Request)
      <4>1. writes' = Append(writes, mRequest'.mRequests[Slot(mRequest.mWritePos)])
        BY <1>7, <2>2 DEF ExecRequest, Write
      <4>. QED
        BY <3>1, <3>2, <4>1, AppendFacts
    <3>4. UNCHANGED <<started, mSessionReady, mError, called, accepted, stopped, terminated,
                      setup, expiry, reads, readTimed, peerVars>>
      BY <1>7, <2>2 DEF ExecRequest
    <3>. QED
      BY <1>0, <3>2, <3>3, <3>4 DEF peerVars
  <2>. QED
    BY <2>1, <2>2
<1>8. CASE OnResolve(hd) \/ OnConnect(hd) \/ OnHandshake(hd) \/ OnRead(hd) \/ OnWrite(hd)
  BY <1>1, <1>2, <1>3, <1>4, <1>5, <1>6, <1>8
     DEF OnResolve, OnConnect, OnHandshake, OnRead, OnWrite
<1>. QED
  BY <1>7, <1>8 DEF RunHandler

(* Every step keeps the types.                                             *)
LEMMA TypeStep == ASSUME TypeOK, [Next]_vars PROVE TypeOK'
<1>. USE SessionAssumption DEF TypeOK, SetupOps
<1>1. CASE Run
  BY <1>1 DEF Run, peerVars
<1>2. CASE AsyncRequest
  <2>1. accepted + 1 \in Request /\ accepted' = accepted + 1
    BY <1>2 DEF AsyncRequest
  <2>2. ready' \in Seq(Handler)
    <3>1. Completion("ExecRequest", TRUE, accepted + 1) \in Handler
      <4>. "ExecRequest" \in HandlerName /\ accepted + 1 \in 0 .. MaxRequests
        BY <2>1 DEF HandlerName
      <4>. QED
        BY <2>1, CompletionType
    <3>2. ready' = Append(ready, Completion("ExecRequest", TRUE, accepted + 1))
      BY <1>2 DEF AsyncRequest
    <3>. QED
      BY <3>1, <3>2, AppendFacts
  <2>3. accepted' \in 0 .. MaxRequests
    BY <2>1
  <2>. QED
    BY <1>2, <2>2, <2>3 DEF AsyncRequest, peerVars
<1>3. CASE Stop
  BY <1>3 DEF Stop, clientVars, peerVars
<1>4. CASE UNCHANGED vars
  BY <1>4 DEF vars, clientVars, iocVars, peerVars
<1>. QED
  BY <1>1, <1>2, <1>3, <1>4, TypeHandler, TypeReactor, TypePeer DEF Next

(* Every variable keeps its type and the buffer its shape.                 *)
THEOREM SessionTypeCorrect == Spec => []TypeOK
  BY TypeInit, TypeStep, PTL DEF Spec

------------------------------------------------------------------------------
(* The queue of the io_context before and after a handler is queued.       *)
LEMMA Queueing ==
  ASSUME TypeOK, NEW h \in HandlerName, NEW ok \in BOOLEAN, NEW n,
         ready' = Append(ready, Completion(h, ok, n))
  PROVE  /\ Len(ready) \in Nat
         /\ DOMAIN ready = 1 .. Len(ready)
         /\ DOMAIN ready' = 1 .. Len(ready) + 1
         /\ \A i \in DOMAIN ready : ready'[i] = ready[i]
         /\ ready'[Len(ready) + 1].h = h
         /\ ready'[Len(ready) + 1].ok = ok
         /\ ready'[Len(ready) + 1].n = n
  BY DEF Completion, TypeOK

(* The queue before and after the first handler is taken from it.          *)
LEMMA Taking ==
  ASSUME TypeOK, ready # <<>>, ready' = Tail(ready)
  PROVE  /\ Len(ready) \in Nat \ {0}
         /\ DOMAIN ready = 1 .. Len(ready)
         /\ DOMAIN ready' = 1 .. Len(ready) - 1
         /\ \A i \in DOMAIN ready' : ready'[i] = ready[i + 1] /\ i + 1 \in DOMAIN ready
         /\ 1 \in DOMAIN ready
         /\ Head(ready) = ready[1]
         /\ ready[1] \in Handler
<1>1. ready \in Seq(Handler)
  BY DEF TypeOK
<1>. QED
  BY <1>1, TailFacts

(* What the handlers do, by name and outcome.                              *)
LEMMA HandlerCases ==
  ASSUME RunHandler
  PROVE  LET hd == Head(ready)
         IN  \/ hd.h \in HandlerName \ {"ExecRequest"} /\ ~hd.ok /\ ErrorHandle /\ UNCHANGED peerVars
             \/ hd.h = "OnResolve" /\ hd.ok /\ OnResolve(hd)
             \/ hd.h = "OnConnect" /\ hd.ok /\ OnConnect(hd)
             \/ hd.h = "OnHandshake" /\ hd.ok /\ OnHandshake(hd)
             \/ hd.h = "OnRead" /\ hd.ok /\ OnRead(hd)
             \/ hd.h = "OnWrite" /\ hd.ok /\ OnWrite(hd)
             \/ hd.h = "ExecRequest" /\ ExecRequest(hd)
  BY DEF RunHandler, OnResolve, OnConnect, OnHandshake, OnRead, OnWrite, ErrorHandle, HandlerName

------------------------------------------------------------------------------
(* Set-up.                                                                 *)
LEMMA SetupInit == Init => SetupInv
  BY NewBufferFacts DEF Init, SetupInv, NewBuffer

(* Every handler keeps the order of the set-up.                            *)
LEMMA SetupHandler == ASSUME TypeOK, SetupInv, RunHandler PROVE SetupInv'
<1>. DEFINE hd == Head(ready)
<1>0. /\ DOMAIN ready = 1 .. Len(ready)
      /\ DOMAIN ready' = 1 .. Len(ready) - 1
      /\ Len(ready) \in Nat \ {0}
      /\ \A i \in DOMAIN ready' : ready'[i] = ready[i + 1] /\ i + 1 \in DOMAIN ready
      /\ 1 \in DOMAIN ready
      /\ hd = ready[1]
  BY Taking DEF RunHandler
<1>1. /\ Running
      /\ started
  BY DEF RunHandler
<1>2. CASE ErrorHandle /\ UNCHANGED peerVars
  BY <1>0, <1>2 DEF SetupInv, ErrorHandle, peerVars
<1>3. CASE hd.h = "OnResolve" /\ hd.ok /\ OnResolve(hd)
  BY <1>0, <1>3 DEF SetupInv, InSetup, OnResolve, clientVars, peerVars
<1>4. CASE hd.h = "OnConnect" /\ hd.ok /\ OnConnect(hd)
  BY <1>0, <1>4 DEF SetupInv, InSetup, OnConnect, clientVars, peerVars
<1>5. CASE hd.h = "OnHandshake" /\ hd.ok /\ OnHandshake(hd)
  <2>1. /\ expiry' = "never"
        /\ mSessionReady'
        /\ ~readTimed'
        /\ UNCHANGED <<started, mError, stopped, setup, link>>
    BY <1>5 DEF OnHandshake, Read, peerVars
  <2>2. \A i \in DOMAIN ready' : ~InSetup(ready'[i])
    BY <1>0, <1>5 DEF SetupInv, InSetup
  <2>3. setup = "none"
    BY <1>0, <1>5 DEF SetupInv, InSetup
  <2>. QED
    BY <1>1, <2>1, <2>2, <2>3 DEF SetupInv, InSetup
<1>6. CASE hd.h = "OnRead" /\ hd.ok /\ OnRead(hd)
  <2>1. mRequest'.mWritePos = mRequest.mWritePos
    BY <1>6 DEF OnRead, Drop, TypeOK, Buffer
  <2>2. /\ mSessionReady
        /\ setup = "none"
        /\ expiry = "never"
        /\ \A i \in DOMAIN ready : ~InSetup(ready[i])
    BY <1>0, <1>6 DEF SetupInv, InSetup
  <2>3. /\ ~readTimed'
        /\ UNCHANGED <<started, mSessionReady, mError, stopped, setup, expiry, link>>
    BY <1>6, <2>2 DEF OnRead, Read, peerVars
  <2>. QED
    BY <1>0, <2>2, <2>3 DEF SetupInv, InSetup
<1>7. CASE hd.h = "OnWrite" /\ hd.ok /\ OnWrite(hd)
  BY <1>0, <1>7 DEF SetupInv, InSetup, OnWrite, clientVars, peerVars
<1>8. CASE hd.h = "ExecRequest" /\ ExecRequest(hd)
  BY <1>0, <1>8 DEF SetupInv, InSetup, ExecRequest, clientVars, peerVars
<1>. QED
  BY <1>2, <1>3, <1>4, <1>5, <1>6, <1>7, <1>8, HandlerCases

(* The end of a set-up operation queues one handler of the chain.          *)
LEMMA SetupCompletion ==
  ASSUME TypeOK, SetupInv, ResolveDone \/ ConnectDone \/ HandshakeDone \/ SetupTimedOut
  PROVE  SetupInv'
<1>1. PICK h \in {"OnResolve", "OnConnect", "OnHandshake"}, ok \in BOOLEAN :
        /\ ready' = Append(ready, Completion(h, ok, 0))
        /\ h = "OnResolve" => setup = "resolve" /\ link' = link
  BY DEF ResolveDone, ConnectDone, HandshakeDone, SetupTimedOut, Complete, peerVars
<1>2. /\ setup # "none"
      /\ setup' = "none"
      /\ UNCHANGED <<clientVars, stopped, expiry, reads, readTimed, writes, sent>>
  BY DEF ResolveDone, ConnectDone, HandshakeDone, SetupTimedOut, peerVars
<1>3. /\ Len(ready) \in Nat
      /\ DOMAIN ready = 1 .. Len(ready)
      /\ DOMAIN ready' = 1 .. Len(ready) + 1
      /\ \A i \in DOMAIN ready : ready'[i] = ready[i] /\ ~InSetup(ready'[i])
      /\ ready'[Len(ready) + 1].h = h
      /\ InSetup(ready'[Len(ready) + 1])
  BY <1>1, <1>2, Queueing DEF HandlerName, SetupInv, InSetup
<1>4. /\ \A i, j \in DOMAIN ready' : InSetup(ready'[i]) /\ InSetup(ready'[j]) => i = j
      /\ started' /\ ~mSessionReady'
      /\ \A i \in DOMAIN ready' : InSetup(ready'[i])
  BY <1>2, <1>3 DEF SetupInv, clientVars
<1>5. (\E i \in DOMAIN ready' : ready'[i].h = "OnResolve") => link' = "none"
  BY <1>1, <1>2, <1>3 DEF SetupInv, InSetup
<1>. QED
  BY <1>2, <1>4, <1>5 DEF SetupInv, clientVars

(* Every completion keeps the order of the set-up.                         *)
LEMMA SetupReactor == ASSUME TypeOK, SetupInv, Reactor PROVE SetupInv'
<1>1. CASE WriteDone
  <2>1. /\ mSessionReady
        /\ setup = "none"
        /\ \A i \in DOMAIN ready : ~InSetup(ready[i])
    BY <1>1 DEF WriteDone, SetupInv
  <2>2. PICK ok \in BOOLEAN : ready' = Append(ready, Completion("OnWrite", ok, Head(writes)))
    BY <1>1 DEF WriteDone, Complete
  <2>3. \A i \in DOMAIN ready' : ~InSetup(ready'[i])
    BY <2>1, <2>2, Queueing DEF HandlerName, InSetup
  <2>4. UNCHANGED <<clientVars, stopped, setup, expiry, readTimed, link>>
    BY <1>1 DEF WriteDone
  <2>. QED
    BY <2>1, <2>3, <2>4 DEF SetupInv, InSetup, clientVars
<1>2. CASE ReadDone
  <2>1. /\ mSessionReady
        /\ setup = "none"
        /\ \A i \in DOMAIN ready : ~InSetup(ready[i])
    BY <1>2 DEF ReadDone, SetupInv, TypeOK
  <2>2. PICK ok \in BOOLEAN, n \in {0, Head(inbound)} :
          ready' = Append(ready, Completion("OnRead", ok, n))
    BY <1>2 DEF ReadDone, Complete
  <2>3. \A i \in DOMAIN ready' : ~InSetup(ready'[i])
    BY <2>1, <2>2, Queueing DEF HandlerName, InSetup
  <2>4. UNCHANGED <<clientVars, stopped, setup, expiry, readTimed>>
    BY <1>2 DEF ReadDone
  <2>. QED
    BY <2>1, <2>3, <2>4 DEF SetupInv, InSetup, clientVars
<1>. QED
  BY <1>1, <1>2, SetupCompletion DEF Reactor

(* Every step keeps the order of the set-up.                               *)
LEMMA SetupStep == ASSUME TypeOK, SetupInv, [Next]_vars PROVE SetupInv'
<1>1. CASE Run
  BY <1>1 DEF Run, SetupInv, peerVars
<1>2. CASE AsyncRequest
  <2>1. /\ mSessionReady
        /\ setup = "none"
        /\ \A i \in DOMAIN ready : ~InSetup(ready[i])
    BY <1>2 DEF AsyncRequest, SetupInv
  <2>2. PICK ok \in BOOLEAN : ready' = Append(ready, Completion("ExecRequest", ok, accepted + 1))
    BY <1>2 DEF AsyncRequest
  <2>3. \A i \in DOMAIN ready' : ~InSetup(ready'[i])
    BY <2>1, <2>2, Queueing DEF HandlerName, InSetup
  <2>. QED
    BY <1>2, <2>1, <2>3 DEF AsyncRequest, SetupInv, InSetup, peerVars
<1>3. CASE Stop
  BY <1>3 DEF Stop, SetupInv, clientVars, peerVars
<1>4. CASE Peer
  BY <1>4 DEF Peer, ServerAnswers, ServerSendsStray, LinkLost, SetupInv, clientVars, iocVars
<1>5. CASE UNCHANGED vars
  BY <1>5 DEF vars, SetupInv, clientVars, iocVars, peerVars
<1>. QED
  BY <1>1, <1>2, <1>3, <1>4, <1>5, SetupHandler, SetupReactor DEF Next

------------------------------------------------------------------------------
(* Reading.                                                                *)
LEMMA ReadHandler == ASSUME TypeOK, SetupInv, ReadInv, RunHandler PROVE ReadInv'
<1>. DEFINE hd == Head(ready)
<1>0. /\ DOMAIN ready = 1 .. Len(ready)
      /\ DOMAIN ready' = 1 .. Len(ready) - 1
      /\ Len(ready) \in Nat \ {0}
      /\ \A i \in DOMAIN ready' : ready'[i] = ready[i + 1] /\ i + 1 \in DOMAIN ready
      /\ 1 \in DOMAIN ready
      /\ hd = ready[1]
  BY Taking DEF RunHandler
<1>1. ~mError
  BY DEF RunHandler, Running, SetupInv
<1>2. CASE ErrorHandle
  BY <1>2 DEF ReadInv, ErrorHandle
<1>3. CASE \/ hd.h = "OnResolve" /\ hd.ok /\ OnResolve(hd)
           \/ hd.h = "OnConnect" /\ hd.ok /\ OnConnect(hd)
  <2>1. ~mSessionReady
    BY <1>0, <1>3 DEF SetupInv, InSetup
  <2>2. mSessionReady' = mSessionReady
    BY <1>3 DEF OnResolve, OnConnect, clientVars
  <2>. QED
    BY <2>1, <2>2 DEF ReadInv
<1>4. CASE hd.h = "OnHandshake" /\ hd.ok /\ OnHandshake(hd)
  <2>1. reads' = 1
    BY <1>0, <1>4 DEF OnHandshake, Read, SetupInv, InSetup
  <2>2. \A i \in DOMAIN ready' : ready'[i].h # "OnRead"
    BY <1>0, <1>4 DEF SetupInv, InSetup
  <2>. QED
    BY <2>1, <2>2 DEF ReadInv
<1>5. CASE hd.h = "OnRead" /\ hd.ok /\ OnRead(hd)
  <2>1. mSessionReady
    BY <1>0, <1>5 DEF SetupInv, InSetup
  <2>2. /\ reads = 0
        /\ \A j \in DOMAIN ready : ready[j].h = "OnRead" <=> j = 1
    BY <1>0, <1>1, <1>5, <2>1 DEF ReadInv
  <2>3. reads' = 1
    BY <1>5, <2>2 DEF OnRead, Read
  <2>4. \A i \in DOMAIN ready' : ready'[i].h # "OnRead"
    BY <1>0, <2>2
  <2>. QED
    BY <2>3, <2>4 DEF ReadInv
<1>6. CASE \/ hd.h = "OnWrite" /\ hd.ok /\ OnWrite(hd)
           \/ hd.h = "ExecRequest" /\ ExecRequest(hd)
  <2>1. UNCHANGED <<mSessionReady, mError, reads>>
    BY <1>6 DEF OnWrite, ExecRequest, clientVars
  <2>2. hd.h # "OnRead"
    BY <1>6
  <2>3. ASSUME mSessionReady, reads = 0
        PROVE  \E i \in DOMAIN ready' : \A j \in DOMAIN ready' : ready'[j].h = "OnRead" <=> j = i
    <3>1. PICK i \in DOMAIN ready : \A j \in DOMAIN ready : ready[j].h = "OnRead" <=> j = i
      BY <1>1, <2>3 DEF ReadInv
    <3>2. i - 1 \in DOMAIN ready'
      BY <1>0, <2>2, <3>1
    <3>3. \A j \in DOMAIN ready' : ready'[j].h = "OnRead" <=> j = i - 1
      BY <1>0, <3>1
    <3>. QED
      BY <3>2, <3>3
  <2>4. ASSUME mSessionReady, reads = 1
        PROVE  \A i \in DOMAIN ready' : ready'[i].h # "OnRead"
    BY <1>0, <1>1, <2>4 DEF ReadInv
  <2>. QED
    BY <1>1, <2>1, <2>3, <2>4 DEF ReadInv
<1>. QED
  BY <1>2, <1>3, <1>4, <1>5, <1>6, HandlerCases

(* Queueing a handler other than OnRead leaves the reads as they are.      *)
LEMMA ReadQueueing ==
  ASSUME TypeOK, ReadInv, NEW h \in HandlerName \ {"OnRead"}, NEW ok \in BOOLEAN, NEW n,
         ready' = Append(ready, Completion(h, ok, n)),
         UNCHANGED <<mSessionReady, mError, reads>>
  PROVE  ReadInv'
<1>1. /\ Len(ready) \in Nat
      /\ DOMAIN ready = 1 .. Len(ready)
      /\ DOMAIN ready' = 1 .. Len(ready) + 1
      /\ \A i \in DOMAIN ready : ready'[i] = ready[i]
      /\ ready'[Len(ready) + 1].h # "OnRead"
  BY Queueing
<1>2. ASSUME NEW i \in DOMAIN ready, \A j \in DOMAIN ready : ready[j].h = "OnRead" <=> j = i
      PROVE  \A j \in DOMAIN ready' : ready'[j].h = "OnRead" <=> j = i
  BY <1>1, <1>2
<1>. QED
  BY <1>1, <1>2 DEF ReadInv

(* The end of a read leaves its OnRead as the only one.                    *)
LEMMA ReadReadDone == ASSUME TypeOK, SetupInv, ReadInv, ReadDone PROVE ReadInv'
<1>1. /\ reads > 0
      /\ reads' = reads - 1
      /\ mSessionReady
      /\ ~mError
  <2>1. reads > 0 /\ reads' = reads - 1
    BY DEF ReadDone
  <2>2. Running
    BY DEF ReadDone, Complete
  <2>. QED
    BY <2>1, <2>2 DEF Running, SetupInv, TypeOK
<1>2. reads = 1 /\ \A i \in DOMAIN ready : ready[i].h # "OnRead"
  BY <1>1 DEF ReadInv
<1>3. PICK ok \in BOOLEAN, n \in {0, Head(inbound)} :
          ready' = Append(ready, Completion("OnRead", ok, n))
  BY DEF ReadDone, Complete
<1>4. /\ Len(ready) \in Nat
      /\ DOMAIN ready = 1 .. Len(ready)
      /\ DOMAIN ready' = 1 .. Len(ready) + 1
      /\ \A i \in DOMAIN ready : ready'[i] = ready[i]
      /\ ready'[Len(ready) + 1].h = "OnRead"
  BY <1>3, Queueing DEF HandlerName
<1>5. \A j \in DOMAIN ready' : ready'[j].h = "OnRead" <=> j = Len(ready) + 1
  BY <1>2, <1>4
<1>. QED
  BY <1>1, <1>2, <1>4, <1>5 DEF ReadInv

(* Every step keeps the one read of a ready session.                       *)
LEMMA ReadStep == ASSUME TypeOK, SetupInv, ReadInv, [Next]_vars PROVE ReadInv'
<1>1. CASE AsyncRequest
  <2>1. PICK ok \in BOOLEAN : ready' = Append(ready, Completion("ExecRequest", ok, accepted + 1))
    BY <1>1 DEF AsyncRequest
  <2>. QED
    BY <1>1, <2>1, ReadQueueing DEF AsyncRequest, HandlerName
<1>2. CASE WriteDone
  <2>1. PICK ok \in BOOLEAN : ready' = Append(ready, Completion("OnWrite", ok, Head(writes)))
    BY <1>2 DEF WriteDone, Complete
  <2>. QED
    BY <1>2, <2>1, ReadQueueing DEF WriteDone, HandlerName, clientVars
<1>3. CASE ResolveDone \/ ConnectDone \/ HandshakeDone \/ SetupTimedOut
  <2>1. ~mSessionReady
    BY <1>3 DEF ResolveDone, ConnectDone, HandshakeDone, SetupTimedOut, SetupInv
  <2>2. mSessionReady' = mSessionReady
    BY <1>3 DEF ResolveDone, ConnectDone, HandshakeDone, SetupTimedOut, clientVars
  <2>. QED
    BY <2>1, <2>2 DEF ReadInv
<1>4. CASE Run \/ Stop \/ Peer \/ UNCHANGED vars
  <2>. UNCHANGED <<mSessionReady, mError, reads, ready>>
    BY <1>4 DEF Run, Stop, Peer, ServerAnswers, ServerSendsStray, LinkLost, vars, clientVars, iocVars
  <2>. QED
    BY DEF ReadInv
<1>. QED
  BY <1>1, <1>2, <1>3, <1>4, ReadHandler, ReadReadDone DEF Next, Reactor

------------------------------------------------------------------------------
(* The order of requests.                                                  *)
LEMMA OrderInit == Init => OrderInv
  BY NewBufferFacts DEF Init, OrderInv, NewBuffer

(* Queueing or taking a handler other than ExecRequest leaves the requests *)
(* as they are.                                                            *)
LEMMA OrderQueueing ==
  ASSUME TypeOK, OrderInv, NEW h \in HandlerName \ {"ExecRequest"}, NEW ok \in BOOLEAN, NEW n,
         ready' = Append(ready, Completion(h, ok, n)),
         UNCHANGED <<mRequest, called, accepted, terminated>>
  PROVE  OrderInv'
<1>1. /\ Len(ready) \in Nat
      /\ DOMAIN ready = 1 .. Len(ready)
      /\ DOMAIN ready' = 1 .. Len(ready) + 1
      /\ \A i \in DOMAIN ready : ready'[i] = ready[i]
      /\ ready'[Len(ready) + 1].h # "ExecRequest"
  BY Queueing
<1>2. \A i \in DOMAIN ready' : ready'[i].h = "ExecRequest" => i \in DOMAIN ready /\ ready'[i] = ready[i]
  BY <1>1
<1>3. \A i \in DOMAIN ready : i \in DOMAIN ready'
  BY <1>1
<1>. QED
  BY <1>1, <1>2, <1>3 DEF OrderInv

(* Taking a handler other than ExecRequest leaves the order as it is.      *)
LEMMA OrderTaking ==
  ASSUME TypeOK, OrderInv, ready # <<>>, ready' = Tail(ready), Head(ready).h # "ExecRequest",
         UNCHANGED <<mRequest, called, accepted, terminated>>
  PROVE  OrderInv'
<1>1. /\ DOMAIN ready = 1 .. Len(ready)
      /\ DOMAIN ready' = 1 .. Len(ready) - 1
      /\ Len(ready) \in Nat \ {0}
      /\ \A i \in DOMAIN ready' : ready'[i] = ready[i + 1] /\ i + 1 \in DOMAIN ready
      /\ ready[1].h # "ExecRequest"
  BY Taking
<1>2. \A i \in DOMAIN ready : ready[i].h = "ExecRequest" => i - 1 \in DOMAIN ready' /\ ready'[i - 1] = ready[i]
  BY <1>1
<1>3. /\ \A i \in DOMAIN ready' : ready'[i].h = "ExecRequest" =>
           ready'[i].n \in mRequest.mWritePos + 1 .. accepted
      /\ \A i, j \in DOMAIN ready' :
           ready'[i].h = "ExecRequest" /\ ready'[j].h = "ExecRequest" /\ i < j
             => ready'[i].n < ready'[j].n
  BY <1>1 DEF OrderInv
<1>4. ~terminated =>
        \A k \in mRequest.mWritePos + 1 .. accepted :
          \E i \in DOMAIN ready' : ready'[i].h = "ExecRequest" /\ ready'[i].n = k
  BY <1>2 DEF OrderInv
<1>. QED
  BY <1>3, <1>4 DEF OrderInv

(* A request posted is the last one.                                       *)
LEMMA OrderAsyncRequest == ASSUME TypeOK, OrderInv, AsyncRequest PROVE OrderInv'
<1>1. PICK ok \in BOOLEAN : ready' = Append(ready, Completion("ExecRequest", ok, accepted + 1))
  BY DEF AsyncRequest
<1>2. /\ Len(ready) \in Nat
      /\ DOMAIN ready = 1 .. Len(ready)
      /\ DOMAIN ready' = 1 .. Len(ready) + 1
      /\ \A i \in DOMAIN ready : ready'[i] = ready[i] /\ i \in DOMAIN ready'
      /\ ready'[Len(ready) + 1].h = "ExecRequest"
      /\ ready'[Len(ready) + 1].n = accepted + 1
  BY <1>1, Queueing DEF HandlerName
<1>3. /\ accepted' = accepted + 1
      /\ UNCHANGED <<mRequest, called, terminated>>
  BY DEF AsyncRequest
<1>4. accepted \in Nat /\ mRequest.mWritePos \in Nat
  BY SessionAssumption DEF TypeOK, Buffer
<1>5. \A i \in DOMAIN ready' : ready'[i].h = "ExecRequest" =>
        ready'[i].n \in mRequest.mWritePos + 1 .. accepted + 1
  BY <1>2, <1>4 DEF OrderInv
<1>6. ASSUME NEW i \in DOMAIN ready', NEW j \in DOMAIN ready', i < j,
             ready'[i].h = "ExecRequest", ready'[j].h = "ExecRequest"
      PROVE  ready'[i].n < ready'[j].n
  <2>1. i \in DOMAIN ready /\ ready'[i] = ready[i]
    BY <1>2, <1>6
  <2>2. CASE j \in DOMAIN ready
    BY <1>2, <1>6, <2>1, <2>2 DEF OrderInv
  <2>3. CASE j = Len(ready) + 1
    <3>1. ready[i].n \in mRequest.mWritePos + 1 .. accepted
      BY <1>6, <2>1 DEF OrderInv
    <3>. QED
      BY <1>2, <1>4, <2>1, <2>3, <3>1
  <2>. QED
    BY <1>2, <2>2, <2>3
<1>7. ~terminated =>
        \A k \in mRequest.mWritePos + 1 .. accepted + 1 :
          \E i \in DOMAIN ready' : ready'[i].h = "ExecRequest" /\ ready'[i].n = k
  <2>. SUFFICES ASSUME ~terminated, NEW k \in mRequest.mWritePos + 1 .. accepted + 1
                PROVE  \E i \in DOMAIN ready' : ready'[i].h = "ExecRequest" /\ ready'[i].n = k
    OBVIOUS
  <2>1. CASE k = accepted + 1
    BY <1>2, <2>1
  <2>2. CASE k # accepted + 1
    <3>1. k \in mRequest.mWritePos + 1 .. accepted
      BY <1>4, <2>2
    <3>. QED
      BY <1>2, <3>1 DEF OrderInv
  <2>. QED
    BY <2>1, <2>2
<1>. QED
  BY <1>3, <1>4, <1>5, <1>6, <1>7 DEF OrderInv

(* ExecRequest() executes the oldest request not yet executed.             *)
LEMMA NextRequest ==
  ASSUME TypeOK, OrderInv, ready # <<>>, Head(ready).h = "ExecRequest", ~terminated
  PROVE  /\ Head(ready).n = mRequest.mWritePos + 1
         /\ Head(ready).n <= accepted
<1>1. /\ DOMAIN ready = 1 .. Len(ready)
      /\ 1 \in DOMAIN ready
      /\ Head(ready) = ready[1]
      /\ Len(ready) \in Nat
  BY TailFacts DEF TypeOK
<1>2. accepted \in Nat /\ mRequest.mWritePos \in Nat
  BY SessionAssumption DEF TypeOK, Buffer
<1>3. ready[1].n \in mRequest.mWritePos + 1 .. accepted
  BY <1>1 DEF OrderInv
<1>4. PICK i \in DOMAIN ready : ready[i].h = "ExecRequest" /\ ready[i].n = mRequest.mWritePos + 1
  BY <1>2, <1>3 DEF OrderInv
<1>5. i # 1 => ready[1].n < ready[i].n
  BY <1>1, <1>4 DEF OrderInv
<1>. QED
  BY <1>1, <1>2, <1>3, <1>4, <1>5

(* A request executed is the next to enter the buffer.                     *)
LEMMA OrderExecRequest ==
  ASSUME TypeOK, OrderInv, RunHandler, Head(ready).h = "ExecRequest", ExecRequest(Head(ready))
  PROVE  OrderInv'
<1>. DEFINE n == Head(ready).n
            w == mRequest.mWritePos
<1>0. /\ DOMAIN ready = 1 .. Len(ready)
      /\ DOMAIN ready' = 1 .. Len(ready) - 1
      /\ Len(ready) \in Nat \ {0}
      /\ \A i \in DOMAIN ready' : ready'[i] = ready[i + 1] /\ i + 1 \in DOMAIN ready
      /\ 1 \in DOMAIN ready
      /\ Head(ready) = ready[1]
  BY Taking DEF RunHandler
<1>1. n = w + 1 /\ n <= accepted /\ ~terminated
  BY NextRequest DEF RunHandler, Running
<1>2. accepted \in Nat /\ w \in Nat /\ mRequest.mReadPos \in Nat /\ mRequest.mReadPos <= w
  BY SessionAssumption DEF TypeOK, Buffer, PositionsOK
<1>3. \A i \in DOMAIN ready' : ready'[i].h = "ExecRequest" =>
        ready'[i].n \in w + 2 .. accepted
  <2>. SUFFICES ASSUME NEW i \in DOMAIN ready', ready'[i].h = "ExecRequest"
                PROVE  ready'[i].n \in w + 2 .. accepted
    OBVIOUS
  <2>1. /\ ready'[i] = ready[i + 1]
        /\ i + 1 \in DOMAIN ready
        /\ 1 < i + 1
    BY <1>0
  <2>2. ready'[i].n \in w + 1 .. accepted
    BY <2>1 DEF OrderInv
  <2>3. w + 1 < ready'[i].n
    BY <1>0, <1>1, <2>1, SMTT(120) DEF OrderInv
  <2>. QED
    BY <1>2, <2>2, <2>3
<1>4. \A i, j \in DOMAIN ready' :
        ready'[i].h = "ExecRequest" /\ ready'[j].h = "ExecRequest" /\ i < j
          => ready'[i].n < ready'[j].n
  BY <1>0, SMTT(120) DEF OrderInv
<1>5. UNCHANGED <<called, accepted>>
  BY DEF ExecRequest, clientVars
<1>6. CASE IsFull(mRequest)
  <2>1. terminated' /\ mRequest' = mRequest
    BY <1>6 DEF ExecRequest, clientVars
  <2>2. \A k \in w + 2 .. accepted : k \in w + 1 .. accepted
    BY <1>2
  <2>. QED
    BY <1>2, <1>3, <1>4, <1>5, <2>1, <2>2 DEF OrderInv
<1>7. CASE ~IsFull(mRequest)
  <2>1. /\ mRequest' = Add(mRequest, n)
        /\ terminated' = terminated
    BY <1>7 DEF ExecRequest
  <2>2. n \in Request
    BY <1>1, <1>2, SessionAssumption DEF TypeOK
  <2>3. /\ mRequest'.mWritePos = w + 1
        /\ mRequest'.mReadPos = mRequest.mReadPos
        /\ mRequest'.mRequests = [mRequest.mRequests EXCEPT ![Slot(w)] = n]
        /\ mRequest'.mRequests[Slot(w)] = n
    BY <1>7, <2>1, <2>2, AddKeepsBuffer DEF TypeOK
  <2>4. ASSUME NEW p \in mRequest.mReadPos .. w
        PROVE  mRequest'.mRequests[Slot(p)] = p + 1
    <3>1. CASE p = w
      BY <1>1, <2>3, <3>1
    <3>2. CASE p # w
      <4>1. p \in Nat /\ p < w /\ w - p < mSize
        BY <1>2, <1>7, <3>2, RingAssumption DEF IsFull
      <4>2. Slot(p) # Slot(w) /\ Slot(p) \in 0 .. mSize - 1
        BY <1>2, <4>1, SlotsDiffer, SlotInRange
      <4>3. mRequest'.mRequests[Slot(p)] = mRequest.mRequests[Slot(p)]
        BY <2>3, <4>2 DEF TypeOK, Buffer
      <4>. QED
        BY <1>2, <4>1, <4>3 DEF OrderInv
    <3>. QED
      BY <3>1, <3>2
  <2>5. ASSUME NEW k \in w + 2 .. accepted
        PROVE  \E i \in DOMAIN ready' : ready'[i].h = "ExecRequest" /\ ready'[i].n = k
    <3>1. k \in w + 1 .. accepted
      BY <1>2
    <3>2. PICK i \in DOMAIN ready : ready[i].h = "ExecRequest" /\ ready[i].n = k
      BY <1>1, <3>1 DEF OrderInv
    <3>3. i # 1
      BY <1>0, <1>1, <1>2, <3>2
    <3>4. i - 1 \in DOMAIN ready' /\ ready'[i - 1] = ready[i]
      BY <1>0, <3>2, <3>3
    <3>. QED
      BY <3>2, <3>4
  <2>6. /\ w + 1 + 1 = w + 2
        /\ w + 1 - 1 = w
        /\ w + 1 <= accepted
    BY <1>1, <1>2
  <2>7. \A p \in mRequest'.mReadPos .. mRequest'.mWritePos - 1 : mRequest'.mRequests[Slot(p)] = p + 1
    BY <1>2, <2>3, <2>4, <2>6
  <2>. QED
    BY <1>3, <1>4, <1>5, <2>1, <2>3, <2>5, <2>6, <2>7 DEF OrderInv
<1>. QED
  BY <1>6, <1>7

(* A request called back is the oldest in the buffer.                      *)
LEMMA OrderOnRead ==
  ASSUME TypeOK, OrderInv, RunHandler, Head(ready).h = "OnRead", Head(ready).ok, OnRead(Head(ready))
  PROVE  OrderInv'
<1>. DEFINE r == mRequest.mReadPos
<1>1. /\ UNCHANGED <<accepted, terminated>>
      /\ ready # <<>>
      /\ ready' = Tail(ready)
  BY DEF OnRead, RunHandler
<1>2. CASE IsEmpty(mRequest)
  <2>1. UNCHANGED <<called, mRequest>>
    BY <1>2 DEF OnRead
  <2>. QED
    BY <1>1, <2>1, OrderTaking
<1>3. CASE ~IsEmpty(mRequest)
  <2>1. /\ DOMAIN ready = 1 .. Len(ready)
        /\ DOMAIN ready' = 1 .. Len(ready) - 1
        /\ Len(ready) \in Nat \ {0}
        /\ \A i \in DOMAIN ready' : ready'[i] = ready[i + 1] /\ i + 1 \in DOMAIN ready
        /\ Head(ready) = ready[1]
    BY <1>1, Taking
  <2>2. /\ mRequest'.mWritePos = mRequest.mWritePos
        /\ mRequest'.mReadPos = r + 1
        /\ mRequest'.mRequests = mRequest.mRequests
    BY <1>3, DropKeepsBuffer DEF OnRead, TypeOK
  <2>3. /\ r \in Nat
        /\ mRequest.mWritePos \in Nat
        /\ r \in r .. mRequest.mWritePos - 1
    BY <1>3 DEF TypeOK, Buffer, IsEmpty
  <2>4. Front(mRequest) = r + 1
    BY <2>3 DEF OrderInv, Front
  <2>5. called' = Append(called, [req |-> r + 1, resp |-> Head(ready).n])
    BY <1>3, <2>4 DEF OnRead
  <2>6. /\ Len(called) = r
        /\ DOMAIN called = 1 .. r
        /\ called \in Seq(Callback)
    BY DEF OrderInv, TypeOK
  <2>7. /\ Len(called') = r + 1
        /\ DOMAIN called' = 1 .. r + 1
        /\ \A i \in 1 .. r : called'[i] = called[i]
        /\ called'[r + 1].req = r + 1
    BY <2>5, <2>6
  <2>8. \A i \in DOMAIN called' : called'[i].req = i
    BY <2>3, <2>6, <2>7 DEF OrderInv
  <2>9. \A i \in DOMAIN ready : ready[i].h = "ExecRequest" => i - 1 \in DOMAIN ready' /\ ready'[i - 1] = ready[i]
    BY <2>1
  <2>10. /\ \A i \in DOMAIN ready' : ready'[i].h = "ExecRequest" =>
              ready'[i].n \in mRequest.mWritePos + 1 .. accepted
         /\ \A i, j \in DOMAIN ready' :
              ready'[i].h = "ExecRequest" /\ ready'[j].h = "ExecRequest" /\ i < j
                => ready'[i].n < ready'[j].n
    BY <2>1 DEF OrderInv
  <2>11. ~terminated =>
           \A k \in mRequest.mWritePos + 1 .. accepted :
             \E i \in DOMAIN ready' : ready'[i].h = "ExecRequest" /\ ready'[i].n = k
    BY <2>9 DEF OrderInv
  <2>12. \A p \in r + 1 .. mRequest.mWritePos - 1 : mRequest.mRequests[Slot(p)] = p + 1
    BY <2>3 DEF OrderInv
  <2>13. mRequest.mWritePos <= accepted
    BY DEF OrderInv
  <2>. QED
    BY <1>1, <2>2, <2>7, <2>8, <2>10, <2>11, <2>12, <2>13 DEF OrderInv
<1>. QED
  BY <1>2, <1>3

(* Every step keeps the requests in their order.                           *)
LEMMA OrderStep == ASSUME TypeOK, OrderInv, [Next]_vars PROVE OrderInv'
<1>1. CASE RunHandler
  <2>1. ready # <<>> /\ ready' = Tail(ready)
    BY <1>1 DEF RunHandler
  <2>2. CASE /\ Head(ready).h # "ExecRequest"
             /\ UNCHANGED <<mRequest, called, accepted, terminated>>
    BY <2>1, <2>2, OrderTaking
  <2>. QED
    BY <1>1, <2>2, HandlerCases, OrderOnRead, OrderExecRequest
       DEF ErrorHandle, OnResolve, OnConnect, OnHandshake, OnWrite, clientVars
<1>2. CASE Reactor
  <2>1. PICK h, ok, n :
          /\ h \in HandlerName \ {"ExecRequest"}
          /\ ok \in BOOLEAN
          /\ ready' = Append(ready, Completion(h, ok, n))
    BY <1>2 DEF Reactor, ResolveDone, ConnectDone, HandshakeDone, SetupTimedOut, WriteDone,
                ReadDone, Complete, HandlerName
  <2>2. UNCHANGED <<mRequest, called, accepted, terminated>>
    BY <1>2 DEF Reactor, ResolveDone, ConnectDone, HandshakeDone, SetupTimedOut, WriteDone,
                ReadDone, clientVars
  <2>. QED
    BY <2>1, <2>2, OrderQueueing
<1>3. CASE Run \/ Stop \/ Peer \/ UNCHANGED vars
  <2>. UNCHANGED <<mRequest, called, accepted, terminated, ready>>
    BY <1>3 DEF Run, Stop, Peer, ServerAnswers, ServerSendsStray, LinkLost, vars, clientVars, iocVars
  <2>. QED
    BY DEF OrderInv
<1>. QED
  BY <1>1, <1>2, <1>3, OrderAsyncRequest DEF Next

------------------------------------------------------------------------------
(* Writing.                                                                *)
LEMMA SentInit == Init => SentInv
  BY NewBufferFacts DEF Init, SentInv, NewBuffer

(* The end of a write moves one request from the writes to the peer.       *)
LEMMA SentWriteDone == ASSUME TypeOK, SentInv, WriteDone PROVE SentInv'
<1>. DEFINE w == mRequest.mWritePos
            l == Len(writes)
<1>1. /\ l \in Nat \ {0}
      /\ Len(writes') = l - 1
      /\ DOMAIN writes = 1 .. l
      /\ DOMAIN writes' = 1 .. l - 1
      /\ \A i \in 1 .. l - 1 : writes'[i] = writes[i + 1]
  BY TailFacts DEF TypeOK, WriteDone
<1>2. w \in Nat /\ sent \in Nat /\ mRequest' = mRequest
  BY DEF TypeOK, Buffer, WriteDone, clientVars
<1>3. \A i \in DOMAIN writes' : writes'[i] = w - (l - 1) + i
  <2>1. \A i \in 1 .. l : writes[i] = w - l + i
    BY <1>1 DEF SentInv
  <2>2. \A i \in 1 .. l - 1 : i + 1 \in 1 .. l /\ w - l + (i + 1) = w - (l - 1) + i
    BY <1>1, <1>2
  <2>. QED
    BY <1>1, <2>1, <2>2
<1>4. /\ sent' <= w - (l - 1)
      /\ link' = "open" => sent' = w - (l - 1)
  <2>1. \/ link = "open" /\ link' = "open" /\ sent' = sent + 1
        \/ link' = "closed" /\ sent' = sent
    BY DEF WriteDone
  <2>2. sent <= w - l /\ (link = "open" => sent = w - l)
    BY DEF SentInv
  <2>3. CASE link = "open" /\ sent' = sent + 1
    BY <1>1, <1>2, <2>2, <2>3
  <2>4. CASE link' = "closed" /\ sent' = sent
    BY <1>1, <1>2, <2>2, <2>4
  <2>. QED
    BY <2>1, <2>3, <2>4
<1>. QED
  BY <1>1, <1>2, <1>3, <1>4 DEF SentInv

(* The request executed is the last of those not yet sent.                 *)
LEMMA SentExecRequest ==
  ASSUME TypeOK, OrderInv, SentInv, RunHandler,
         Head(ready).h = "ExecRequest", ExecRequest(Head(ready))
  PROVE  SentInv'
<1>. DEFINE w == mRequest.mWritePos
            l == Len(writes)
<1>1. CASE IsFull(mRequest)
  <2>. UNCHANGED <<mRequest, writes, sent, link>>
    BY <1>1 DEF ExecRequest, clientVars, peerVars
  <2>. QED
    BY DEF SentInv
<1>2. CASE ~IsFull(mRequest)
  <2>1. /\ Head(ready).n = w + 1
        /\ Head(ready).n <= accepted
    BY NextRequest DEF RunHandler, Running
  <2>2. w \in Nat /\ accepted \in 0 .. MaxRequests /\ writes \in Seq(Request)
    BY DEF TypeOK, Buffer
  <2>3. w + 1 \in Request
    BY <2>1, <2>2, SessionAssumption
  <2>4. mRequest' = Add(mRequest, w + 1)
    BY <1>2, <2>1 DEF ExecRequest
  <2>5. /\ mRequest'.mWritePos = w + 1
        /\ mRequest'.mRequests[Slot(w)] = w + 1
    BY <1>2, <2>3, <2>4, AddKeepsBuffer DEF TypeOK
  <2>6. /\ writes' = Append(writes, w + 1)
        /\ UNCHANGED <<sent, link>>
    BY <1>2, <2>5 DEF ExecRequest, Write, peerVars
  <2>7. /\ l \in Nat
        /\ Len(writes') = l + 1
        /\ DOMAIN writes = 1 .. l
        /\ DOMAIN writes' = 1 .. l + 1
        /\ \A i \in 1 .. l : writes'[i] = writes[i]
        /\ writes'[l + 1] = w + 1
    BY <2>2, <2>3, <2>6, AppendFacts
  <2>8. w \in Nat /\ l \in Nat
    BY <2>2, <2>7
  <2>9. mRequest'.mWritePos - Len(writes') = w - l
    <3>1. mRequest'.mWritePos = w + 1
      BY <2>5
    <3>2. Len(writes') = l + 1
      BY <2>7
    <3>3. \A x, y \in Nat : x + 1 - (y + 1) = x - y
      OBVIOUS
    <3>. QED
      BY <2>8, <3>1, <3>2, <3>3
  <2>10. ASSUME NEW i \in DOMAIN writes'
         PROVE  writes'[i] = w - l + i
    <3>1. i \in 1 .. l \/ i = l + 1
      BY <2>7
    <3>2. CASE i \in 1 .. l
      BY <2>7, <3>2 DEF SentInv
    <3>3. CASE i = l + 1
      <4>1. \A x, y \in Nat : x - y + (y + 1) = x + 1
        OBVIOUS
      <4>2. w - l + (l + 1) = w + 1
        BY <2>8, <4>1
      <4>. QED
        BY <2>7, <3>3, <4>2
    <3>. QED
      BY <3>1, <3>2, <3>3
  <2>. QED
    BY <2>6, <2>9, <2>10 DEF SentInv
<1>. QED
  BY <1>1, <1>2

(* Every step keeps the account of the requests sent.                      *)
LEMMA SentStep == ASSUME TypeOK, SetupInv, OrderInv, SentInv, [Next]_vars PROVE SentInv'
<1>1. CASE /\ mRequest'.mWritePos = mRequest.mWritePos
           /\ UNCHANGED <<writes, sent>>
           /\ link' = "open" => link = "open"
  BY <1>1 DEF SentInv
<1>2. CASE RunHandler
  <2>1. CASE Head(ready).h = "OnRead" /\ Head(ready).ok /\ OnRead(Head(ready))
    BY <1>1, <2>1 DEF OnRead, Drop, TypeOK, Buffer, peerVars
  <2>. QED
    BY <1>1, <1>2, <2>1, HandlerCases, SentExecRequest
       DEF ErrorHandle, OnResolve, OnConnect, OnHandshake, OnWrite, clientVars, peerVars
<1>3. CASE ConnectDone
  <2>1. /\ mRequest.mWritePos = 0
        /\ writes = <<>>
        /\ sent = 0
    BY <1>3 DEF ConnectDone, SetupInv
  <2>2. UNCHANGED <<mRequest, writes, sent>>
    BY <1>3 DEF ConnectDone, clientVars
  <2>. QED
    BY <2>1, <2>2 DEF SentInv
<1>4. CASE ResolveDone \/ HandshakeDone \/ SetupTimedOut \/ ReadDone
  BY <1>1, <1>4 DEF ResolveDone, HandshakeDone, SetupTimedOut, ReadDone, clientVars, peerVars
<1>5. CASE Run \/ AsyncRequest \/ Stop \/ Peer \/ UNCHANGED vars
  BY <1>1, <1>5 DEF Run, AsyncRequest, Stop, Peer, ServerAnswers, ServerSendsStray, LinkLost,
                    vars, clientVars, iocVars, peerVars
<1>. QED
  BY <1>2, <1>3, <1>4, <1>5, SentWriteDone DEF Next, Reactor

------------------------------------------------------------------------------
(* Answers, as long as the peer sends no stray response.                   *)
LEMMA AnswerInit == Init => AnswerInv
<1>1. Init => Answered = 0
  <2>1. Len(<<>>) = 0 /\ 0 - 0 - 0 = 0
    OBVIOUS
  <2>2. Init => Answered = 0 - Len(<<>>) - Len(<<>>)
    BY DEF Init, Answered
  <2>. QED
    BY <2>1, <2>2
<1>. QED
  BY <1>1 DEF Init, AnswerInv, NewBuffer

(* A handler queued or taken that is not OnRead with a response.           *)
LEMMA AnswerQueueing ==
  ASSUME TypeOK, AnswerInv, NEW h \in HandlerName, NEW ok \in BOOLEAN, NEW n,
         h = "OnRead" => ~ok,
         ready' = Append(ready, Completion(h, ok, n)),
         UNCHANGED <<mRequest, called, sent, atServer, inbound>>
  PROVE  AnswerInv'
<1>1. /\ Len(ready) \in Nat
      /\ DOMAIN ready = 1 .. Len(ready)
      /\ DOMAIN ready' = 1 .. Len(ready) + 1
      /\ \A i \in DOMAIN ready : ready'[i] = ready[i] /\ i \in DOMAIN ready'
      /\ ready'[Len(ready) + 1].h = h
      /\ ready'[Len(ready) + 1].ok = ok
  BY Queueing
<1>2. \A i \in DOMAIN ready' :
        ready'[i].h = "OnRead" /\ ready'[i].ok => i \in DOMAIN ready /\ ready'[i] = ready[i]
  BY <1>1
<1>3. Answered' = Answered
  BY DEF Answered
<1>. QED
  BY <1>1, <1>2, <1>3 DEF AnswerInv

(* Taking a handler other than a good OnRead leaves the answers alone.     *)
LEMMA AnswerTaking ==
  ASSUME TypeOK, AnswerInv, ready # <<>>, ready' = Tail(ready),
         Head(ready).h = "OnRead" => ~Head(ready).ok,
         UNCHANGED <<mRequest, called, sent, atServer, inbound>>
  PROVE  AnswerInv'
<1>1. /\ DOMAIN ready = 1 .. Len(ready)
      /\ DOMAIN ready' = 1 .. Len(ready) - 1
      /\ Len(ready) \in Nat \ {0}
      /\ \A i \in DOMAIN ready' : ready'[i] = ready[i + 1] /\ i + 1 \in DOMAIN ready
      /\ ready[1].h = "OnRead" => ~ready[1].ok
  BY Taking
<1>2. \A i \in DOMAIN ready : ready[i].h = "OnRead" /\ ready[i].ok =>
        i - 1 \in DOMAIN ready' /\ ready'[i - 1] = ready[i]
  BY <1>1
<1>3. Answered' = Answered
  BY DEF Answered
<1>4. \A i \in DOMAIN ready' : ready'[i].h = "OnRead" /\ ready'[i].ok =>
        ready'[i].n = mRequest.mReadPos + 1 /\ Answered = mRequest.mReadPos + 1
  BY <1>1 DEF AnswerInv
<1>5. (\A i \in DOMAIN ready' : ready'[i].h = "OnRead" => ~ready'[i].ok) =>
        Answered = mRequest.mReadPos
  BY <1>2 DEF AnswerInv
<1>. QED
  BY <1>3, <1>4, <1>5 DEF AnswerInv

(* An answer moves one request from the peer to the link.                  *)
LEMMA AnswerServerAnswers == ASSUME TypeOK, AnswerInv, ServerAnswers PROVE AnswerInv'
<1>. DEFINE a == Len(atServer)
            b == Len(inbound)
<1>1. /\ a \in Nat \ {0}
      /\ Len(atServer') = a - 1
      /\ DOMAIN atServer = 1 .. a
      /\ DOMAIN atServer' = 1 .. a - 1
      /\ \A i \in 1 .. a - 1 : atServer'[i] = atServer[i + 1]
      /\ Head(atServer) = atServer[1]
      /\ Head(atServer) \in Request
  BY TailFacts DEF TypeOK, ServerAnswers
<1>2. /\ b \in Nat
      /\ Len(inbound') = b + 1
      /\ DOMAIN inbound = 1 .. b
      /\ DOMAIN inbound' = 1 .. b + 1
      /\ \A i \in 1 .. b : inbound'[i] = inbound[i]
      /\ inbound'[b + 1] = atServer[1]
  <2>1. inbound' = Append(inbound, atServer[1]) /\ inbound \in Seq(0 .. MaxRequests)
    BY <1>1 DEF ServerAnswers, TypeOK
  <2>2. atServer[1] \in 0 .. MaxRequests
    BY <1>1, SessionAssumption
  <2>. QED
    BY <2>1, <2>2, AppendFacts
<1>3. sent \in Nat /\ UNCHANGED <<sent, ready, mRequest, called>>
  BY DEF TypeOK, ServerAnswers, clientVars, iocVars
<1>4. Answered = sent - a - b /\ Answered' = sent - (a - 1) - (b + 1)
  BY <1>1, <1>2, <1>3 DEF Answered
<1>5. Answered' = Answered
  BY <1>1, <1>2, <1>3, <1>4
<1>6. /\ \A i \in 1 .. a : atServer[i] = sent - a + i
      /\ \A i \in 1 .. b : inbound[i] = Answered + i
  BY <1>1, <1>2 DEF AnswerInv
<1>7. \A i \in DOMAIN atServer' : atServer'[i] = sent - (a - 1) + i
  <2>1. \A i \in 1 .. a - 1 : i + 1 \in 1 .. a /\ sent - a + (i + 1) = sent - (a - 1) + i
    BY <1>1, <1>3
  <2>. QED
    BY <1>1, <1>6, <2>1
<1>8. \A i \in DOMAIN inbound' : inbound'[i] = Answered + i
  <2>1. inbound'[b + 1] = Answered + (b + 1)
    <3>1. inbound'[b + 1] = sent - a + 1
      BY <1>1, <1>2, <1>6
    <3>2. sent - a - b + (b + 1) = sent - a + 1
      BY <1>1, <1>2, <1>3
    <3>. QED
      BY <1>4, <3>1, <3>2
  <2>2. \A i \in 1 .. b + 1 : i \in 1 .. b \/ i = b + 1
    BY <1>2
  <2>. QED
    BY <1>2, <1>6, <2>1, <2>2
<1>. QED
  BY <1>1, <1>3, <1>5, <1>7, <1>8 DEF AnswerInv

(* A request sent joins those the peer has not answered.                   *)
LEMMA AnswerWriteDone == ASSUME TypeOK, SentInv, AnswerInv, WriteDone PROVE AnswerInv'
<1>. DEFINE a == Len(atServer)
            b == Len(inbound)
<1>1. PICK ok \in BOOLEAN : ready' = Append(ready, Completion("OnWrite", ok, Head(writes)))
  BY DEF WriteDone, Complete
<1>2. UNCHANGED <<mRequest, called, inbound>>
  BY DEF WriteDone, clientVars
<1>3. CASE UNCHANGED <<sent, atServer>>
  BY <1>1, <1>2, <1>3, AnswerQueueing DEF HandlerName
<1>4. CASE /\ link = "open"
           /\ sent' = sent + 1
           /\ atServer' = Append(atServer, Head(writes))
  <2>1. /\ writes # <<>>
        /\ Head(writes) = writes[1]
        /\ Head(writes) \in Request
        /\ Len(writes) \in Nat \ {0}
        /\ DOMAIN writes = 1 .. Len(writes)
    BY TailFacts DEF TypeOK, WriteDone
  <2>2. /\ a \in Nat
        /\ Len(atServer') = a + 1
        /\ DOMAIN atServer = 1 .. a
        /\ DOMAIN atServer' = 1 .. a + 1
        /\ \A i \in 1 .. a : atServer'[i] = atServer[i]
        /\ atServer'[a + 1] = writes[1]
    BY <1>4, <2>1, AppendFacts DEF TypeOK
  <2>3. /\ sent \in Nat
        /\ b \in Nat
        /\ mRequest.mWritePos \in Nat
        /\ sent = mRequest.mWritePos - Len(writes)
    BY <1>4 DEF TypeOK, Buffer, SentInv
  <2>4. writes[1] = sent + 1
    BY <2>1, <2>3 DEF SentInv
  <2>5. Answered' = Answered
    <3>1. Answered' = (sent + 1) - (a + 1) - b
      BY <1>2, <1>4, <2>2 DEF Answered
    <3>2. \A x, y, z \in Nat : (x + 1) - (y + 1) - z = x - y - z
      OBVIOUS
    <3>3. sent \in Nat /\ a \in Nat /\ b \in Nat
      BY <2>2, <2>3
    <3>4. (sent + 1) - (a + 1) - b = sent - a - b
      BY <3>2, <3>3
    <3>. QED
      BY <3>1, <3>4 DEF Answered
  <2>6. \A i \in DOMAIN atServer' : atServer'[i] = sent' - Len(atServer') + i
    <3>1. sent' - Len(atServer') = sent - a
      <4>1. sent' - Len(atServer') = (sent + 1) - (a + 1)
        BY <1>4, <2>2
      <4>2. \A x, y \in Nat : (x + 1) - (y + 1) = x - y
        OBVIOUS
      <4>3. sent \in Nat /\ a \in Nat
        BY <2>2, <2>3
      <4>4. (sent + 1) - (a + 1) = sent - a
        BY <4>2, <4>3
      <4>. QED
        BY <4>1, <4>4
    <3>2. \A i \in 1 .. a : atServer[i] = sent - a + i
      BY <2>2 DEF AnswerInv
    <3>3. sent + 1 = sent - a + (a + 1)
      <4>1. \A x, y \in Nat : x + 1 = x - y + (y + 1)
        OBVIOUS
      <4>. QED
        BY <2>2, <2>3, <4>1
    <3>4. \A i \in 1 .. a + 1 : i \in 1 .. a \/ i = a + 1
      BY <2>2
    <3>. QED
      BY <2>2, <2>4, <3>1, <3>2, <3>3, <3>4
  <2>7. /\ DOMAIN ready = 1 .. Len(ready)
        /\ DOMAIN ready' = 1 .. Len(ready) + 1
        /\ Len(ready) \in Nat
        /\ \A i \in DOMAIN ready : ready'[i] = ready[i] /\ i \in DOMAIN ready'
        /\ ready'[Len(ready) + 1].h = "OnWrite"
    BY <1>1, Queueing DEF HandlerName
  <2>8. \A i \in DOMAIN ready' : ready'[i].h = "OnRead" => i \in DOMAIN ready /\ ready'[i] = ready[i]
    BY <2>7
  <2>. QED
    BY <1>2, <2>5, <2>6, <2>7, <2>8 DEF AnswerInv
<1>. QED
  BY <1>3, <1>4 DEF WriteDone

(* While a response is awaited, none waits to be handled.                  *)
LEMMA NoneQueued ==
  ASSUME TypeOK, SetupInv, ReadInv, ReadDone
  PROVE  \A i \in DOMAIN ready : ready[i].h # "OnRead"
<1>1. reads > 0 /\ mSessionReady
  BY DEF ReadDone, SetupInv, TypeOK
<1>2. Running
  BY DEF ReadDone, Complete
<1>. QED
  BY <1>1, <1>2 DEF Running, ReadInv, SetupInv

(* The response read is the one to the oldest request in the buffer.       *)
LEMMA AnswerReadDone == ASSUME TypeOK, SetupInv, ReadInv, AnswerInv, ReadDone PROVE AnswerInv'
<1>. DEFINE b == Len(inbound)
<1>1. UNCHANGED <<mRequest, called, sent, atServer>>
  BY DEF ReadDone, clientVars
<1>2. CASE inbound' = inbound /\ Complete("OnRead", FALSE, 0)
  <2>1. PICK ok \in BOOLEAN : ~ok /\ ready' = Append(ready, Completion("OnRead", ok, 0))
    BY <1>2 DEF Complete
  <2>. QED
    BY <1>1, <1>2, <2>1, AnswerQueueing DEF HandlerName
<1>3. CASE inbound # <<>> /\ inbound' = Tail(inbound) /\ Complete("OnRead", TRUE, Head(inbound))
  <2>1. /\ b \in Nat \ {0}
        /\ Len(inbound') = b - 1
        /\ DOMAIN inbound = 1 .. b
        /\ DOMAIN inbound' = 1 .. b - 1
        /\ \A i \in 1 .. b - 1 : inbound'[i] = inbound[i + 1]
        /\ Head(inbound) = inbound[1]
    BY <1>3, TailFacts DEF TypeOK
  <2>2. PICK ok \in BOOLEAN : ok /\ ready' = Append(ready, Completion("OnRead", ok, inbound[1]))
    BY <1>3, <2>1 DEF Complete
  <2>3. /\ DOMAIN ready = 1 .. Len(ready)
        /\ DOMAIN ready' = 1 .. Len(ready) + 1
        /\ Len(ready) \in Nat
        /\ \A i \in DOMAIN ready : ready'[i] = ready[i]
        /\ ready'[Len(ready) + 1].h = "OnRead"
        /\ ready'[Len(ready) + 1].ok
        /\ ready'[Len(ready) + 1].n = inbound[1]
    BY <2>2, Queueing DEF HandlerName
  <2>4. /\ sent \in Nat
        /\ Len(atServer) \in Nat
        /\ mRequest.mReadPos \in Nat
    BY DEF TypeOK, Buffer
  <2>5. Answered = mRequest.mReadPos
    BY NoneQueued DEF AnswerInv
  <2>6. Answered' = Answered + 1
    BY <1>1, <2>1, <2>4 DEF Answered
  <2>7. \A i \in 1 .. b : inbound[i] = Answered + i
    BY <2>1 DEF AnswerInv
  <2>8. \A i \in DOMAIN inbound' : inbound'[i] = Answered' + i
    <3>1. \A i \in 1 .. b - 1 : i + 1 \in 1 .. b /\ Answered + (i + 1) = Answered + 1 + i
      <4>. \A i \in 1 .. b - 1 : i + 1 \in 1 .. b
        BY <2>1
      <4>. Answered \in Nat
        BY <2>4, <2>5
      <4>. QED
        OBVIOUS
    <3>. QED
      BY <2>1, <2>6, <2>7, <3>1
  <2>9. inbound[1] = mRequest.mReadPos + 1
    BY <2>1, <2>5, <2>7
  <2>10. \A i \in DOMAIN ready' : ready'[i].h = "OnRead" <=> i = Len(ready) + 1
    BY <2>3, NoneQueued
  <2>. QED
    BY <1>1, <2>3, <2>5, <2>6, <2>8, <2>9, <2>10 DEF AnswerInv
<1>. QED
  BY <1>2, <1>3 DEF ReadDone

(* A response is handled while the request it answers is in the buffer.    *)
LEMMA ResponseHasRequest ==
  ASSUME TypeOK, SetupInv, ReadInv, OrderInv, SentInv, AnswerInv, RunHandler,
         Head(ready).h = "OnRead", Head(ready).ok
  PROVE  /\ ~IsEmpty(mRequest)
         /\ Head(ready).n = mRequest.mReadPos + 1
         /\ Answered = mRequest.mReadPos + 1
         /\ \A i \in DOMAIN ready' : ready'[i].h # "OnRead"
<1>1. /\ DOMAIN ready = 1 .. Len(ready)
      /\ DOMAIN ready' = 1 .. Len(ready) - 1
      /\ Len(ready) \in Nat \ {0}
      /\ \A i \in DOMAIN ready' : ready'[i] = ready[i + 1] /\ i + 1 \in DOMAIN ready
      /\ 1 \in DOMAIN ready
      /\ Head(ready) = ready[1]
  BY Taking DEF RunHandler
<1>2. Head(ready).n = mRequest.mReadPos + 1 /\ Answered = mRequest.mReadPos + 1
  BY <1>1 DEF AnswerInv
<1>3. mSessionReady /\ ~mError
  BY <1>1 DEF SetupInv, InSetup, RunHandler, Running
<1>4. \A j \in DOMAIN ready : ready[j].h = "OnRead" <=> j = 1
  BY <1>1, <1>3 DEF ReadInv
<1>5. \A i \in DOMAIN ready' : ready'[i].h # "OnRead"
  BY <1>1, <1>4
<1>6. /\ mRequest.mReadPos \in Nat /\ mRequest.mWritePos \in Nat
      /\ sent \in Nat /\ Len(atServer) \in Nat /\ Len(inbound) \in Nat /\ Len(writes) \in Nat
  BY DEF TypeOK, Buffer
<1>7. Answered <= sent /\ sent <= mRequest.mWritePos
  BY <1>6 DEF Answered, SentInv
<1>8. ~IsEmpty(mRequest)
  BY <1>2, <1>6, <1>7 DEF IsEmpty
<1>. QED
  BY <1>2, <1>5, <1>8

(* OnRead calls the oldest request back with the response to it.           *)
LEMMA AnswerOnRead ==
  ASSUME TypeOK, SetupInv, ReadInv, OrderInv, SentInv, AnswerInv, RunHandler,
         Head(ready).h = "OnRead", Head(ready).ok, OnRead(Head(ready))
  PROVE  AnswerInv'
<1>. DEFINE r == mRequest.mReadPos
<1>1. called' = Append(called, [req |-> Front(mRequest), resp |-> r + 1])
  BY ResponseHasRequest DEF OnRead
<1>2. mRequest'.mReadPos = r + 1
  BY ResponseHasRequest, DropKeepsBuffer DEF OnRead, TypeOK
<1>3. /\ Len(called) = r
      /\ DOMAIN called = 1 .. r
      /\ called \in Seq(Callback)
      /\ r \in Nat
  BY DEF OrderInv, TypeOK, Buffer
<1>4. /\ DOMAIN called' = 1 .. r + 1
      /\ \A i \in 1 .. r : called'[i] = called[i]
      /\ called'[r + 1].resp = r + 1
  BY <1>1, <1>3
<1>5. \A i \in DOMAIN called' : called'[i].resp = i
  BY <1>3, <1>4 DEF AnswerInv
<1>6. UNCHANGED <<sent, atServer, inbound>>
  BY DEF OnRead, peerVars
<1>7. Answered' = Answered
  BY <1>6 DEF Answered
<1>. QED
  BY <1>2, <1>5, <1>6, <1>7, ResponseHasRequest DEF AnswerInv

(* Every step but a stray response keeps the account of the answers.       *)
LEMMA AnswerStep ==
  ASSUME TypeOK, SetupInv, ReadInv, OrderInv, SentInv, AnswerInv, [Next]_vars, stray' = 0
  PROVE  AnswerInv'
<1>1. CASE RunHandler
  <2>1. ready # <<>> /\ ready' = Tail(ready)
    BY <1>1 DEF RunHandler
  <2>2. CASE /\ Head(ready).h = "OnRead" => ~Head(ready).ok
             /\ UNCHANGED <<mRequest, called, sent, atServer, inbound>>
    BY <2>1, <2>2, AnswerTaking
  <2>3. CASE Head(ready).h = "ExecRequest" /\ ExecRequest(Head(ready))
    <3>1. UNCHANGED <<called, sent, atServer, inbound>>
      BY <2>3 DEF ExecRequest, clientVars, peerVars
    <3>2. mRequest'.mReadPos = mRequest.mReadPos
      BY <2>3 DEF ExecRequest, clientVars, Add
    <3>3. /\ DOMAIN ready = 1 .. Len(ready)
          /\ DOMAIN ready' = 1 .. Len(ready) - 1
          /\ Len(ready) \in Nat \ {0}
          /\ \A i \in DOMAIN ready' : ready'[i] = ready[i + 1] /\ i + 1 \in DOMAIN ready
          /\ ready[1].h # "OnRead"
      BY <2>1, <2>3, Taking
    <3>4. \A i \in DOMAIN ready : ready[i].h = "OnRead" =>
            i - 1 \in DOMAIN ready' /\ ready'[i - 1] = ready[i]
      BY <3>3
    <3>5. Answered' = Answered
      BY <3>1 DEF Answered
    <3>. QED
      BY <3>1, <3>2, <3>3, <3>4, <3>5 DEF AnswerInv
  <2>. QED
    BY <1>1, <2>2, <2>3, HandlerCases, AnswerOnRead
       DEF ErrorHandle, OnResolve, OnConnect, OnHandshake, OnWrite, clientVars, peerVars
<1>2. CASE ResolveDone \/ ConnectDone \/ HandshakeDone \/ SetupTimedOut
  <2>1. PICK h \in {"OnResolve", "OnConnect", "OnHandshake"}, ok \in BOOLEAN :
          ready' = Append(ready, Completion(h, ok, 0))
    BY <1>2 DEF ResolveDone, ConnectDone, HandshakeDone, SetupTimedOut, Complete
  <2>2. UNCHANGED <<mRequest, called, sent, atServer, inbound>>
    BY <1>2 DEF ResolveDone, ConnectDone, HandshakeDone, SetupTimedOut, clientVars, peerVars
  <2>. QED
    BY <2>1, <2>2, AnswerQueueing DEF HandlerName
<1>3. CASE AsyncRequest
  <2>1. PICK ok \in BOOLEAN : ready' = Append(ready, Completion("ExecRequest", ok, accepted + 1))
    BY <1>3 DEF AsyncRequest
  <2>2. UNCHANGED <<mRequest, called, sent, atServer, inbound>>
    BY <1>3 DEF AsyncRequest, peerVars
  <2>. QED
    BY <2>1, <2>2, AnswerQueueing DEF HandlerName
<1>4. CASE ServerSendsStray
  BY <1>4 DEF ServerSendsStray, TypeOK
<1>5. CASE Run \/ Stop \/ LinkLost \/ UNCHANGED vars
  <2>. UNCHANGED <<mRequest, called, ready, sent, atServer, inbound>>
    BY <1>5 DEF Run, Stop, LinkLost, vars, clientVars, iocVars, peerVars
  <2>. QED
    BY DEF AnswerInv, Answered
<1>. QED
  BY <1>1, <1>2, <1>3, <1>4, <1>5, AnswerWriteDone, AnswerReadDone, AnswerServerAnswers
     DEF Next, Reactor, Peer

------------------------------------------------------------------------------
(* Slots stay filled while they are written from.                          *)
LEMMA HeldInit == Init => HeldInv
  BY DEF Init, HeldInv

(* The end of a write is queued before its response can be read.           *)
LEMMA HeldWriteDone ==
  ASSUME TypeOK, SetupInv, ReadInv, SentInv, AnswerInv, HeldInv, WriteDone
  PROVE  HeldInv'
<1>. DEFINE w == mRequest.mWritePos
            r == mRequest.mReadPos
            l == Len(writes)
<1>1. /\ l \in Nat \ {0}
      /\ Len(writes') = l - 1
      /\ DOMAIN writes = 1 .. l
      /\ Head(writes) = writes[1]
  BY TailFacts DEF TypeOK, WriteDone
<1>2. PICK ok \in BOOLEAN : ready' = Append(ready, Completion("OnWrite", ok, writes[1]))
  BY <1>1 DEF WriteDone, Complete
<1>3. /\ DOMAIN ready = 1 .. Len(ready)
      /\ DOMAIN ready' = 1 .. Len(ready) + 1
      /\ Len(ready) \in Nat
      /\ \A i \in DOMAIN ready : ready'[i] = ready[i]
      /\ ready'[Len(ready) + 1].h = "OnWrite"
      /\ ready'[Len(ready) + 1].n = writes[1]
  BY <1>2, Queueing DEF HandlerName
<1>4. /\ w \in Nat /\ r \in Nat
      /\ sent \in Nat /\ Len(atServer) \in Nat /\ Len(inbound) \in Nat
      /\ mRequest' = mRequest
  BY DEF TypeOK, Buffer, WriteDone, clientVars
<1>5. writes[1] = w - l + 1
  BY <1>1 DEF SentInv
<1>6. Answered \in Int /\ Answered <= sent /\ sent <= w - l
  BY <1>4 DEF Answered, SentInv
<1>7. \A j \in DOMAIN ready : ready[j].h = "OnRead" /\ ready[j].ok =>
        ready[j].n = r + 1 /\ Answered = r + 1
  BY DEF AnswerInv
<1>8. r <= Answered
  <2>1. CASE \E j \in DOMAIN ready : ready[j].h = "OnRead" /\ ready[j].ok
    BY <1>4, <1>7, <2>1
  <2>2. CASE ~ \E j \in DOMAIN ready : ready[j].h = "OnRead" /\ ready[j].ok
    BY <1>4, <2>2 DEF AnswerInv
  <2>. QED
    BY <2>1, <2>2
<1>9. writes[1] \in r + 1 .. w - (l - 1)
  <2>1. \A x, y \in Nat : x - y + 1 = x - (y - 1)
    OBVIOUS
  <2>2. w - l + 1 = w - (l - 1) /\ w - l \in Int
    BY <1>1, <1>4, <2>1
  <2>3. r <= w - l
    BY <1>4, <1>6, <1>8, <2>2
  <2>. QED
    BY <1>4, <1>5, <2>2, <2>3
<1>10. \A j \in DOMAIN ready : ready[j].h = "OnRead" /\ ready[j].ok => ready[j].n # writes[1]
  <2>1. w - l \in Int
    BY <1>1, <1>4
  <2>2. Answered < writes[1]
    BY <1>4, <1>5, <1>6, <2>1
  <2>. QED
    BY <1>4, <1>6, <1>7, <2>2
<1>11. ASSUME NEW i \in DOMAIN ready', ready'[i].h = "OnWrite"
       PROVE  /\ ready'[i].n \in r + 1 .. w - (l - 1)
              /\ \A j \in DOMAIN ready' :
                   ready'[j].h = "OnRead" /\ ready'[j].ok /\ ready'[j].n = ready'[i].n => i < j
  <2>1. CASE i = Len(ready) + 1
    BY <1>3, <1>9, <1>10, <2>1
  <2>2. CASE i \in DOMAIN ready
    <3>1. ready'[i].n \in r + 1 .. w - l
      BY <1>3, <1>11, <2>2 DEF HeldInv
    <3>2. ready'[i].n \in r + 1 .. w - (l - 1)
      BY <1>1, <1>4, <3>1
    <3>. QED
      BY <1>3, <1>11, <2>2, <3>2 DEF HeldInv
  <2>. QED
    BY <1>3, <2>1, <2>2
<1>. QED
  BY <1>1, <1>4, <1>11 DEF HeldInv

(* Queueing a handler other than OnWrite keeps the slots held.             *)
LEMMA HeldQueueing ==
  ASSUME TypeOK, HeldInv, NEW h \in HandlerName \ {"OnWrite"}, NEW ok \in BOOLEAN, NEW n,
         ready' = Append(ready, Completion(h, ok, n)),
         UNCHANGED <<mRequest, writes>>
  PROVE  HeldInv'
<1>1. /\ DOMAIN ready = 1 .. Len(ready)
      /\ DOMAIN ready' = 1 .. Len(ready) + 1
      /\ Len(ready) \in Nat
      /\ \A i \in DOMAIN ready : ready'[i] = ready[i] /\ i < Len(ready) + 1
      /\ ready'[Len(ready) + 1].h # "OnWrite"
  BY Queueing
<1>2. \A i \in DOMAIN ready' : ready'[i].h = "OnWrite" => i \in DOMAIN ready
  BY <1>1
<1>. QED
  BY <1>1, <1>2 DEF HeldInv

(* Taking a handler, unless it moves mReadPos.                             *)
LEMMA HeldTaking ==
  ASSUME TypeOK, HeldInv, ready # <<>>, ready' = Tail(ready),
         mRequest'.mReadPos = mRequest.mReadPos,
         mRequest'.mWritePos - Len(writes') = mRequest.mWritePos - Len(writes)
  PROVE  HeldInv'
<1>1. /\ DOMAIN ready = 1 .. Len(ready)
      /\ DOMAIN ready' = 1 .. Len(ready) - 1
      /\ Len(ready) \in Nat \ {0}
      /\ \A i \in DOMAIN ready' : ready'[i] = ready[i + 1] /\ i + 1 \in DOMAIN ready
  BY Taking
<1>2. \A i, j \in DOMAIN ready' : i + 1 < j + 1 => i < j
  BY <1>1
<1>. QED
  BY <1>1, <1>2 DEF HeldInv

(* OnRead gives a slot back only after the OnWrite of its request.         *)
LEMMA HeldOnRead ==
  ASSUME TypeOK, SetupInv, ReadInv, OrderInv, SentInv, AnswerInv, HeldInv, RunHandler,
         Head(ready).h = "OnRead", Head(ready).ok, OnRead(Head(ready))
  PROVE  HeldInv'
<1>. DEFINE w == mRequest.mWritePos
            r == mRequest.mReadPos
            l == Len(writes)
<1>1. /\ mRequest'.mReadPos = r + 1
      /\ mRequest'.mWritePos = w
  BY ResponseHasRequest, DropKeepsBuffer DEF OnRead, TypeOK
<1>2. /\ writes' = writes
      /\ w \in Nat /\ r \in Nat /\ l \in Nat
  BY DEF OnRead, TypeOK, Buffer
<1>3. /\ DOMAIN ready = 1 .. Len(ready)
      /\ DOMAIN ready' = 1 .. Len(ready) - 1
      /\ Len(ready) \in Nat \ {0}
      /\ \A i \in DOMAIN ready' : ready'[i] = ready[i + 1] /\ i + 1 \in DOMAIN ready
      /\ 1 \in DOMAIN ready
      /\ Head(ready) = ready[1]
  BY Taking DEF RunHandler
<1>4. ready[1].n = r + 1
  BY <1>3, ResponseHasRequest
<1>5. ASSUME NEW i \in DOMAIN ready', ready'[i].h = "OnWrite"
      PROVE  ready'[i].n \in r + 1 + 1 .. w - l
  <2>1. ready[i + 1].h = "OnWrite" /\ i + 1 \in DOMAIN ready /\ ~(i + 1 < 1)
    BY <1>3, <1>5
  <2>2. ready[i + 1].n \in r + 1 .. w - l
    BY <2>1 DEF HeldInv
  <2>3. ready[i + 1].n # r + 1
    BY <1>3, <1>4, <2>1 DEF HeldInv
  <2>. QED
    BY <1>2, <1>3, <2>2, <2>3
<1>. QED
  BY <1>1, <1>2, <1>5, ResponseHasRequest DEF HeldInv

(* Every step but a stray response keeps the slots held.                   *)
LEMMA HeldStep ==
  ASSUME TypeOK, SetupInv, ReadInv, OrderInv, SentInv, AnswerInv, HeldInv, [Next]_vars
  PROVE  HeldInv'
<1>1. CASE RunHandler
  <2>1. ready # <<>> /\ ready' = Tail(ready)
    BY <1>1 DEF RunHandler
  <2>2. CASE UNCHANGED <<mRequest, writes>>
    BY <2>1, <2>2, HeldTaking
  <2>3. CASE Head(ready).h = "ExecRequest" /\ ExecRequest(Head(ready)) /\ ~IsFull(mRequest)
    <3>1. /\ mRequest'.mReadPos = mRequest.mReadPos
          /\ mRequest'.mWritePos = mRequest.mWritePos + 1
          /\ Len(writes') = Len(writes) + 1
      BY <2>3 DEF ExecRequest, Write, Add, TypeOK
    <3>2. mRequest.mWritePos \in Nat /\ Len(writes) \in Nat
      BY DEF TypeOK, Buffer
    <3>3. mRequest'.mWritePos - Len(writes') = mRequest.mWritePos - Len(writes)
      BY <3>1, <3>2
    <3>. QED
      BY <2>1, <3>1, <3>3, HeldTaking
  <2>. QED
    BY <1>1, <2>2, <2>3, HandlerCases, HeldOnRead
       DEF ErrorHandle, OnResolve, OnConnect, OnHandshake, OnWrite, ExecRequest, clientVars, peerVars
<1>2. CASE ResolveDone \/ ConnectDone \/ HandshakeDone \/ SetupTimedOut \/ ReadDone
  <2>1. PICK h, ok, n :
          /\ h \in HandlerName \ {"OnWrite"}
          /\ ok \in BOOLEAN
          /\ ready' = Append(ready, Completion(h, ok, n))
    BY <1>2 DEF ResolveDone, ConnectDone, HandshakeDone, SetupTimedOut, ReadDone, Complete, HandlerName
  <2>2. UNCHANGED <<mRequest, writes>>
    BY <1>2 DEF ResolveDone, ConnectDone, HandshakeDone, SetupTimedOut, ReadDone, clientVars
  <2>. QED
    BY <2>1, <2>2, HeldQueueing
<1>3. CASE AsyncRequest
  <2>1. PICK ok \in BOOLEAN : ready' = Append(ready, Completion("ExecRequest", ok, accepted + 1))
    BY <1>3 DEF AsyncRequest
  <2>. QED
    BY <1>3, <2>1, HeldQueueing DEF AsyncRequest, HandlerName
<1>4. CASE Run \/ Stop \/ Peer \/ UNCHANGED vars
  <2>. UNCHANGED <<mRequest, writes, ready>>
    BY <1>4 DEF Run, Stop, Peer, ServerAnswers, ServerSendsStray, LinkLost, vars, clientVars, iocVars
  <2>. QED
    BY DEF HeldInv
<1>. QED
  BY <1>1, <1>2, <1>3, <1>4, HeldWriteDone DEF Next, Reactor

(* The buffer overflows only when more requests wait than it has slots.    *)
LEMMA OverflowStep ==
  ASSUME TypeOK, OrderInv, TerminatesOnlyOnOverflow, [Next]_vars
  PROVE  TerminatesOnlyOnOverflow'
<1>1. CASE terminated
  <2>1. UNCHANGED <<accepted, called>>
    BY <1>1 DEF Next, Run, AsyncRequest, Stop, RunHandler, Running, Reactor, ResolveDone, ConnectDone,
                HandshakeDone, SetupTimedOut, WriteDone, ReadDone, Complete, Peer, ServerAnswers,
                ServerSendsStray, LinkLost, vars, clientVars
  <2>. QED
    BY <1>1, <2>1 DEF TerminatesOnlyOnOverflow
<1>2. CASE ~terminated /\ terminated'
  <2>1. /\ RunHandler
        /\ Head(ready).h = "ExecRequest"
        /\ ExecRequest(Head(ready))
    BY <1>2, HandlerCases
       DEF Next, Run, AsyncRequest, Stop, Reactor, ResolveDone, ConnectDone, HandshakeDone,
           SetupTimedOut, WriteDone, ReadDone, Peer, ServerAnswers, ServerSendsStray, LinkLost,
           vars, iocVars, ErrorHandle, OnResolve, OnConnect, OnHandshake, OnRead, OnWrite
  <2>2. IsFull(mRequest) /\ UNCHANGED <<accepted, called>>
    BY <1>2, <2>1 DEF ExecRequest, clientVars
  <2>3. mRequest.mWritePos + 1 <= accepted
    BY <1>2, <2>1, NextRequest DEF RunHandler
  <2>4. /\ accepted \in Nat
        /\ mRequest.mWritePos \in Nat
        /\ mRequest.mReadPos \in Nat
        /\ Len(called) = mRequest.mReadPos
    BY SessionAssumption DEF TypeOK, Buffer, OrderInv
  <2>5. accepted - Len(called) > mSize
    BY <2>2, <2>3, <2>4, RingAssumption DEF IsFull
  <2>. QED
    BY <2>2, <2>5 DEF TerminatesOnlyOnOverflow
<1>. QED
  BY <1>1, <1>2 DEF TerminatesOnlyOnOverflow

(* A new session satisfies the invariant.                                  *)
LEMMA IInvInit == Init => IInv
<1>1. Init => SetupInv /\ OrderInv /\ SentInv /\ AnswerInv /\ HeldInv
  BY SetupInit, OrderInit, SentInit, AnswerInit, HeldInit
<1>2. Init => ReadInv /\ TerminatesOnlyOnOverflow
  BY DEF Init, ReadInv, TerminatesOnlyOnOverflow
<1>. QED
  BY <1>1, <1>2, TypeInit DEF IInv

(* Every step keeps the invariant.                                         *)
LEMMA IInvStep == ASSUME IInv, [Next]_vars PROVE IInv'
<1>. USE DEF IInv
<1>1. /\ TypeOK'
      /\ SetupInv'
      /\ ReadInv'
      /\ OrderInv'
      /\ SentInv'
      /\ TerminatesOnlyOnOverflow'
  BY TypeStep, SetupStep, ReadStep, OrderStep, SentStep, OverflowStep
<1>2. stray' = 0 => stray = 0
  <2>1. CASE ServerSendsStray
    BY <2>1 DEF ServerSendsStray, TypeOK
  <2>2. CASE RunHandler
    BY <2>2, HandlerCases
       DEF OnResolve, OnConnect, OnHandshake, OnRead, OnWrite, ExecRequest, peerVars
  <2>3. CASE Run \/ AsyncRequest \/ Stop \/ Reactor \/ ServerAnswers \/ LinkLost \/ UNCHANGED vars
    BY <2>3 DEF Run, AsyncRequest, Stop, Reactor, ResolveDone, ConnectDone, HandshakeDone,
                SetupTimedOut, WriteDone, ReadDone, ServerAnswers, LinkLost, vars, peerVars
  <2>. QED
    BY <2>1, <2>2, <2>3 DEF Next, Peer
<1>3. stray' = 0 => AnswerInv' /\ HeldInv'
  BY <1>2, AnswerStep, HeldStep
<1>. QED
  BY <1>1, <1>3

(* The inductive invariant holds of every Session.                         *)
THEOREM InductiveInvariant == Spec => []IInv
  BY IInvInit, IInvStep, PTL DEF Spec

------------------------------------------------------------------------------
(* A request posted is in one place, in the order of the calls, from its   *)
(* AsyncRequest() to its callback.                                         *)
THEOREM KeepsOrder == Spec => []RequestsKeepOrder
<1>1. ASSUME IInv PROVE RequestsKeepOrder
  <2>. DEFINE w == mRequest.mWritePos
              r == mRequest.mReadPos
  <2>1. /\ r \in Nat
        /\ w \in Nat
        /\ Len(called) = r
        /\ DOMAIN Window(mRequest) = 1 .. w - r
    BY <1>1 DEF IInv, TypeOK, OrderInv, Buffer, Window
  <2>2. ASSUME NEW i \in 1 .. w - r
        PROVE  Window(mRequest)[i] = Len(called) + i
    <3>1. Window(mRequest)[i] = mRequest.mRequests[Slot(r + i - 1)]
      BY <2>1 DEF Window
    <3>2. r + i - 1 \in r .. w - 1 /\ r + i - 1 + 1 = r + i
      BY <2>1
    <3>. QED
      BY <1>1, <2>1, <3>1, <3>2 DEF IInv, OrderInv
  <2>3. ~terminated => {ready[i].n : i \in Queued("ExecRequest")} = w + 1 .. accepted
    BY <1>1 DEF IInv, OrderInv, Queued
  <2>. QED
    BY <1>1, <2>1, <2>2, <2>3 DEF IInv, OrderInv, RequestsKeepOrder, Queued
<1>. QED
  BY <1>1, InductiveInvariant, PTL

(* Without stray responses every callback gets the response to its own     *)
(* request, however many are under way.                                    *)
THEOREM GivesOwnResponse == Spec => []OwnResponse
<1>1. IInv => OwnResponse
  BY DEF IInv, OrderInv, AnswerInv, OwnResponse
<1>. QED
  BY <1>1, InductiveInvariant, PTL

(* http::async_read is never called while another one is outstanding, and  *)
(* a session that goes on always has one.                                  *)
THEOREM ReadsOneAtATime == Spec => []OneReadAtATime
<1>1. ASSUME IInv PROVE OneReadAtATime
  <2>1. ASSUME NEW i \in DOMAIN ready, \A j \in DOMAIN ready : ready[j].h = "OnRead" <=> j = i
        PROVE  Queued("OnRead") = {i}
    BY <2>1 DEF Queued
  <2>2. (\A i \in DOMAIN ready : ready[i].h # "OnRead") => Queued("OnRead") = {}
    BY DEF Queued
  <2>. QED
    BY <1>1, <2>1, <2>2 DEF IInv, ReadInv, OneReadAtATime
<1>. QED
  BY <1>1, InductiveInvariant, PTL

(* Without stray responses a slot is not refilled while the write of its   *)
(* message is outstanding.                                                 *)
THEOREM HoldsSlots == Spec => []SlotHeldIfNoStray
<1>1. ASSUME IInv, stray = 0, NEW n \in Request, WriteOutstanding(n)
      PROVE  mRequest.mRequests[Slot(n - 1)] = n
  <2>. DEFINE w == mRequest.mWritePos
              r == mRequest.mReadPos
              l == Len(writes)
  <2>1. /\ w \in Nat /\ r \in Nat /\ l \in Nat /\ n \in Nat
        /\ sent \in Nat /\ Len(atServer) \in Nat /\ Len(inbound) \in Nat
        /\ DOMAIN writes = 1 .. l
    BY <1>1, SessionAssumption DEF IInv, TypeOK, Buffer
  <2>2. n \in r + 1 .. w
    <3>1. CASE \E i \in DOMAIN writes : writes[i] = n
      <4>1. PICK i \in 1 .. l : n = w - l + i
        BY <1>1, <2>1, <3>1 DEF IInv, SentInv
      <4>2. r <= Answered
        <5>1. CASE \E j \in DOMAIN ready : ready[j].h = "OnRead" /\ ready[j].ok
          BY <1>1, <2>1, <5>1 DEF IInv, AnswerInv
        <5>2. CASE ~ \E j \in DOMAIN ready : ready[j].h = "OnRead" /\ ready[j].ok
          BY <1>1, <2>1, <5>2 DEF IInv, AnswerInv
        <5>. QED
          BY <5>1, <5>2
      <4>3. Answered \in Int /\ Answered <= sent /\ sent <= w - l
        BY <1>1, <2>1 DEF IInv, SentInv, Answered
      <4>. QED
        BY <2>1, <4>1, <4>2, <4>3, SMTT(120)
    <3>2. CASE \E i \in Queued("OnWrite") : ready[i].n = n
      <4>1. n \in r + 1 .. w - l
        BY <1>1, <3>2 DEF IInv, HeldInv, Queued
      <4>. QED
        BY <2>1, <4>1
    <3>. QED
      BY <1>1, <3>1, <3>2 DEF WriteOutstanding
  <2>3. n - 1 \in r .. w - 1 /\ n - 1 + 1 = n
    BY <2>1, <2>2
  <2>. QED
    BY <1>1, <2>3 DEF IInv, OrderInv
<1>2. IInv => SlotHeldIfNoStray
  BY <1>1 DEF SlotHeldIfNoStray, SlotHeld
<1>. QED
  BY <1>2, InductiveInvariant, PTL

(* A response is never awaited under a deadline.                           *)
THEOREM ReadsAreUntimed == Spec => []ReadsUntimed
<1>1. IInv => ReadsUntimed
  BY DEF IInv, SetupInv, ReadsUntimed
<1>. QED
  BY <1>1, InductiveInvariant, PTL

(* Nothing is written before the handshake has ended.                      *)
THEOREM WritesWaitForHandshake == Spec => []WritesFollowHandshake
<1>1. IInv => WritesFollowHandshake
  BY DEF IInv, TypeOK, SetupInv, WritesFollowHandshake
<1>. QED
  BY <1>1, InductiveInvariant, PTL

(* The exception of add() takes more than mSize requests waiting.          *)
THEOREM OverflowTakesMany == Spec => []TerminatesOnlyOnOverflow
<1>1. IInv => TerminatesOnlyOnOverflow
  BY DEF IInv
<1>. QED
  BY <1>1, InductiveInvariant, PTL

------------------------------------------------------------------------------
(* Every step of Session is a step of SessionLife, or changes nothing that *)
(* the other threads can observe.                                          *)
LEMMA LifeStep == ASSUME IInv, [Next]_vars PROVE [Life!Next]_Life!vars
<1>. DEFINE hd == Head(ready)
<1>1. CASE Run
  BY <1>1 DEF Run, Life!Next, Life!Start
<1>2. CASE AsyncRequest \/ Reactor \/ Peer \/ UNCHANGED vars
  BY <1>2 DEF AsyncRequest, Reactor, ResolveDone, ConnectDone, HandshakeDone, SetupTimedOut, WriteDone,
              ReadDone, Peer, ServerAnswers, ServerSendsStray, LinkLost, vars, clientVars, iocVars,
              Life!vars
<1>3. CASE Stop
  BY <1>3 DEF Stop, Running, clientVars, Life!Next, Life!Stop, Life!Running
<1>4. CASE RunHandler
  <2>1. Life!Running /\ started /\ ~terminated
    BY <1>4 DEF RunHandler, Running, Life!Running
  <2>2. 1 \in DOMAIN ready /\ hd = ready[1]
    BY <1>4, Taking DEF RunHandler, IInv
  <2>3. CASE ErrorHandle
    BY <2>1, <2>3 DEF ErrorHandle, Life!Next, Life!Fail
  <2>4. CASE \/ hd.h = "OnResolve" /\ hd.ok /\ OnResolve(hd)
             \/ hd.h = "OnConnect" /\ hd.ok /\ OnConnect(hd)
             \/ hd.h = "OnRead" /\ hd.ok /\ OnRead(hd)
             \/ hd.h = "OnWrite" /\ hd.ok /\ OnWrite(hd)
    BY <1>4, <2>4 DEF RunHandler, OnResolve, OnConnect, OnRead, OnWrite, clientVars, Life!vars
  <2>5. CASE hd.h = "OnHandshake" /\ hd.ok /\ OnHandshake(hd)
    <3>1. ~mSessionReady
      BY <2>2, <2>5 DEF IInv, SetupInv, InSetup
    <3>. QED
      BY <2>1, <2>5, <3>1 DEF OnHandshake, Life!Next, Life!BecomeReady
  <2>6. CASE hd.h = "ExecRequest" /\ ExecRequest(hd)
    <3>1. mSessionReady
      BY <2>2, <2>6 DEF IInv, SetupInv, InSetup
    <3>. QED
      BY <1>4, <2>1, <2>6, <3>1 DEF ExecRequest, clientVars, Life!Next, Life!Overflow, Life!vars
  <2>. QED
    BY <1>4, <2>3, <2>4, <2>5, <2>6, HandlerCases
<1>. QED
  BY <1>1, <1>2, <1>3, <1>4 DEF Next

(* The session is an implementation of the life cycle other threads see.   *)
THEOREM RefinesLife == Spec => ImplementsLife
<1>1. Init => Life!Init
  BY DEF Init, Life!Init
<1>. QED
  BY <1>1, LifeStep, InductiveInvariant, PTL DEF Spec, ImplementsLife, Life!Spec
==============================================================================
