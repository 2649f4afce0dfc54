----------------------------- MODULE Handshake ------------------------------
EXTENDS Integers, SequencesExt

(***************************************************************************)
(* async_handshake() and async_accept() of a websocket::stream, again and  *)
(* again on one object: each time the application has connected its socket *)
(* anew.  What comes from the peer is a message of HTTP, in as many units  *)
(* as its header is long, and frames right behind it.  The static read     *)
(* buffer takes Capacity units.                                            *)
(*                                                                         *)
(* A step is a handler of the strand.  A wait of the timer that is over    *)
(* has its handler queued, and cannot be cancelled any more.               *)
(***************************************************************************)

CONSTANTS
  Role,         (* "client" or "server"                                     *)
  Connections,  (* what may come, see Comes                                 *)
  Options,      (* timeouts that are set: handshake, idle, keep_alive       *)
  Capacity,     (* units in rd_buf                                          *)
  Attempts      (* handshakes that are started                              *)

HandshakeAssumption ==
  /\ Role \in {"client", "server"} /\ Capacity \in Nat \ {0} /\ Attempts \in Nat

VARIABLES
  impl,     (* stream::impl_type                                            *)
  op,       (* handshake_op, or accept_op and response_op                   *)
  net,      (* the connection                                               *)
  option,   (* the stream's timeouts                                        *)
  hist      (* what the application saw                                     *)

vars == <<impl, op, net, option, hist>>

Queued == 2     (* bound: handlers of the timer that are late at once      *)
Header == 0     (* a unit of the message; frames are numbered from 1       *)
FramesOf(b) == SelectSeq(b, LAMBDA u : u # Header)
HeaderOf(b) == Len(SelectSeq(b, LAMBDA u : u = Header))
FirstOf(b, n) == SubSeq(b, 1, n)
WithoutFirst(b, n) == SubSeq(b, n + 1, Len(b))

(* A peer sends this much of a message of c.header units and of c.frames   *)
(* frames, and closes or not; the message is good, agrees on compression,  *)
(* and a server has read c.given units of it before.                       *)
Comes(c) ==
  FirstOf([i \in 1 .. c.header |-> Header] \o [i \in 1 .. c.frames |-> i], c.sent)

Init ==
  /\ impl = [status |-> "closed", timed_out |-> FALSE, ec_delivered |-> FALSE,
             idle_counter |-> 0, set |-> FALSE, waits |-> <<>>, expired |-> <<>>,
             rd_buf |-> <<>>, pmd |-> FALSE, asserted |-> TRUE]
  /\ op = [at |-> "off", fb |-> <<>>]
  /\ \E c \in Connections : net = [c |-> c, in |-> <<>>, up |-> FALSE]
  /\ option \in Options
  /\ hist = [attempts |-> 0, told |-> "nothing", closed_by |-> <<>>]

(***************************************************************************)
(* The timer: at most one wait, and handlers of waits that are over.       *)
(***************************************************************************)
Never(i) == [i EXCEPT !.set = FALSE, !.waits = <<>>]
Wait(i, why, attempt) ==
  [i EXCEPT !.set = TRUE, !.waits = <<[why |-> why, attempt |-> attempt]>>]

(* reset(): leaves pmd_, timed_out, ec_delivered and idle_counter alone.   *)
reset(i) == [Never(i) EXCEPT !.rd_buf = <<>>]

(* update_timer() of a stream in its handshake.                            *)
update_timer(i, attempt) ==
  LET claimed == [i EXCEPT !.asserted = @ /\ i.idle_counter = 0]
  IN  IF option.handshake /\ ~i.set THEN Wait(claimed, "handshake", attempt)
      ELSE claimed

(***************************************************************************)
(* check_stop_now(): what is told, "ok" to go on.                          *)
(***************************************************************************)
(* Wrong: a stream that the timer has closed goes on.                      *)
StopTimeoutLate(i, ec) ==
  IF ec = "ok" THEN "ok"
  ELSE IF i.timed_out THEN "timeout"
  ELSE IF i.ec_delivered \/ i.status \in {"closed", "failed"} THEN "aborted" ELSE ec

Stop(i, ec) ==
  IF i.timed_out THEN "timeout"
  ELSE IF i.status \in {"closed", "failed"} THEN "aborted"
  ELSE IF ec # "ok" /\ i.ec_delivered THEN "aborted" ELSE ec

Stopped(i, ec) ==
  CASE i.timed_out -> [i EXCEPT !.timed_out = FALSE]
    [] ~i.timed_out /\ Stop(i, ec) = ec /\ ec # "ok" ->
         [i EXCEPT !.ec_delivered = TRUE, !.status = "failed"]
    [] OTHER -> i

Tell(ec) ==
  /\ op' = [at |-> "off", fb |-> <<>>]
  /\ hist' = [hist EXCEPT !.told = ec]

(* open(): a wait is cancelled, pmd_ is set up if it was negotiated.       *)
open(i) ==
  [Never(i) EXCEPT !.timed_out = FALSE, !.status = "open",
                    !.pmd = @ \/ net.c.pmd]

(* An operation is started.  A server may bring what it has read already.  *)
Begin(i, c) ==
  LET given   == IF Role = "server" THEN c.given ELSE 0
      fits    == given <= Capacity
      started == update_timer([reset(i) EXCEPT
                   !.rd_buf = IF fits THEN @ \o FirstOf(Comes(c), given) ELSE @,
                   !.status = "handshake"], hist.attempts + 1)
  IN  /\ impl' = started
      /\ net' = [c |-> c, in |-> WithoutFirst(Comes(c), given), up |-> TRUE]
      /\ IF fits THEN /\ op' = [at |-> IF Role = "client" THEN "write" ELSE "read",
                                fb |-> <<>>]
                      /\ hist' = [hist EXCEPT !.attempts = @ + 1, !.told = "nothing",
                                              !.closed_by = <<>>]
         ELSE /\ op' = [at |-> "off", fb |-> <<>>]
              /\ hist' = [hist EXCEPT !.attempts = @ + 1, !.told = "overflow",
                                      !.closed_by = <<>>]

Start ==
  /\ op.at = "off" /\ impl.status # "open" /\ hist.attempts < Attempts
  /\ \E c \in Connections : Begin(impl, c)
  /\ UNCHANGED option

(* The request of a client is written.                                     *)
Written ==
  /\ op.at = "write"
  /\ \E ec \in {"ok", "failure"} :
       /\ ~net.up => ec = "failure"
       /\ impl' = Stopped(impl, ec)
       /\ IF Stop(impl, ec) = "ok" THEN op' = [op EXCEPT !.at = "read"] /\ UNCHANGED hist
          ELSE Tell(Stop(impl, ec))
  /\ UNCHANGED <<net, option>>

(***************************************************************************)
(* http::async_read(): the header is taken when all of it is there.        *)
(***************************************************************************)
Buffer   == IF op.at = "read" THEN impl.rd_buf ELSE op.fb
Complete == HeaderOf(Buffer) = net.c.header
ReadRoom     == IF op.at = "read" THEN Capacity - Len(Buffer) ELSE Len(net.in)

Receive ==
  /\ op.at \in {"read", "read_more"} /\ net.up /\ ~Complete
  /\ \E n \in 1 .. Len(net.in) :
       /\ n <= ReadRoom
       /\ net' = [net EXCEPT !.in = WithoutFirst(@, n)]
       /\ IF op.at = "read"
            THEN /\ impl' = [impl EXCEPT !.rd_buf = @ \o FirstOf(net.in, n)]
                 /\ UNCHANGED op
            ELSE /\ op' = [op EXCEPT !.fb = @ \o FirstOf(net.in, n)]
                 /\ UNCHANGED impl
  /\ UNCHANGED <<option, hist>>

ReadEnds ==
  CASE Complete -> "ok"
    [] ~Complete /\ ReadRoom = 0 /\ op.at = "read" -> "overflow"
    [] ~Complete /\ ~net.up -> "failure"
    [] ~Complete /\ net.up /\ net.in = <<>> /\ net.c.end = "closes" ->
         IF Buffer # <<>> THEN "partial_message"
         ELSE IF Role = "client" THEN "end_of_stream" ELSE "closed"
    [] OTHER -> "not yet"

(* The message does not fit into rd_buf: a buffer without a limit goes on. *)
ReadOverflows ==
  /\ Role = "client" /\ op.at = "read" /\ ReadEnds = "overflow"
  /\ op' = [at |-> "read_more", fb |-> impl.rd_buf]
  /\ impl' = [impl EXCEPT !.rd_buf = <<>>]
  /\ UNCHANGED <<net, option, hist>>

(* Wrong: the frames behind a long response are forgotten.                 *)
TakenForgets(ec) ==
  IF ec = "ok" /\ op.at = "read" THEN [impl EXCEPT !.rd_buf = FramesOf(@)] ELSE impl

(* The frames behind the message are kept in rd_buf.                       *)
Taken(ec) ==
  IF ec # "ok" THEN impl
  ELSE [impl EXCEPT !.rd_buf = FramesOf(Buffer)]

TakenEnds(ec) ==
  IF ec = "ok" /\ Len(FramesOf(Buffer)) > Capacity THEN "overflow" ELSE ec

(* on_response(): a stream that is declined stays in its handshake.        *)
Responded(i) ==
  /\ impl' = IF net.c.good THEN open([i EXCEPT !.idle_counter = 0])
             ELSE [i EXCEPT !.idle_counter = 0]
  /\ Tell(IF net.c.good THEN "ok" ELSE "declined")

(* response_op starts: the response to the request is written.             *)
Respond(i) ==
  /\ UNCHANGED hist
  /\ impl' = update_timer([i EXCEPT !.status = "handshake"], hist.attempts)
  /\ op' = [op EXCEPT !.at = "respond"]

Read ==
  /\ op.at \in {"read", "read_more"}
  /\ ReadEnds \notin {"not yet"} \cup IF Role = "client" THEN {"overflow"} ELSE {}
  /\ LET ec    == TakenEnds(ReadEnds)
         taken == IF ec = "overflow" THEN impl ELSE Taken(ec)
     IN  IF Stop(taken, ec) # "ok"
           THEN Tell(Stop(taken, ec)) /\ impl' = Stopped(taken, ec)
         ELSE IF Role = "client" THEN Responded(Stopped(taken, ec))
         ELSE Respond(Stopped(taken, ec))
  /\ UNCHANGED <<net, option>>

(* The response is written; a bad request has been answered as such.       *)
ResponseWritten ==
  /\ op.at = "respond"
  /\ \E ec \in {"ok", "failure"} :
       /\ ~net.up => ec = "failure"
       /\ IF Stop(impl, ec) # "ok"
            THEN Tell(Stop(impl, ec)) /\ impl' = Stopped(impl, ec)
          ELSE IF net.c.good THEN Tell("ok") /\ impl' = open(Stopped(impl, ec))
          ELSE Tell("declined") /\ impl' = Stopped(impl, ec)
  /\ UNCHANGED <<net, option>>

(***************************************************************************)
(* The timer's handler.                                                    *)
(***************************************************************************)
Expire ==
  /\ impl.waits # <<>> /\ Len(impl.expired) < Queued
  /\ impl' = [impl EXCEPT !.waits = <<>>, !.expired = @ \o impl.waits]
  /\ UNCHANGED <<op, net, option, hist>>

time_out(i, wait) ==
  /\ impl' = [i EXCEPT !.timed_out = TRUE, !.status = "closed"]
  /\ net' = [net EXCEPT !.up = FALSE]
  /\ hist' = [hist EXCEPT !.closed_by = <<wait>>]

TimeoutHandler ==
  /\ impl.expired # <<>>
  /\ LET i    == [impl EXCEPT !.expired = Tail(@)]
         wait == impl.expired[1]
     IN  CASE i.status = "handshake" -> time_out(i, wait)
           [] i.status = "open" /\ ~option.idle -> impl' = i /\ UNCHANGED <<net, hist>>
           [] i.status = "open" /\ option.idle /\ option.keep_alive /\ i.idle_counter < 1 ->
                /\ UNCHANGED <<net, hist>>
                /\ impl' = Wait([i EXCEPT !.idle_counter = @ + 1], "idle", hist.attempts)
           [] i.status = "open" /\ option.idle /\ ~(option.keep_alive /\ i.idle_counter < 1) ->
                time_out(i, wait)
           [] OTHER -> impl' = i /\ UNCHANGED <<net, hist>>
  /\ UNCHANGED <<op, option>>

(***************************************************************************)
(* The open stream, as far as it matters for the next handshake.           *)
(***************************************************************************)
(* An operation starts: update_timer().                                    *)
Operate ==
  /\ op.at = "off" /\ impl.status = "open"
  /\ UNCHANGED <<op, net, option, hist>>
  /\ impl' = IF option.idle
               THEN Wait([impl EXCEPT !.idle_counter = 0], "idle", hist.attempts)
               ELSE Never(impl)

(* It is told of an error, by check_stop_now().                            *)
Fail ==
  /\ op.at = "off" /\ impl.status = "open"
  /\ impl' = Stopped(impl, "failure")
  /\ net' = [net EXCEPT !.up = FALSE]
  /\ hist' = [hist EXCEPT !.told = Stop(impl, "failure")]
  /\ UNCHANGED <<op, option>>

(* async_close() ends.                                                     *)
Close ==
  /\ op.at = "off" /\ impl.status = "open"
  /\ impl' = [impl EXCEPT !.waits = <<>>, !.status = "closed", !.pmd = FALSE]
  /\ net' = [net EXCEPT !.up = FALSE]
  /\ hist' = [hist EXCEPT !.told = "closed"]
  /\ UNCHANGED <<op, option>>

(* An operation is started on a stream that was timed out, and told so.    *)
ToldOfTimeout ==
  /\ op.at = "off" /\ impl.status = "closed" /\ impl.timed_out
  /\ impl' = Stopped(impl, "ok")
  /\ hist' = [hist EXCEPT !.told = "timeout"]
  /\ UNCHANGED <<op, net, option>>

OnStrand == \/ Written \/ Receive \/ ReadOverflows \/ Read \/ ResponseWritten
            \/ TimeoutHandler
Next == Start \/ OnStrand \/ Expire \/ Operate \/ Fail \/ Close \/ ToldOfTimeout

Spec == Init /\ [][Next]_vars

------------------------------------------------------------------------------
Opened == impl.status = "open"

(* Nothing the peer sent is lost or read twice: the frames behind the      *)
(* message are in rd_buf when the stream is open (handshake.hpp:130-171,   *)
(* stream_impl.hpp:164-165).                                               *)
NothingLost ==
  /\ Opened /\ hist.told = "ok" =>
       FramesOf(impl.rd_buf) \o net.in = FramesOf(Comes(net.c))
  /\ op.at \in {"read", "read_more"} => Buffer \o net.in = Comes(net.c)

(* A stream opens on a good message only, and never on a socket that the   *)
(* timer has closed (check_stop_now() after each step).                    *)
OpensGoodOnly ==
  [][~Opened /\ Opened' => net.up /\ net.c.good]_vars

(* A handshake that the timer has stopped is told so, unless it was told   *)
(* something else before (stream_base.hpp:94-97).                          *)
TimeoutIsTold ==
  [][op.at # "off" /\ op'.at = "off" /\ hist.closed_by # <<>> => hist'.told = "timeout"]_vars

(* With a time limit every handshake ends.                                 *)
HandshakeEnds == option.handshake => (op.at # "off" ~> op.at = "off")

------------------------------------------------------------------------------
---------------------------------------------------------------------------
(***************************************************************************)
(* How two ends of a WebSocket agree on permessage-deflate: what           *)
(* build_request() offers, what the server makes of it, and what each end  *)
(* sets its compressor and decompressor to.  One end at least is a         *)
(* websocket::stream; the other may be anything that speaks HTTP.          *)
(*                                                                         *)
(* A Sec-WebSocket-Extensions field is a sequence of extensions, each with *)
(* its parameters.  The value of a parameter is a number, 0 when there is  *)
(* none and -1 when it is no number of one or two digits.                  *)
(***************************************************************************)

CONSTANTS
  Clients, Servers,  (* permessage_deflate options of a stream              *)
  Offers, Answers    (* the fields that others send                         *)

Other == [other |-> TRUE]

(* set_option_pmd() lets no other windows through.                         *)
WindowAssumption ==
  \A o \in Clients \cup Servers : o.server_bits \in 9 .. 15 /\ o.client_bits \in 9 .. 15

VARIABLES
  options,   (* pmd_opts_ of each role, Other if it is no stream            *)
  asked,     (* the request's field                                         *)
  answered,  (* the response's                                              *)
  config,    (* pmd_config_ of each role                                    *)
  pmd,       (* pmd_: window bits of zo and zi, None without it             *)
  at         (* who is next                                                 *)

pmd_vars == <<options, asked, answered, config, pmd, at>>

None   == [zo |-> 0, zi |-> 0]
Absent == [accept |-> FALSE, server_bits |-> 0, client_bits |-> 0,
           server_forgets |-> FALSE, client_forgets |-> FALSE]

PmdInit ==
  /\ \E c \in Clients \cup {Other}, s \in Servers \cup {Other} :
       /\ c # Other \/ s # Other
       /\ options = [client |-> c, server |-> s]
  /\ asked = <<>> /\ answered = <<>>
  /\ config = [client |-> Absent, server |-> Absent]
  /\ pmd = [client |-> None, server |-> None]
  /\ at = "client asks"

Field(params) == <<[name |-> "permessage-deflate", params |-> params]>>
Bits(name, value) == <<[name |-> name, value |-> value]>>
Flag(name, set) == IF set THEN Bits(name, 0) ELSE <<>>
SmallerOf(a, b) == IF a < b THEN a ELSE b

Decline(o, p) ==
  CASE p.name = "server_bits" -> o.server_bits # 0 \/ p.value \notin 8 .. 15
    [] p.name = "client_bits" -> o.client_bits # 0 \/ p.value \notin {0} \cup 8 .. 15
    [] p.name \in {"server_forgets", "client_forgets"} -> o[p.name] \/ p.value # 0
    [] OTHER -> TRUE

Take(o, p) ==
  IF ~o.accept \/ Decline(o, p) THEN [o EXCEPT !.accept = FALSE]
  ELSE CASE p.name = "server_bits" -> [o EXCEPT !.server_bits = p.value]
         [] p.name = "client_bits" ->
              [o EXCEPT !.client_bits = IF p.value = 0 THEN -1 ELSE p.value]
         [] OTHER -> [o EXCEPT ![p.name] = TRUE]

pmd_read(field) ==
  LET pmds == SelectSeq(field, LAMBDA e : e.name = "permessage-deflate")
  IN  IF pmds = <<>> THEN Absent
      ELSE FoldLeft(Take, [Absent EXCEPT !.accept = TRUE], pmds[1].params)

(* pmd_write()                                                             *)
pmd_write(o) ==
  Field(Bits("server_bits", o.server_bits) \o Bits("client_bits", o.client_bits)
        \o Flag("server_forgets", o.server_forgets)
        \o Flag("client_forgets", o.client_forgets))

(* 8 is never answered: a window of 8 bits cannot be compressed for.       *)
ServerBits(offer, o) ==
  IF offer.server_bits = 0 THEN o.server_bits
  ELSE IF offer.server_bits < 9 THEN 9
  ELSE SmallerOf(offer.server_bits, o.server_bits)

ClientBits(offer, o) ==
  IF offer.client_bits \in {-1, 0} THEN o.client_bits
  ELSE SmallerOf(offer.client_bits, o.client_bits)

TellsClientBits(offer, o) ==
  \/ offer.client_bits > 0
  \/ offer.client_bits = -1 /\ o.client_bits < 15

Forgets(offer, o, name) == offer[name] \/ o[name]

Accepts(offer, o) ==
  /\ offer.accept /\ o.server_enable
  /\ offer.client_bits = 0 => o.client_bits = 15

pmd_negotiate(offer, o) ==
  IF ~Accepts(offer, o) THEN <<>>
  ELSE LET s == ServerBits(offer, o)
       IN  Field(Flag("server_forgets", Forgets(offer, o, "server_forgets"))
                 \o Flag("client_forgets", Forgets(offer, o, "client_forgets"))
                 \o (IF s < 15 THEN Bits("server_bits", s) ELSE <<>>)
                 \o (IF TellsClientBits(offer, o)
                       THEN Bits("client_bits", ClientBits(offer, o)) ELSE <<>>))

(***************************************************************************)
(* open_pmd(), with the windows that an absent parameter stands for.       *)
(***************************************************************************)
pmd_normalize(c) ==
  [c EXCEPT !.server_bits = IF @ = 0 THEN 15 ELSE @,
            !.client_bits = IF @ \in {-1, 0} THEN 15 ELSE @]

Enabled(role) ==
  IF role = "client" THEN options.client.client_enable ELSE options.server.server_enable

(* deflate_stream::reset(): a window of 8 bits is one of 9.                *)
Deflates(bits)  == IF bits = 8 THEN 9 ELSE bits

Windows(role, c) ==
  IF role = "client" THEN [zo |-> Deflates(c.client_bits), zi |-> c.server_bits]
  ELSE [zo |-> Deflates(c.server_bits), zi |-> c.client_bits]

open_pmd(role, read) ==
  LET c == pmd_normalize(read)
  IN  IF Enabled(role) /\ read.accept
        THEN /\ config' = [config EXCEPT ![role] = c]
             /\ pmd' = [pmd EXCEPT ![role] = Windows(role, c)]
        ELSE /\ config' = [config EXCEPT ![role] = read]
             /\ UNCHANGED pmd

(* build_request_pmd(), and do_pmd_config() of the request.                *)
Ask ==
  /\ at = "client asks"
  /\ IF options.client = Other
       THEN asked' \in Offers /\ UNCHANGED config
       ELSE /\ asked' = IF Enabled("client") THEN pmd_write(options.client) ELSE <<>>
            /\ config' = [config EXCEPT !.client = pmd_read(asked')]
  /\ at' = "server answers"
  /\ UNCHANGED <<options, answered, pmd>>

(* build_response_pmd(), then do_pmd_config() of the response.             *)
Answer ==
  /\ at = "server answers"
  /\ IF options.server = Other
       THEN answered' \in Answers /\ UNCHANGED <<config, pmd>>
       ELSE /\ answered' = pmd_negotiate(pmd_read(asked), options.server)
            /\ open_pmd("server", pmd_read(answered'))
  /\ at' = "client opens"
  /\ UNCHANGED <<options, asked>>

(* on_response_pmd()                                                       *)
Open ==
  /\ at = "client opens" /\ options.client # Other
  /\ open_pmd("client", pmd_read(answered))
  /\ at' = "open"
  /\ UNCHANGED <<options, asked, answered>>

PmdNext == Ask \/ Answer \/ Open
PmdSpec == PmdInit /\ [][PmdNext]_pmd_vars

ForgetsSent(role) ==
  IF role = "client" THEN config.client.client_forgets ELSE config.server.server_forgets
ForgetsReceived(role) ==
  IF role = "client" THEN config.client.server_forgets ELSE config.server.client_forgets

------------------------------------------------------------------------------
Peer(role) == IF role = "client" THEN "server" ELSE "client"
Streams    == options.client # Other /\ options.server # Other
PmdOpened(role) == /\ options[role] # Other
                /\ at = IF role = "client" THEN "open" ELSE "client opens"

(* What a field says, in its own words: a well-formed one names every      *)
(* parameter once.                                                         *)
Params(field) == SelectSeq(field, LAMBDA e : e.name = "permessage-deflate")[1].params
Says(field, name) == \E i \in DOMAIN Params(field) : Params(field)[i].name = name
Value(field, name) ==
  Params(field)[CHOOSE i \in DOMAIN Params(field) : Params(field)[i].name = name].value
WellFormed(field) ==
  /\ \A i, j \in DOMAIN Params(field) :
       Params(field)[i].name = Params(field)[j].name => i = j
  /\ \A i \in DOMAIN Params(field) :
       \/ /\ Params(field)[i].name \in {"server_forgets", "client_forgets"}
          /\ Params(field)[i].value = 0
       \/ /\ Params(field)[i].name \in {"server_bits", "client_bits"}
          /\ Params(field)[i].value \in 8 .. 15
       \/ Params(field)[i] = [name |-> "client_bits", value |-> 0]
HasPmd(field) == \E i \in DOMAIN field : field[i].name = "permessage-deflate"
NamedBits(field, name) ==
  IF Says(field, name) /\ Value(field, name) # 0 THEN Value(field, name) ELSE 15

(* Two streams compress both or neither of them (accept.hpp:38-52,         *)
(* impl_base.hpp:194-293).                                                 *)
BothOrNeither ==
  Streams /\ at = "open" => (pmd.client = None <=> pmd.server = None)

(* No end refers further back than the window the answer names for it, and *)
(* each keeps as much as the other may refer to.  deflate_stream goes back *)
(* by its window less 262, so 9 bits in place of 8 do no harm              *)
(* (impl_base.hpp:271-291, deflate_stream.ipp:239-241).                    *)
WindowsFit ==
  \A role \in {"client", "server"} :
    PmdOpened(role) /\ pmd[role] # None =>
      /\ 2 ^ pmd[role].zo - 262 <= 2 ^ NamedBits(answered, role \o "_bits")
      /\ pmd[role].zi >= NamedBits(answered, Peer(role) \o "_bits")

(* An end that the answer tells to forget its messages does so, and no end *)
(* forgets what the other may still refer to (impl_base.hpp:154-185).      *)
TakeoverFits ==
  \A role \in {"client", "server"} :
    PmdOpened(role) /\ pmd[role] # None =>
      /\ Says(answered, role \o "_forgets") => ForgetsSent(role)
      /\ ForgetsReceived(role) => Says(answered, Peer(role) \o "_forgets")

(* The answer of a stream grants what the offer asked for, and mentions    *)
(* the client's window only if the offer did (pmd_extension.ipp:264-269).  *)
(* An offer of 8 bits for the server is answered by 9.                     *)
OffersAreMet ==
  options.server # Other /\ HasPmd(answered) =>
    /\ Says(asked, "server_forgets") => Says(answered, "server_forgets")
    /\ Says(answered, "client_bits") => Says(asked, "client_bits")
    /\ \A name \in {"server_bits", "client_bits"} :
         \/ NamedBits(answered, name) <= NamedBits(asked, name)
         \/ name = "server_bits" /\ Value(asked, name) = 8 /\ Value(answered, name) = 9

(* A stream neither keeps nor refers to more than its own options allow    *)
(* (option.hpp:34-44); a client is sure of that with a stream as server.   *)
KeepsOwnLimits ==
  \A role \in {"client", "server"} :
    PmdOpened(role) /\ pmd[role] # None /\ (role = "client" => Streams) =>
      /\ pmd[role].zi <= options[role][Peer(role) \o "_bits"]
      /\ pmd[role].zo <= options[role][role \o "_bits"]

(* An ill-formed offer is declined, any other one is accepted by a server  *)
(* that can keep to it (pmd_extension.ipp:53-164).                         *)
DeclinesIllFormed ==
  options.server # Other /\ at = "client opens" =>
    (HasPmd(answered) <=>
       /\ HasPmd(asked) /\ WellFormed(asked) /\ options.server.server_enable
       /\ (Says(asked, "client_bits") \/ options.server.client_bits = 15))
=============================================================================
