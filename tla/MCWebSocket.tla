---------------------------- MODULE MCWebSocket -----------------------------
(***************************************************************************)
(* The WebSocket part of Boost.Beast, each component checked on its own: the *)
(* stream with asynchronous calls, two streams with blocking ones, the     *)
(* handshake, permessage-deflate, the header and the payload of a frame, the *)
(* check of UTF-8.                                                         *)
(***************************************************************************)
EXTENDS WebSocket

CONSTANTS
  Components,        (* the components that are checked                    *)
  Scripts, Room, MayBreak,  (* of two streams with blocking calls          *)
  Accepted, Connected,      (* connections of a handshake                  *)
  Timeouts, Windowed        (* options of a stream                         *)

VARIABLES
  part,  (* the component that runs, the others are at rest *)
  end, sync_net, sync_hist,
  hand_impl, op, hand_net, option, hand_hist, options, asked, answered,
  config, pmd, at,
  fh, header_wire, rd, tx, payload_wire, rx, utf8_text, fed, need, cp,
  verdict

(* What the peer of a stream sends, and how its connection ends.           *)
Unit(kind, fin, len, id) == [kind |-> kind, fin |-> fin, len |-> len, id |-> id]
Text(fin, len) == Unit("text", fin, len, 0)
Cont(fin, len) == Unit("cont", fin, len, 0)
Octet(k)       == Unit("byte", FALSE, 0, k)
PingOf(k)      == Unit("ping", TRUE, 0, k)
Sign(kind)     == Unit(kind, TRUE, 0, 0)
Peer(units, ending) == [units |-> units, end |-> ending]

(* Two frames of one message with a ping between them, another ping and    *)
(* the end; a peer that is silent after its close frame, one that never    *)
(* closes, and pings that wait in the buffer when a read starts.           *)
Talk == <<Text(FALSE, 1), Octet(1), PingOf(1), Cont(TRUE, 2), Octet(2), Octet(3),
          PingOf(2), Sign("close")>>
Bye  == <<PingOf(1), Sign("pong"), Sign("close")>>
Chat == <<Text(TRUE, 1), Octet(1), PingOf(1)>>
PeersTalk  == {Peer(Talk, "eof"), Peer(Bye, "silent"), Peer(<<Text(TRUE, 1), Octet(1)>>, "reset")}
PeersQuiet == {Peer(Chat, "silent")}

OnOff(idle, handshake, keep_alive, ctrl_cb) ==
  [idle |-> idle, handshake |-> handshake, keep_alive |-> keep_alive, ctrl_cb |-> ctrl_cb]
Timed   == {OnOff(TRUE, TRUE, FALSE, FALSE)}
Watched == {OnOff(TRUE, TRUE, TRUE, TRUE)}

Written(how, pieces, fin) == [how |-> how, pieces |-> pieces, fin |-> fin]
WritesTwo == <<Written("frames", 2, FALSE), Written("chunks", 2, TRUE)>>
WritesOne == <<Written("frames", 1, TRUE)>>
CallsTalk == {[read |-> 3, ping |-> 0, close |-> 1]}
CallsChat == {[read |-> 2, ping |-> 1, close |-> 0], [read |-> 1, ping |-> 0, close |-> 1]}

(* What two applications do with blocking calls: messages in parts and     *)
(* fragments, pings between them, an empty last part, close frames that    *)
(* cross, bytes that are not UTF-8.                                        *)
Blocking(what) ==
  [op |-> what, n |-> 0, fin |-> TRUE, frag |-> FALSE, bad |-> FALSE, ec |-> "ok"]
Puts(n, fin, frag) == [Blocking("write") EXCEPT !.n = n, !.fin = fin, !.frag = frag]
Bad       == [Blocking("write") EXCEPT !.n = 1, !.bad = TRUE]
Pings(k)  == [Blocking("ping") EXCEPT !.n = k]
Reads     == Blocking("read")
Drain     == Blocking("drain")
Closes    == Blocking("close")
Script(c, d) == [client |-> c, server |-> d]
ScriptsTalk ==
  {Script(<<Puts(3, FALSE, TRUE), Pings(1), Puts(1, TRUE, FALSE), Closes>>,
          <<Reads, Puts(2, TRUE, TRUE), Drain>>),
   Script(<<Puts(3, TRUE, FALSE), Pings(1), Pings(2), Drain>>,
          <<Pings(3), Puts(2, FALSE, FALSE), Puts(0, TRUE, FALSE), Closes>>),
   Script(<<Puts(2, TRUE, TRUE), Closes, Pings(1)>>, <<Puts(2, FALSE, TRUE), Closes, Reads>>),
   Script(<<Bad, Puts(1, TRUE, FALSE), Drain, Pings(2)>>, <<Pings(1), Drain, Closes>>),
   Script(<<Pings(1), Puts(1, TRUE, FALSE), Drain>>, <<Reads, Closes, Closes>>),
   Script(<<Drain, Closes>>, <<Bad, Reads, Closes>>)}

(* Connections of a handshake: rd_buf takes two units, headers fit or not  *)
(* and so do the frames behind them, what is given to accept() too.        *)
Connection(header, frames, good, with_pmd, given) ==
  [header |-> header, frames |-> frames, sent |-> header + frames, end |-> "stays",
   good |-> good, pmd |-> with_pmd, given |-> given]
Cut(c, n)  == [c EXCEPT !.sent = n]
Closing(n) == Cut([Connection(2, 0, TRUE, FALSE, 0) EXCEPT !.end = "closes"], n)
ClientConnections ==
  {Connection(h, f, TRUE, f = 0, 0) : h \in {2, 3}, f \in {0, 1, 3}}
    \cup {Connection(2, 0, FALSE, FALSE, 0), Closing(0), Closing(1)}
ServerConnections ==
  {Connection(h, f, TRUE, f = 0, k) : h \in {2, 3}, f \in {0, 1}, k \in {0, 1, 3}}
    \cup {Connection(2, 0, FALSE, FALSE, k) : k \in {0, 2}} \cup {Closing(0), Closing(1)}
SilentConnections ==
  {Cut(Connection(h, 0, TRUE, FALSE, 0), n) : h \in {2, 4}, n \in {0, 1}}
    \cup {Cut(Connection(4, 0, TRUE, FALSE, 0), 3)} \cup ClientConnections
AnyTimeouts == [handshake : BOOLEAN, idle : BOOLEAN, keep_alive : BOOLEAN]
HandshakeTimed == {t \in AnyTimeouts : t.handshake}

(* permessage-deflate: streams with any windows of 9, 12 and 15 bits, and  *)
(* fields of no, one or two parameters, good and bad, behind another       *)
(* extension or not.                                                       *)
WindowsOf(windows) ==
  [client_enable : BOOLEAN, server_enable : BOOLEAN, server_bits : windows,
   client_bits : windows, server_forgets : BOOLEAN, client_forgets : BOOLEAN]
AllWindows == WindowsOf({9, 12, 15})
OneWindow  == WindowsOf({15})
PmdParams ==
  [name : {"server_bits", "client_bits"}, value : {-1, 0, 7, 8, 9, 15, 16}]
    \cup [name : {"server_forgets", "client_forgets"}, value : {0, 9}]
    \cup {[name |-> "unknown", value |-> 0]}
PmdField(l) == <<[name |-> "permessage-deflate", params |-> l]>>
PmdFields ==
  LET lists == {<<>>} \cup {<<p>> : p \in PmdParams} \cup (PmdParams \X PmdParams)
  IN  {<<>>} \cup {PmdField(l) : l \in lists}
        \cup {<<[name |-> "other", params |-> <<>>]>> \o PmdField(l) : l \in lists}

(* Headers of frames.  Rules: all opcodes and bits, and few lengths.       *)
(* Lengths: few opcodes, the lengths around each limit in each form, and   *)
(* messages near the limits of the size.                                   *)
Header(code, fin, bits, mask, len, form) ==
  [op |-> code, fin |-> fin, rsv1 |-> bits[1], rsv2 |-> bits[2], rsv3 |-> bits[3],
   mask |-> mask, len |-> len, form |-> form]
Reader(role, c, size, pmd_on, deflated, max) ==
  [role |-> role, cont |-> c, size |-> size, pmd |-> pmd_on, deflated |-> deflated, max |-> max]
RuleFrames ==
  {Header(code, fin, bits, mask, len, "short") :
     code \in 0 .. 15, fin \in BOOLEAN, bits \in [1 .. 3 -> BOOLEAN], mask \in BOOLEAN,
     len \in {0, 2, 126}}
RuleReaders ==
  {Reader(role, FALSE, 0, on, FALSE, 2) : role \in {"client", "server"}, on \in BOOLEAN}
    \cup {Reader("server", TRUE, 1, d, d, 2) : d \in BOOLEAN}
Greatest == 256 ^ 3 - 1
Lens == {0, 1, 125, 126, 127, 65535, 65536, Greatest - 1, Greatest}
NoBits == <<FALSE, FALSE, FALSE>>
LengthFrames ==
  {Header(code, TRUE, NoBits, mask, len, form) :
     code \in {0, 2, 9}, mask \in BOOLEAN, len \in Lens, form \in {"short", "64"}}
    \cup {Header(code, FALSE, NoBits, FALSE, len, "16") : code \in {0, 2}, len \in {1, 125, 126, 65535}}
LengthReaders ==
  {Reader("client", c, size, FALSE, FALSE, max) :
     c \in BOOLEAN, size \in {0, 1, 126, Greatest - 126, Greatest}, max \in {0, 126, 65536, Greatest}}
    \cup {Reader("server", TRUE, Greatest - 126, TRUE, TRUE, 126)}

(* Messages up to two keys long, and close frames with codes around the    *)
(* limits of each range.                                                   *)
DataOf(n) == [kind |-> "data", size |-> n, code |-> 0, utf8 |-> TRUE, own |-> TRUE]
CloseOf(code, n, utf8, own) ==
  [kind |-> "close", size |-> n, code |-> code, utf8 |-> utf8, own |-> own]
Codes == {0, 999, 1000, 1003, 1004, 1006, 1007, 1013, 1014, 1016, 2999, 3000, 65535}
SomePayloads ==
  {DataOf(n) : n \in {1, 4, 7, 8}}
    \cup {CloseOf(code, n, utf8, TRUE) : code \in Codes, n \in {2, 5}, utf8 \in BOOLEAN}
    \cup {CloseOf(code, n, utf8, FALSE) : code \in {0, 1000}, n \in {0, 1, 3}, utf8 \in BOOLEAN}

(* Short: every first byte at which the rules of UTF-8 change with every   *)
(* second one, and an ASCII character behind, in pieces of any size.       *)
(* Long: code points good and bad among ASCII characters, so that words    *)
(* are taken at once.                                                      *)
Firsts  == {65, 128, 193, 194, 224, 225, 237, 240, 241, 244, 245, 248}
Seconds == {65, 128, 143, 144, 159, 160, 191}
Others  == {65, 191}
ShortTexts ==
  {SubSeq(<<a, b, c, d, 65>>, 1, n) :
     a \in Firsts, b \in Seconds, c \in Others, d \in Others, n \in 1 .. 5}
Letters(n) == [i \in 1 .. n |-> 65]
Points ==
  {<<194, 128>>, <<224, 160, 191>>, <<240, 144, 191, 128>>, <<240, 144, 191>>, <<237, 160, 191>>, <<128>>}
LongTexts == {Letters(i) \o p \o Letters(j) : p \in Points, i \in 0 .. 9, j \in {0, 1, 2, 3, 7}}

One(S) == CHOOSE x \in S : TRUE

Sync == INSTANCE WebSocketSync WITH
  Scripts <- Scripts, Room <- Room, WriteBuf <- 2, Caller <- 2,
  MayBreak <- MayBreak, net <- sync_net, hist <- sync_hist
Accept == INSTANCE Handshake WITH
  Clients <- Windowed, Servers <- Windowed, Offers <- PmdFields,
  Answers <- PmdFields, Capacity <- 2, Attempts <- 2, Options <- Timeouts,
  Role <- "server", Connections <- Accepted, impl <- hand_impl,
  net <- hand_net, hist <- hand_hist
Connect == INSTANCE Handshake WITH
  Clients <- Windowed, Servers <- Windowed, Offers <- PmdFields,
  Answers <- PmdFields, Capacity <- 2, Attempts <- 2, Options <- Timeouts,
  Role <- "client", Connections <- Connected, impl <- hand_impl,
  net <- hand_net, hist <- hand_hist
Rules == INSTANCE Frame WITH
  Wide <- 3, HeaderBehind <- 2, Payloads <- SomePayloads, PayloadBehind <- 2,
  Buffers <- 2, Frames <- RuleFrames, Readers <- RuleReaders,
  Texts <- ShortTexts, Sizes <- 1 .. 5, Addresses <- {0}
Lengths == INSTANCE Frame WITH
  Wide <- 3, HeaderBehind <- 2, Payloads <- SomePayloads, PayloadBehind <- 2,
  Buffers <- 2, Frames <- LengthFrames, Readers <- LengthReaders,
  Texts <- LongTexts, Sizes <- {1, 3, 6, 9, 11, 14}, Addresses <- {0, 1, 3}
HandAtRest == INSTANCE Handshake WITH
  Clients <- {One(Windowed)}, Servers <- {}, Offers <- {}, Answers <- {},
  Capacity <- 2, Attempts <- 2, Options <- {One(Timeouts)}, Role <- "client",
  Connections <- {One(Connected)}, impl <- hand_impl, net <- hand_net,
  hist <- hand_hist
FrameAtRest == INSTANCE Frame WITH
  Wide <- 3, HeaderBehind <- 2, Payloads <- {DataOf(1)}, PayloadBehind <- 2,
  Buffers <- 2, Frames <- {One(RuleFrames)}, Readers <- {One(RuleReaders)},
  Texts <- {<<>>}, Sizes <- {1}, Addresses <- {0}

ASSUME WebSocketAssumption ==
  /\ CallerAssumption /\ Sync!SizesAssumption
  /\ Accept!HandshakeAssumption /\ Connect!HandshakeAssumption
  /\ Connect!WindowAssumption
  /\ Rules!SizesAssumption /\ Rules!PayloadAssumption
  /\ Rules!CheckerAssumption /\ Lengths!CheckerAssumption

sync_vars == <<end, sync_net, sync_hist>>
hand_vars == <<hand_impl, op, hand_net, option, hand_hist>>
pmd_vars == <<options, asked, answered, config, pmd, at>>
header_vars == <<fh, header_wire, rd>>
payload_vars == <<tx, payload_wire, rx>>
utf8_vars == <<utf8_text, fed, need, cp, verdict>>
all_vars == <<part, vars, sync_vars, hand_vars, pmd_vars, header_vars,
          payload_vars, utf8_vars>>

(* What is at rest stays in one of its initial states.                     *)
AllInit ==
  /\ part \in Components
  /\ Init
  /\ part # "stream" =>
       net.in = One(Peers).units /\ net.end = One(Peers).end /\ hist.calls = One(Calls)
  /\ Sync!Init
  /\ part # "sync" => \A e \in Sync!Ends : sync_hist[e].calls = One(Scripts)[e]
  /\ CASE part = "accept"  -> Accept!Init
       [] part = "connect" -> Connect!Init
       [] OTHER -> HandAtRest!Init
  /\ IF part = "pmd" THEN Connect!PmdInit
     ELSE HandAtRest!PmdInit /\ options.client # HandAtRest!Other
  /\ CASE part = "rules"   -> Rules!HeaderInit
       [] part = "lengths" -> Lengths!HeaderInit
       [] OTHER -> FrameAtRest!HeaderInit
  /\ IF part = "payload" THEN Rules!PayloadInit ELSE FrameAtRest!PayloadInit
  /\ CASE part = "utf8"  -> Rules!Utf8Init
       [] part = "words" -> Lengths!Utf8Init
       [] OTHER -> FrameAtRest!Utf8Init

(* A step of part x: the others are at rest.                               *)
Runs(x) ==
  /\ part = x /\ UNCHANGED part
  /\ IF x = "stream" THEN TRUE ELSE UNCHANGED vars
  /\ IF x = "sync" THEN TRUE ELSE UNCHANGED sync_vars
  /\ IF x \in {"accept", "connect"} THEN TRUE ELSE UNCHANGED hand_vars
  /\ IF x = "pmd" THEN TRUE ELSE UNCHANGED pmd_vars
  /\ IF x \in {"rules", "lengths"} THEN TRUE ELSE UNCHANGED header_vars
  /\ IF x = "payload" THEN TRUE ELSE UNCHANGED payload_vars
  /\ IF x \in {"utf8", "words"} THEN TRUE ELSE UNCHANGED utf8_vars

AllNext ==
  \/ Runs("stream") /\ Next
  \/ Runs("sync") /\ Sync!Next
  \/ Runs("accept") /\ Accept!Next
  \/ Runs("connect") /\ Connect!Next
  \/ Runs("pmd") /\ Connect!PmdNext
  \/ Runs("rules") /\ Rules!HeaderNext
  \/ Runs("lengths") /\ Lengths!HeaderNext
  \/ Runs("payload") /\ Rules!PayloadNext
  \/ Runs("utf8") /\ Rules!Utf8Next
  \/ Runs("words") /\ Lengths!Utf8Next

WebSocketSpec == AllInit /\ [][AllNext]_all_vars

(* Fairness: handlers that are ready run, the connections hand over what   *)
(* they can, and time passes (see the fairness of each component).         *)
Goes ==
  \/ Runs("stream") /\ Progress
  \/ Runs("sync") /\ Sync!Step("client")
  \/ Runs("connect") /\ Connect!OnStrand
GoesToo ==
  \/ Runs("sync") /\ Sync!Step("server")
  \/ Runs("connect") /\ Connect!Expire

WebSocketFairSpec ==
  WebSocketSpec /\ WF_all_vars(Goes) /\ WF_all_vars(GoesToo)

----------------------------------------------------------------------------
(* Whatever the order of reads, writes, pings, timeouts and closes, with   *)
(* handlers or from two threads: the frames of a stream make sense to its  *)
(* peer, pongs answer pings in order (impl/read.hpp:380, impl/ping.hpp:    *)
(* 69-276), what is read is what was written (impl/read.hpp:533-700,       *)
(* impl/write.hpp:274-530), closed means that both have said so            *)
(* (impl/close.hpp:136-262, 354-452), and the library's assertions hold.   *)
MessagesSurvive ==
  /\ part = "stream" =>
       /\ TypeOK /\ OneAtATime /\ AssertionsHold
       /\ WellFormed /\ PongsInOrder /\ DeliveredInOrder /\ ClosedIsMutual
  /\ part = "sync" =>
       /\ Sync!TypeOK /\ Sync!AssertionsHold /\ Sync!HeadersAgree
       /\ Sync!InOrder /\ Sync!NothingLost /\ Sync!CloseIsLast /\ Sync!ClosedIsMutual
       /\ Sync!PongsAnswer /\ Sync!ErrorOnce

(* Both ends understand each other.  No byte behind a handshake is lost    *)
(* (impl/handshake.hpp:130-171, impl/accept.hpp:130-383), both compress    *)
(* with the windows they agreed on or not at all (detail/pmd_extension.ipp:  *)
(* 57-411), a header is accepted exactly if it is legal                    *)
(* (impl/stream_impl.hpp:705-899), the payload is unmasked and the next    *)
(* frame untouched, a close frame is judged right (detail/mask.ipp:16-62,  *)
(* detail/frame.hpp:226-270), and text is refused exactly if it is not     *)
(* UTF-8 (detail/utf8_checker.ipp:23-329).                                 *)
PeersUnderstand ==
  /\ part \in {"accept", "connect"} => Connect!NothingLost
  /\ part = "pmd" =>
       /\ Connect!BothOrNeither /\ Connect!WindowsFit /\ Connect!TakeoverFits
       /\ Connect!OffersAreMet /\ Connect!KeepsOwnLimits /\ Connect!DeclinesIllFormed
  /\ part = "rules" =>
       /\ Rules!LegalIsAccepted /\ Rules!NoVainWait /\ Rules!ControlIsWhole
       /\ Rules!MessageUntouched
  /\ part = "lengths" => Lengths!HeaderTypeOK /\ Lengths!LegalIsAccepted /\ Lengths!FieldsArrive
  /\ part = "payload" =>
       /\ Rules!PayloadTypeOK /\ Rules!Unmasked /\ Rules!NextUntouched
       /\ Rules!WireIsMasked /\ Rules!CloseIsJudged
  /\ part = "utf8" => Rules!GoodIsUtf8 /\ Rules!Utf8IsGood /\ Rules!FailsFast
  /\ part = "words" => Lengths!GoodIsUtf8 /\ Lengths!Utf8IsGood /\ Lengths!KeepsBegun

(* A stream opens on a good message only, and never on a socket that the   *)
(* timer has closed; and a handshake that the timer has stopped is told so *)
(* (impl/stream_impl.hpp:360-520, stream_base.hpp:94-97).                  *)
TimeoutsAreTold == Connect!OpensGoodOnly /\ Connect!TimeoutIsTold

(* Every call ends: an asynchronous one because the strand goes on, time   *)
(* passes and the timer closes what is silent (impl/stream_impl.hpp:       *)
(* 360-540), a blocking one because the connection hands over what was     *)
(* sent, a handshake because of its time limit.                            *)
CallsEnd ==
  /\ part = "stream" => EveryOpEnds
  /\ part = "sync" => Sync!AllReturn
  /\ part = "connect" => Connect!HandshakeEnds
=============================================================================
