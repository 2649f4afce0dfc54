----------------------------- MODULE AllStreams ------------------------------
(***************************************************************************)
(* The streams of Boost.Beast, each on its own: basic_stream with and      *)
(* without a rate limit, the two ends of a test::stream, flat_stream,      *)
(* icy_stream, buffered_read_stream, detect_ssl and read.                  *)
(***************************************************************************)
EXTENDS BasicStream

CONSTANTS
  Parts,     (* the components that are checked                            *)
  BasicOps,  (* bound of basic_stream; MaxOps if there are only transfers  *)
  Sizes, ReadMax, WriteMax, FailCounts, Never, MaxArrived, MaxCalls,
  Shapes, flat_max_size, max_stack, Streams, IcySizes, IcyMaxFailures, Length,
  BufferedSizes, Capacities, buffered_max_size, Floor, BufferedMaxFailures,
  MaxChanges, Calls, detect_max_size, AtLeast, MaxRead, MaxSent, MaxPreload

VARIABLES
  part,  (* the component that runs, the others are at rest *)
  input, op, code, out, fail_at, counted, pc, size, reading, posted, calls,
  outcome, arrived, got, told,
  rest, buffer, stack, handed, flat_pending, wire, flat_all, failed,
  icy_all, icy_sent, icy_closed, buf_, detect_, icy_pc, icy_kind, icy_size,
  icy_ec, icy_read, icy_got, icy_told, icy_failures, buffered_sent,
  buffered_read, buffer_, capacity_, buffered_pc, buffered_kind,
  buffered_size, prepared, buffered_ec, buffered_got, buffered_told,
  buffered_failures, changes, hello, detect_sent, detect_closed, detect_size,
  before, detect_call, detect_kind, detect_pc, asked, total, error, result,
  inside

(* test::stream, of whose fail_count `counted` is i_, and `input` is b.    *)
Test == INSTANCE TestStream WITH b <- input, i <- counted

(* The layers: flat_stream, icy_stream, buffered_read_stream, detect_ssl.  *)
Layer == INSTANCE Layers WITH
  pending <- flat_pending, room <- prepared, ec <- error

ASSUME StreamsAssumption ==
  /\ BasicStreamAssumption
  /\ Test!TestStreamAssumption
  /\ Layer!FlatStreamAssumption /\ Layer!IcyStreamAssumption
  /\ Layer!BufferedReadAssumption /\ Layer!DetectSslAssumption

test_vars == <<input, op, code, out, fail_at, counted, pc, size, reading,
               posted, calls, outcome, arrived, got, told>>
flat_vars == <<rest, buffer, stack, handed, flat_pending, wire, flat_all,
               failed>>
icy_vars == <<icy_all, icy_sent, icy_closed, buf_, detect_, icy_pc, icy_kind,
              icy_size, icy_ec, icy_read, icy_got, icy_told, icy_failures>>
buffered_vars == <<buffered_sent, buffered_read, buffer_, capacity_,
                   buffered_pc, buffered_kind, buffered_size, prepared,
                   buffered_ec, buffered_got, buffered_told,
                   buffered_failures, changes>>
detect_vars == <<hello, detect_sent, detect_closed, detect_size, before,
                 detect_call, detect_kind, detect_pc, asked, total,
                 error, result, inside>>
streams_vars == <<part, vars, test_vars, flat_vars, icy_vars, buffered_vars,
                  detect_vars>>

(* What is at rest stays in one of its initial states.                     *)
StreamsInit ==
  /\ part \in Parts
  /\ Init
  /\ Test!Init /\ (part # "test" => fail_at = [e \in Test!End |-> Never])
  /\ Layer!FlatInit /\ (part # "flat" => rest = <<<<1>>>>)
  /\ Layer!IcyInit /\ (part # "icy" => icy_all = <<>>)
  /\ Layer!BufferedInit /\ (part # "buffered" => capacity_ = 0)
  /\ Layer!DetectInit
  /\ part # "detect" => detect_sent = 0 /\ \A k \in DOMAIN hello : hello[k]

(* A step of part p: the others are at rest.                               *)
Runs(p) ==
  /\ part = p /\ UNCHANGED part
  /\ IF p \in {"basic", "transfers"} THEN TRUE ELSE UNCHANGED vars
  /\ IF p = "test" THEN TRUE ELSE UNCHANGED test_vars
  /\ IF p = "flat" THEN TRUE ELSE UNCHANGED flat_vars
  /\ IF p = "icy" THEN TRUE ELSE UNCHANGED icy_vars
  /\ IF p = "buffered" THEN TRUE ELSE UNCHANGED buffered_vars
  /\ IF p = "detect" THEN TRUE ELSE UNCHANGED detect_vars

(* Reads and writes of a stream without deadlines that nobody closes.      *)
Transfers ==
  \/ \E d \in Dir, n \in 1 .. MaxBytes : StartTransfer(d, n)
  \/ \E d \in Dir : SocketDone(d)
  \/ RunHandler \/ RateExpire \/ RateDue

StreamsNext ==
  \/ Runs("basic") /\ Next /\ ops' <= BasicOps
  \/ Runs("transfers") /\ Transfers
  \/ Runs("test") /\ Test!Next
  \/ Runs("flat") /\ Layer!FlatNext
  \/ Runs("icy") /\ Layer!IcyNext
  \/ Runs("buffered") /\ Layer!BufferedNext
  \/ Runs("detect") /\ Layer!DetectNext

StreamsSpec == StreamsInit /\ [][StreamsNext]_streams_vars

(* Fairness: what was asked for happens.  Strands and contexts run their   *)
(* handlers, time passes, a thread goes on within its call; a peer that is *)
(* read from sends all it has, closes in the end, and a reader reads on.   *)
(* Nothing else is asked of a peer (see the fairness of each component).   *)
Goes ==
  \/ Runs("basic") /\ RunHandler
  \/ Runs("test") /\ Test!RunRead
  \/ Runs("flat") /\ Layer!FlatNext
  \/ Runs("icy") /\ Layer!IcyReading
  \/ Runs("buffered") /\ Layer!BufferedReading
  \/ Runs("detect") /\ Layer!Operation

Comes ==
  \/ Runs("basic") /\ RateExpire
  \/ Runs("icy") /\ Layer!IcyPeerSends
  \/ Runs("buffered") /\ Layer!BufferedPeerSends
  \/ Runs("detect") /\ Layer!DetectPeerCloses

Begins ==
  \/ Runs("basic") /\ RateDue
  \/ Runs("detect") /\ Layer!Start

Reads ==
  \/ Runs("icy") /\ Layer!icy_read_some /\ icy_size' > 0
  \/ Runs("buffered") /\ Layer!buffered_read_some /\ buffered_size' > 0

(* The directions of a basic_stream, and the ends of a test::stream.       *)
Sides == {<<"read", "a">>, <<"write", "b">>}

Wakes(s) ==
  \/ Runs("basic") /\ Expire(s[1])
  \/ Runs("test") /\ Test!Woken(s[2])
Delivers(s) ==
  \/ Runs("basic") /\ DeadlineDue(s[1])
  \/ Runs("test") /\ Test!Copy(s[2])
Ends(s) ==
  \/ Runs("basic") /\ (~open \/ phase[s[1]] = "noop") /\ SocketDone(s[1])
  \/ Runs("test") /\ Test!Disconnect(s[2])

StreamsFairSpec ==
  /\ StreamsSpec
  /\ WF_streams_vars(Goes) /\ WF_streams_vars(Comes) /\ WF_streams_vars(Begins)
  /\ SF_streams_vars(Reads)
  /\ \A s \in Sides :
       WF_streams_vars(Wakes(s)) /\ WF_streams_vars(Delivers(s)) /\ WF_streams_vars(Ends(s))

----------------------------------------------------------------------------
(* Whatever mixture of calls, sizes, partial results, cancellations and    *)
(* capacities: the bytes come once and in their order.  For test::stream   *)
(* those of an area (impl/stream.hpp:91-99), for flat_stream those of the  *)
(* caller's buffers (impl/flat_stream.hpp:45, 222), for icy_stream with    *)
(* the first three replaced or not (impl/icy_stream.hpp:92-144), for       *)
(* buffered_read_stream with what was put into its buffer from outside     *)
(* (impl/buffered_read_stream.hpp:92-101, 195-211).                        *)
BytesInOrder ==
  /\ Test!InOrder
  /\ Layer!FlatInOrder /\ Layer!OneBuffer /\ Layer!Bounded
  /\ Layer!IcyInOrder
  /\ Layer!BufferedInOrder

(* A read waits only for what it needs and somebody can still answer, in   *)
(* one place, and is answered once; a verdict of detect_ssl is the one     *)
(* the whole hello would get; a stream that has failed goes on failing     *)
(* (impl/stream.ipp:48-65, impl/stream.hpp:90, detect_ssl.hpp:128-168,     *)
(* detail/impl/read.hpp:80-101, fail_count.hpp:21-25).                     *)
WaitsAndVerdicts ==
  /\ Test!WaitsForNothing /\ Test!OnePlace /\ Test!FailsEverAfter
  /\ Layer!WaitsOnlyUndecided /\ Layer!VerdictStands /\ Layer!ReadsEnough
  /\ Layer!NotInside

(* What each side waits for, and that it has it: an operation under a      *)
(* deadline ends even if the peer is silent and the rate policy holds it   *)
(* back; a read of an end ends when there are bytes or the other end has   *)
(* closed; what a caller of flat_stream repeats is written in the end; a   *)
(* reader of icy_stream or buffered_read_stream that goes on has all; an   *)
(* operation of detect_ssl ends when the peer closes                       *)
(* (impl/basic_stream.hpp:206-260, impl/stream.ipp:117-128,                *)
(* impl/flat_stream.hpp:210-233, impl/icy_stream.hpp:39-46,                *)
(* impl/buffered_read_stream.hpp:57-103, detect_ssl.hpp:231-260).          *)
Owed(s) ==
  \/ part = "basic" /\ phase[s[1]] # "idle" /\ expiry[s[1]] # "never"
  \/ /\ part = "test" /\ (input[s[2]] # <<>> \/ code[s[2]] # "ok")
     /\ reading[s[2]] \/ pc[s[2]] = "wait"
  \/ part \in {"flat", "icy", "buffered"}
  \/ part = "detect" /\ detect_pc = "call"

Had(s) ==
  \/ part = "basic" /\ phase[s[1]] = "idle"
  \/ part = "test" /\ ~reading[s[2]] /\ pc[s[2]] # "wait"
  \/ part = "flat" /\ (failed \/ wire = flat_all)
  \/ part = "icy" /\ (Layer!Undecided \/ icy_got = Layer!Expected \/ icy_told = "eof")
  \/ part = "buffered" /\ Len(buffered_got) = Length
  \/ part = "detect" /\ detect_pc = "done"

StreamsSettle == \A s \in Sides : Owed(s) ~> Had(s)

-----------------------------------------------------------------------------
(* Values for the runs.                                                    *)
ShapesOf(sizes) == UNION {[1..n -> sizes] : n \in 1..3}
AnyShapes == ShapesOf({0, 1, 2, 3, 5})
FullShapes == ShapesOf({1, 2, 3, 5})

SomeStreams ==
  {<<"I", "C", "Y", "a", "b">>, <<"I", "C", "x", "I", "C", "Y">>, <<"x">>,
   <<"I", "x", "a">>, <<"I", "C", "Y">>, <<>>, <<"I", "C">>}

NeverFails == [e \in {"a", "b"} |-> Never]
OnlyNever == {NeverFails}
MayFail == {NeverFails, [NeverFails EXCEPT !["a"] = 2]}
=============================================================================
