------------------------------- MODULE MCZlib -------------------------------
(***************************************************************************)
(* The compression of Boost.Beast, each component checked on its own: the  *)
(* deflate stream with its levels and strategies, a WebSocket stream's     *)
(* messages through it, the inflate stream, the Huffman trees, how their code *)
(* lengths are sent, the bits of both streams, the tables for lookup and the *)
(* codes of lengths and distances.                                         *)
(***************************************************************************)
EXTENDS Integers, FiniteSetsExt, SequencesExt, TLC

CONSTANTS
  Parts,     (* the components that are checked                            *)
  Repeats,   (* what is compressed                                         *)
  Rooms,     (* how much room a call of deflate has                        *)
  MaxCalls,  (* flushes, params() and resets of a deflate stream           *)
  Streams, Restarted,  (* what is decompressed                             *)
  MaxSends   (* values put into the bit stream                             *)

VARIABLES
  part,  (* the component that runs, the others are at rest *)
  d_text, fed, availIn, availOut, d_flush, level, strategy, params, d_window,
  strstart, lookahead, blockStart, insert, h, matchLength, prevLength,
  matchStart, prevMatch, matchAvail, syms, pending, held, status, lastFlush,
  d_ec, d_pc, after, base, peer, calls, role, noTakeover, phase, fin, start,
  messages,
  stream, at, first, inflate_next, last, buffer, room, inflate_used,
  inflate_flush, inflate_ec, inflate_pc, inflate_n, mode, final, length,
  offset, inflate_window, dataType, inflate_text, told, restarts,
  tree_pc, freq, tree_fc, dl, depth, heap, heap_len, heap_max, node,
  max_code, opt_len, bl_count, lengths_pc, trees, lengths_fc, blcodes,
  lengths_sent, lens, read, bi, v, code_n, taken, bits_sent, got, code_pc,
  type, table_lens, count, sym, huff, len, root, curr, drop, code_next, low,
  code_used, table, kind, value

(* The hash of three bytes; a window of 16 bytes, of which a match reaches *)
(* 7 back, and texts that slide it.                                        *)
LastTwo(t) == <<t[2], t[3]>>
Lazy == [good |-> 4, lazy |-> 4, nice |-> 5, chain |-> 4]
Repetitive ==
  <<"a", "a", "b", "a", "a", "b", "a", "a", "a", "b", "b", "a", "b", "a", "a", "b", "a",
    "b", "a", "a", "a", "a", "a", "a", "b", "b", "a", "a", "b", "b", "a", "a", "b", "a", "b", "a">>

(* Streams for Inflate, with the bits the format has for what is in them.  *)
It(what, b, x, more) == more @@ [k |-> what, bits |-> b, extra |-> x]

Block(what, ends)      == It("block", 3, 0, [type |-> what, last |-> ends])
SizesOf(m, ok)         == It("sizes", 32, 0, [n |-> m, ok |-> ok])
Octet(c)               == It("byte", 8, 0, [c |-> c])
Coded(c, b, needs)     == It("lit", b, 0, [c |-> c, need |-> needs])
Long(m, b, needs, x)   == It("len", b, x, [n |-> m, need |-> needs])
Far(d, b, needs, x, ok) == It("dist", b, x, [d |-> d, need |-> needs, ok |-> ok])
Eob(b, needs)          == It("eob", b, 0, [need |-> needs])
BadCode(b, needs)      == It("bad", b, 0, [need |-> needs])
Counts(ok)             == It("counts", 14, 0, [ok |-> ok])
LenLenOf               == It("lenlen", 3, 0, [ok |-> TRUE])
CodesOf(ok)            == It("codes", 0, 0, [ok |-> ok])
CodeLen(b, x, ok)      == It("codelen", b, x, [need |-> IF b + x > 7 THEN b + x ELSE 7, ok |-> ok])
TablesOf(ok)           == It("tables", 0, 0, [ok |-> ok])

(* The fixed codes: 9 bits of the length code and 5 of the other are       *)
(* looked up.                                                              *)
L(c)    == Coded(c, 8, 9)
M(m, d) == <<Long(m, 7, 9, 0), Far(d, 5, 5, 0, TRUE)>>
E       == Eob(7, 9)

(* Blocks with their own codes, the longest codes there are in one of them *)
(* and in another one bit for a literal and two for the end of the block.  *)
Dynamic(ends, few) == <<Block("dynamic", ends), Counts(TRUE)>> \o [i \in 1 .. few |-> LenLenOf] \o <<CodesOf(TRUE)>>
Fixed   == <<Block("fixed", TRUE), L(1), L(2)>> \o M(3, 2) \o <<L(1)>> \o M(4, 4) \o <<L(2), L(2), E>>
Mixed   == <<Block("stored", FALSE), SizesOf(3, TRUE), Octet(1), Octet(2), Octet(2), Block("fixed", FALSE)>>
           \o M(4, 3) \o <<L(1)>> \o M(3, 4) \o <<E, Block("stored", TRUE), SizesOf(0, TRUE)>>
Longest == Dynamic(TRUE, 4) \o
  <<CodeLen(1, 7, TRUE), CodeLen(2, 0, TRUE), CodeLen(1, 7, TRUE), CodeLen(2, 2, TRUE), TablesOf(TRUE),
    Coded(1, 15, 15), Coded(2, 10, 15), Long(3, 15, 15, 5), Far(2, 15, 15, 13, TRUE),
    Coded(2, 3, 9), Long(4, 15, 15, 5), Far(4, 15, 15, 13, TRUE), Eob(12, 13)>>
Skewed  == Dynamic(FALSE, 18) \o
  <<CodeLen(1, 7, TRUE), CodeLen(2, 0, TRUE), CodeLen(1, 7, TRUE), CodeLen(1, 7, TRUE),
    CodeLen(2, 0, TRUE), CodeLen(2, 0, TRUE), CodeLen(2, 0, TRUE), TablesOf(TRUE),
    Coded(1, 1, 9), Coded(1, 1, 9), Eob(2, 9),
    Block("fixed", TRUE), L(1), L(2), L(1), L(2), L(1), L(2), L(1), E>>

Refused ==
  {<<Block("bad", FALSE)>>,
   <<Block("stored", FALSE), SizesOf(1, FALSE)>>,
   <<Block("dynamic", FALSE), Counts(FALSE)>>,
   <<Block("dynamic", FALSE), Counts(TRUE), LenLenOf, CodesOf(FALSE)>>,
   Dynamic(FALSE, 1) \o <<CodeLen(2, 2, FALSE)>>,
   Dynamic(FALSE, 1) \o <<CodeLen(2, 2, TRUE), TablesOf(FALSE)>>,
   <<Block("fixed", FALSE), L(1), BadCode(8, 9)>>,
   <<Block("fixed", FALSE), L(1), L(2), Long(3, 7, 9, 0), Far(9, 5, 5, 0, FALSE)>>,
   <<Block("fixed", FALSE), L(1), L(2), L(1), Long(3, 7, 9, 0), Far(4, 5, 5, 1, TRUE)>>}

AllStreams ==
  [items : {Fixed, Mixed, Longest, Skewed}, tail : {2}, valid : {TRUE}]
    \cup [items : Refused, tail : {7}, valid : {FALSE}]

FewStreams == {[items |-> s, tail |-> 2, valid |-> TRUE] : s \in {Longest, Mixed}}

(* A tree as deep as it can be or flat, cut at three bits; lengths of      *)
(* codes in runs as long as the limits are and one more or less.           *)
DeepExtra == [n \in 0 .. 4 |-> IF n >= 3 THEN n - 2 ELSE 0]
OneRun(l, n) == [i \in 1 .. n |-> l]
LitRuns ==
  {OneRun(a, i) \o OneRun(b, j) \o OneRun(c, k) :
     a \in {0, 8}, b \in {0, 1, 8}, c \in {1, 8}, i \in {1, 7, 139}, j \in {3, 7, 10, 11}, k \in {1, 4}}
DistRuns == {OneRun(a, 4) \o OneRun(8, j) : a \in {0, 8}, j \in {1, 4}}

(* All distances that are coded one by one, and both ends of each 128 with *)
(* one code above them.                                                    *)
SomeDistances == (1 .. 384) \cup {128 * k + d : k \in 4 .. 255, d \in {0, 1}} \cup {32768}

Plain == INSTANCE Deflate WITH
  Texts <- {Repeats}, Bytes <- {"a", "b"}, Blank <- "-", Bucket <- LastTwo,
  WSize <- 16, MaxMatch <- 5, TooFar <- 4, FilteredLen <- 4, LitBufSize <- 8,
  MaxBlockSize <- 6, Held <- 1, Config <- Lazy, Rooms <- Rooms,
  MaxCalls <- MaxCalls, Out <- 3,
  Negotiated <- {[client |-> TRUE, server |-> FALSE]}, MaxMessages <- 2,
  ParamRooms <- {100}, Levels <- {0, 1, 4}, Strategies <- {"normal"},
  Pieces <- {0, 12},
  Flushes <- {"none", "partial", "sync", "full", "finish"}, text <- d_text,
  flush <- d_flush, window <- d_window, ec <- d_ec, pc <- d_pc
Others == INSTANCE Deflate WITH
  Texts <- {Repeats}, Bytes <- {"a", "b"}, Blank <- "-", Bucket <- LastTwo,
  WSize <- 16, MaxMatch <- 5, TooFar <- 4, FilteredLen <- 4, LitBufSize <- 8,
  MaxBlockSize <- 6, Held <- 1, Config <- Lazy, Rooms <- {4, 100},
  MaxCalls <- MaxCalls, Out <- 3,
  Negotiated <- {[client |-> TRUE, server |-> FALSE]}, MaxMessages <- 2,
  ParamRooms <- {100}, Levels <- {0, 4},
  Strategies <- {"filtered", "huffman", "rle"}, Pieces <- {0, 11},
  Flushes <- {"none", "block", "full", "finish"}, text <- d_text,
  flush <- d_flush, window <- d_window, ec <- d_ec, pc <- d_pc
Message == INSTANCE Deflate WITH
  Texts <- {Repeats}, Bytes <- {"a", "b"}, Blank <- "-", Bucket <- LastTwo,
  WSize <- 16, MaxMatch <- 5, TooFar <- 4, FilteredLen <- 4, LitBufSize <- 8,
  MaxBlockSize <- 6, Held <- 1, Config <- Lazy, Rooms <- Rooms,
  MaxCalls <- MaxCalls, Out <- 3,
  Negotiated <- {[client |-> TRUE, server |-> FALSE]}, MaxMessages <- 2,
  ParamRooms <- {100}, Levels <- {0, 4}, Strategies <- {"normal"},
  Pieces <- {0, 4, 9}, Flushes <- {"none"}, text <- d_text, flush <- d_flush,
  window <- d_window, ec <- d_ec, pc <- d_pc
Reading == INSTANCE Inflate WITH
  Chars <- {1, 2}, Blank <- 0, Capacity <- 4, FastOut <- 5,
  Streams <- Streams, Pieces <- {1, 8}, Rooms <- {0, 2, 9},
  Flushes <- {"none", "finish", "trees"}, MaxRestarts <- 0,
  next <- inflate_next, used <- inflate_used, flush <- inflate_flush,
  ec <- inflate_ec, pc <- inflate_pc, n <- inflate_n,
  window <- inflate_window, text <- inflate_text
Again == INSTANCE Inflate WITH
  Chars <- {1, 2}, Blank <- 0, Capacity <- 4, FastOut <- 5,
  Streams <- Restarted, Pieces <- {1, 8}, Rooms <- {1, 9},
  Flushes <- {"none"}, MaxRestarts <- 1, next <- inflate_next,
  used <- inflate_used, flush <- inflate_flush, ec <- inflate_ec,
  pc <- inflate_pc, n <- inflate_n, window <- inflate_window,
  text <- inflate_text
Trees == INSTANCE HuffmanTree WITH
  Elems <- 5, MaxLength <- 3, Frequencies <- {0, 1, 2, 5},
  Extra <- DeepExtra, LitLengths <- LitRuns, DistLengths <- DistRuns,
  BitsLengths <- {1, 7, 16}, Primes <- {3, 16}, MaxSends <- MaxSends,
  Codes <- 5, MaxBits <- 4, RootBits <- 2, Distances <- SomeDistances,
  n <- code_n, pc <- code_pc, next <- code_next, used <- code_used
AtRest == INSTANCE HuffmanTree WITH
  Elems <- 5, MaxLength <- 3, Frequencies <- {1}, Extra <- DeepExtra,
  LitLengths <- {<<1>>}, DistLengths <- {<<1>>}, BitsLengths <- {1, 7, 16},
  Primes <- {3, 16}, MaxSends <- MaxSends, Codes <- 1, MaxBits <- 1,
  RootBits <- 1, Distances <- SomeDistances, n <- code_n, pc <- code_pc,
  next <- code_next, used <- code_used

ASSUME ZlibAssumption ==
  /\ Plain!HashAssumption /\ Plain!DeflateAssumption
  /\ Others!DeflateAssumption /\ Message!DeflateAssumption /\ Message!OutAssumption
  /\ Reading!InflateAssumption /\ Again!InflateAssumption
  /\ Trees!TreeAssumption /\ Trees!BitsAssumption /\ Trees!TableAssumption
  /\ Trees!DistancesAssumption

deflate_vars == <<d_text, fed, availIn, availOut, d_flush, level, strategy,
                  params, d_window, strstart, lookahead, blockStart, insert,
                  h, matchLength, prevLength, matchStart, prevMatch,
                  matchAvail, syms, pending, held, status, lastFlush, d_ec,
                  d_pc, after, base, peer, calls>>
message_vars == <<role, noTakeover, phase, fin, start, messages>>
inflate_vars == <<stream, at, first, inflate_next, last, buffer, room,
                  inflate_used, inflate_flush, inflate_ec, inflate_pc,
                  inflate_n, mode, final, length, offset, inflate_window,
                  dataType, inflate_text, told, restarts>>
tree_vars == <<tree_pc, freq, tree_fc, dl, depth, heap, heap_len, heap_max,
               node, max_code, opt_len, bl_count>>
lengths_vars == <<lengths_pc, trees, lengths_fc, blcodes, lengths_sent, lens,
                  read>>
bits_vars == <<bi, v, code_n, taken, bits_sent, got>>
table_vars == <<code_pc, type, table_lens, count, sym, huff, len, root, curr,
                drop, code_next, low, code_used, table>>
tables_vars == <<kind, value>>
zlib_vars == <<part, deflate_vars, message_vars, inflate_vars, tree_vars,
          lengths_vars, bits_vars, table_vars, tables_vars>>

(* What is at rest stays in one of its initial states.                     *)
ZlibInit ==
  /\ part \in Parts
  /\ CASE part = "others"  -> Others!MessageInit
       [] part = "message" -> Message!MessageInit
       [] OTHER -> Plain!MessageInit
  /\ part # "message" => role = "client"
  /\ part \notin {"plain", "others", "message"} => level = 0
  /\ IF part = "inflate" THEN Reading!Init ELSE Again!Init
  /\ part \notin {"inflate", "again"} => stream.items = Mixed
  /\ IF part = "tree" THEN Trees!TreeInit ELSE AtRest!TreeInit
  /\ IF part = "lengths" THEN Trees!LengthsInit ELSE AtRest!LengthsInit
  /\ Trees!BitsInit
  /\ IF part = "table" THEN Trees!TableInit ELSE AtRest!TableInit /\ type = "lens" /\ table_lens[0] = 0
  /\ Trees!TablesInit /\ (part # "tables" => kind = "length")

(* A step of part x: the others are at rest.                               *)
Runs(x) ==
  /\ part = x /\ UNCHANGED part
  /\ IF x \in {"plain", "others", "message"} THEN TRUE ELSE UNCHANGED deflate_vars
  /\ IF x = "message" THEN TRUE ELSE UNCHANGED message_vars
  /\ IF x \in {"inflate", "again"} THEN TRUE ELSE UNCHANGED inflate_vars
  /\ IF x = "tree" THEN TRUE ELSE UNCHANGED tree_vars
  /\ IF x = "lengths" THEN TRUE ELSE UNCHANGED lengths_vars
  /\ IF x = "bits" THEN TRUE ELSE UNCHANGED bits_vars
  /\ IF x = "table" THEN TRUE ELSE UNCHANGED table_vars
  /\ IF x = "tables" THEN TRUE ELSE UNCHANGED tables_vars

ZlibNext ==
  \/ Runs("plain") /\ Plain!Next
  \/ Runs("others") /\ Others!Next
  \/ Runs("message") /\ Message!MessageNext
  \/ Runs("inflate") /\ Reading!Next
  \/ Runs("again") /\ Again!Next
  \/ Runs("tree") /\ Trees!TreeNext
  \/ Runs("lengths") /\ Trees!LengthsNext
  \/ Runs("bits") /\ Trees!BitsNext
  \/ Runs("table") /\ Trees!Next
  \/ Runs("tables") /\ Trees!CodeNext

ZlibSpec == ZlibInit /\ [][ZlibNext]_zlib_vars

----------------------------------------------------------------------------
(* What was compressed so far decodes to what was given, whatever the      *)
(* pieces, the room, the flushes and the parameters; a flush delivers all  *)
(* of it and a finished stream is whole (detail/deflate_stream.ipp:        *)
(* 1310-2295); so does a WebSocket message in its frames without the       *)
(* marker (impl_base.hpp:90-151, write.hpp:440-530).  What is decompressed *)
(* is the text, however the input and the room are cut, no bit is read     *)
(* twice, and only what is not valid is refused                            *)
(* (detail/inflate_stream.ipp:70-530, 950-1107).                           *)
StreamsRoundTrip ==
  /\ part \in {"plain", "others"} =>
       /\ Plain!RoundTrip /\ Plain!FinishIsWhole /\ Plain!FullForgets
       /\ Plain!EmptyOrFull
  /\ part = "plain" =>
       /\ Plain!TypeOK /\ Plain!FlushDelivers /\ Plain!AssertionsHold /\ Plain!FillsAtOnce
  /\ part = "message" => Message!MessageWhole /\ Message!DeflateAsserts
  /\ part = "inflate" =>
       /\ Reading!TypeOK /\ Reading!OutputIsText /\ Reading!InStep
       /\ Reading!StopsForReason /\ Reading!WindowHasLast
  /\ part = "again" => Again!InStep /\ Again!ReadsWithin /\ Again!WindowHasLast

(* A block's code is complete, no code begins another, its cost is what    *)
(* was added up (detail/deflate_stream.ipp:770-1010); its lengths arrive   *)
(* as they were sent (:1040-1190), the bits too, with none beyond those    *)
(* that count (detail/bitstream.hpp:66-196); the table finds the symbol of *)
(* each code and refuses what is no code (detail/inflate_stream.ipp:       *)
(* 610-900); each length and distance has a code of the fewest bits that   *)
(* the reader's tables take back (detail/deflate_stream.ipp:156-193).      *)
CodesRoundTrip ==
  /\ part = "tree" =>
       /\ Trees!TakenInOrder /\ Trees!CodeIsComplete /\ Trees!CodesApart
       /\ Trees!CostIsExact /\ Trees!FrequentShorter
  /\ part = "lengths" =>
       /\ Trees!LengthsArrive /\ Trees!CountedIsSent /\ Trees!RepeatsFit /\ Trees!CodesGoBefore
  /\ part = "bits" => Trees!NoBitsBeyond /\ Trees!ReadIsSent
  /\ part = "table" => Trees!FindsSymbol /\ Trees!RefusedIsBad /\ Trees!AllUsed
  /\ part = "tables" => Trees!CodesAgree /\ Trees!FewestBits

(* A flush of the bits leaves less than a byte with the writer, and the    *)
(* reader takes no byte that a value does not need                         *)
(* (detail/deflate_stream.ipp:1250-1282, detail/bitstream.hpp:126-139).    *)
NothingHeldBack == Trees!NothingHeld /\ Trees!TakesNeeded
=============================================================================
