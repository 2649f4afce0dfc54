----------------------------- MODULE MCBuffers ------------------------------
(***************************************************************************)
(* Where Boost.Beast keeps bytes, each kind checked on its own: the four   *)
(* dynamic buffers, the views of buffer sequences, static_string and the   *)
(* decimal numbers it is made from.                                        *)
(***************************************************************************)
EXTENDS StaticBuffer, Integers

CONSTANTS
  Parts,                (* the components that are checked                 *)
  FlatFed,              (* bytes written to a flat_buffer                  *)
  MultiSizes, MultiFed, (* calls of a multi_buffer, and bytes written      *)
  MostParts             (* buffers in a part of a view                     *)

VARIABLES
  part,  (* the component that runs, the others are at rest *)
  flat_mem, flat_end, in, flat_out, last, flat_max, flat_fed, flat_prepared,
  flat_result,
  list, multi_out, multi_in_size, multi_in_pos, multi_out_pos, multi_out_end,
  multi_max, copying, multi_fed, multi_prepared, multi_result,
  seq_mem, begin, seq_out, seq_end, seq_in_pos, seq_in_size, seq_out_pos,
  seq_out_end, seq_fed, seq_handed, seq_result, kind, parts, size_, remain_,
  end_, begin_, skip_, it, pos, gone,
  s, t, std, ostd, threw, stdThrew, x, rest, text

(* Sequences of buffers of no, one or two bytes; as one sequence those are *)
(* the bases of prefixes and suffixes.                                     *)
OfSizes(n, sizes) == UNION {[1..k -> sizes] : k \in 0..n}
SizesOfParts ==
  {<<u, v, w>> : u, v \in OfSizes(MostParts, 0..2), w \in OfSizes(1, 0..1)}

Given == {<<>>, <<1>>, <<2, 1>>, <<1, 2, 2>>}

Flat == INSTANCE FlatBuffer WITH
  Sizes <- 0 .. 4, AllocMax <- 3, MaxFed <- FlatFed, mem <- flat_mem,
  end <- flat_end, out <- flat_out, max <- flat_max, fed <- flat_fed,
  prepared <- flat_prepared, result <- flat_result
Multi == INSTANCE MultiBuffer WITH
  Sizes <- MultiSizes, Chunk <- 2, Held <- {<<>>}, MaxFed <- MultiFed,
  out <- multi_out, in_size <- multi_in_size, in_pos <- multi_in_pos,
  out_pos <- multi_out_pos, out_end <- multi_out_end, max <- multi_max,
  fed <- multi_fed, prepared <- multi_prepared, result <- multi_result
Blocks == INSTANCE BufferSequences WITH
  BlockSizes <- <<2, 0, 3, 1>>, Sizes <- {0, 1, 2, 3, 5, 6}, MaxFed <- 7,
  Parts <- SizesOfParts, Kinds <- {"cat", "prefix", "suffix"}, W <- 4,
  mem <- seq_mem, out <- seq_out, end <- seq_end, in_pos <- seq_in_pos,
  in_size <- seq_in_size, out_pos <- seq_out_pos, out_end <- seq_out_end,
  fed <- seq_fed, handed <- seq_handed, result <- seq_result
Text == INSTANCE StaticString WITH
  N <- 4, M <- 2, Chars <- {1, 2}, Given <- Given, Own <- FALSE,
  EndIn <- FALSE, Signed <- FALSE, Values <- 0 .. 255
OwnText == INSTANCE StaticString WITH
  N <- 3, M <- 1, Chars <- {1, 2}, Given <- {<<1>>}, Own <- TRUE,
  EndIn <- FALSE, Signed <- TRUE, Values <- -127 .. 127

ASSUME BuffersAssumption ==
  /\ StaticBufferAssumption /\ Flat!FlatBufferAssumption
  /\ Multi!MultiBufferAssumption
  /\ Blocks!BuffersAdaptorAssumption /\ Blocks!BufferViewsAssumption
  /\ Text!StringAssumption /\ Text!ValuesAssumption
  /\ OwnText!StringAssumption /\ OwnText!ValuesAssumption

flat_vars == <<flat_mem, flat_end, in, flat_out, last, flat_max, flat_fed,
               flat_prepared, flat_result>>
multi_vars == <<list, multi_out, multi_in_size, multi_in_pos, multi_out_pos,
                multi_out_end, multi_max, copying, multi_fed, multi_prepared,
                multi_result>>
adaptor_vars == <<seq_mem, begin, seq_out, seq_end, seq_in_pos, seq_in_size,
                  seq_out_pos, seq_out_end, seq_fed, seq_handed, seq_result>>
views_vars == <<kind, parts, size_, remain_, end_, begin_, skip_, it, pos,
                gone>>
text_vars == <<s, t, std, ostd, threw, stdThrew>>
decimal_vars == <<x, rest, text>>
buffers_vars == <<part, vars, flat_vars, multi_vars, adaptor_vars,
          views_vars, text_vars, decimal_vars>>

(* What is at rest stays in one of its initial states.                     *)
BuffersInit ==
  /\ part \in Parts
  /\ Init
  /\ Flat!Init /\ (part # "flat" => flat_max = 0)
  /\ Multi!Init /\ (part # "multi" => multi_max = 0)
  /\ Blocks!AdaptorInit
  /\ Blocks!ViewsInit /\ (part # "views" => parts = <<<<>>, <<>>, <<>>>>)
  /\ IF part = "own" THEN OwnText!Init ELSE Text!Init
  /\ IF part = "signed" THEN OwnText!DecimalInit ELSE Text!DecimalInit
  /\ part \notin {"unsigned", "signed"} => x = 0

(* A step of part p: the others are at rest.                               *)
Runs(p) ==
  /\ part = p /\ UNCHANGED part
  /\ IF p = "static" THEN TRUE ELSE UNCHANGED vars
  /\ IF p = "flat" THEN TRUE ELSE UNCHANGED flat_vars
  /\ IF p = "multi" THEN TRUE ELSE UNCHANGED multi_vars
  /\ IF p = "adaptor" THEN TRUE ELSE UNCHANGED adaptor_vars
  /\ IF p = "views" THEN TRUE ELSE UNCHANGED views_vars
  /\ IF p \in {"text", "own"} THEN TRUE ELSE UNCHANGED text_vars
  /\ IF p \in {"unsigned", "signed"} THEN TRUE ELSE UNCHANGED decimal_vars

BuffersNext ==
  \/ Runs("static") /\ Next
  \/ Runs("flat") /\ Flat!Next
  \/ Runs("multi") /\ Multi!Next
  \/ Runs("adaptor") /\ Blocks!AdaptorNext
  \/ Runs("views") /\ Blocks!ViewsNext
  \/ Runs("text") /\ Text!Next
  \/ Runs("own") /\ OwnText!Next
  \/ Runs("unsigned") /\ Text!DecimalNext
  \/ Runs("signed") /\ OwnText!DecimalNext

BuffersSpec == BuffersInit /\ [][BuffersNext]_buffers_vars

----------------------------------------------------------------------------
(* The other dynamic buffers implement ByteQueue as well: bytes come out   *)
(* as they went in, across every move and replacement of the block of a    *)
(* flat_buffer (impl/flat_buffer.hpp:324-366), every way the blocks of a   *)
(* multi_buffer are used again and freed (impl/multi_buffer.hpp:812-1019), *)
(* and the ends of the blocks of a buffers_adaptor                         *)
(* (impl/buffers_adaptor.hpp:310-430).                                     *)
OthersImplementByteQueue ==
  Flat!ImplementsByteQueue /\ Multi!ImplementsByteQueue /\ Blocks!ImplementsByteQueue

(* The pointers and offsets of all of them agree with each other after     *)
(* every sequence of calls: what the picture at the top of flat_buffer.hpp *)
(* shows, debug_check() of multi_buffer.hpp asserts, and the counter       *)
(* in_size_ of a buffers_adaptor counts; and an iterator of a view is,     *)
(* forward and back, where the bytes it has behind it say                  *)
(* (impl/buffers_prefix.hpp:74-167, impl/buffers_suffix.hpp:71, 204,       *)
(* impl/buffers_cat.hpp:213-335).                                          *)
PositionsHold ==
  /\ WithinCapacity
  /\ Flat!PointersInv /\ Flat!MaxSizeHolds
  /\ Multi!DebugCheck /\ Multi!PreparedBytes
  /\ Blocks!TypeOK /\ Blocks!SizeAgrees
  /\ Blocks!Follows /\ Blocks!All /\ Blocks!NoneEmpty /\ Blocks!SizeIsWalked

(* A static_string is what a std::string would be, throws where that would *)
(* or where there is no room, and has then changed nothing; but for parts  *)
(* of itself, of which only the terminator is certain.  A decimal number   *)
(* is the number (static_string.hpp:29-35, 1089,                           *)
(* impl/static_string.hpp:301-316, 442-454, 523-536).                      *)
StringsBehave ==
  /\ []( /\ part = "text" => Text!BehavesLikeString /\ Text!OrdersLikeString
         /\ IF part = "own" THEN OwnText!AlwaysTerminated ELSE Text!AlwaysTerminated
         /\ IF part = "signed" THEN OwnText!IsDecimal ELSE Text!IsDecimal )
  /\ [][part = "text" => threw' = stdThrew' /\ (threw' => UNCHANGED <<s, t>>)]_buffers_vars
=============================================================================
