------------------------------ MODULE HttpRead ------------------------------
EXTENDS Integers, FiniteSetsExt, Sequences

(***************************************************************************)
(* http::basic_parser: put() takes what is in the buffer and parses as     *)
(* much of it as it can.  One pass of the loop in put(), and one field, is *)
(* a step; HttpRead supplies the bytes and calls put().                    *)
(*                                                                         *)
(* A message is a record of its bytes and of what they mean.  A start      *)
(* line, a field, a chunk size and a byte of the body are one character    *)
(* each, followed by CR and LF where the protocol has them; "!" is a       *)
(* character that is not allowed.  The buffer is the part of `wire` from   *)
(* base + 1 to got.                                                        *)
(***************************************************************************)

CONSTANTS
  Messages,      (* what may be sent: see Message                           *)
  HeaderLimits,  (* values of header_limit_                                 *)
  BodyLimits,    (* values of body_limit_                                   *)
  Unlimited      (* a number that no message reaches                        *)

VARIABLES
  msg,          (* the message that is sent, and maybe more bytes after it  *)
  headerLimit,  (* header_limit_                                            *)
  bodyMax,      (* what body_limit() was called with                        *)
  base,         (* bytes consumed from the buffer                           *)
  got,          (* bytes received into the buffer                           *)
  at,           (* where the step in progress is: put_switch, in fields...  *)
  p,            (* the pointer of put(): bytes of the buffer parsed so far  *)
  first,        (* p when the loop over the fields began                    *)
  state,        (* state_                                                   *)
  flags,        (* f_                                                       *)
  len, len0,    (* len_, len0_                                              *)
  skip,         (* skip_                                                    *)
  bodyLimit,    (* body_limit_, less what was parsed of the body            *)
  room,         (* what the body reader can still take                      *)
  ec,           (* the error code put() returns                             *)
  out,          (* history: positions in `wire` of the bytes delivered      *)
  seen          (* history: what the derived parser was told                *)

parserVars == <<p, first, state, flags, len, len0, skip, bodyLimit, room, ec, out, seen, at>>

(* The bytes; request or response; how many fields there are, how many     *)
(* bytes the header, the body and the longest line or trailer have; the    *)
(* positions of the body; where the message ends; whether it is malformed. *)
MessageFields == {"wire", "request", "fields", "header", "length", "longest", "body", "end", "bad"}

HttpParserAssumption ==
  /\ \A m \in Messages : DOMAIN m = MessageFields /\ m.wire \in Seq(STRING)
  /\ HeaderLimits \cup BodyLimits \subseteq Nat
  /\ Unlimited \in Nat

wire == msg.wire
n    == got - base - p                   (* p1 - p                         *)
At(i) == wire[base + i]                  (* the i-th character in the buffer *)

Least(a, b) == IF a < b THEN a ELSE b

(* The ends, within the characters a + 1 to b of the buffer, of an empty   *)
(* line after a line, and of a line.                                       *)
Eoms(a, b) == {e \in a + 4 .. b : At(e - 3) = "r" /\ At(e - 2) = "n" /\ At(e - 1) = "r" /\ At(e) = "n"}
Eols(a, b) == {e \in a + 2 .. b : At(e - 1) = "r" /\ At(e) = "n"}

ParserInit ==
  /\ p = 0
  /\ first = 0
  /\ state = "nothing_yet"
  /\ flags \in SUBSET {"eager"}
  /\ len = 0 /\ len0 = 0
  /\ skip = 0
  /\ bodyLimit = bodyMax
  /\ ec = "ok"
  /\ out = <<>>
  /\ seen = [fields |-> 0, init |-> 0, chunks |-> 0, finish |-> 0]
  /\ at = "caller"

got_some       == state # "nothing_yet"
is_done        == state = "complete"
is_header_done == state \notin {"nothing_yet", "start_line", "fields"}

------------------------------------------------------------------------------
(* How a step goes on.                                                     *)
Return(e) == at' = "done" /\ ec' = e
Goto(s)   == state' = s
(* The test at the end of the loop in put(), after a step that leaves `q`  *)
(* parsed and the state s.                                                 *)
EndOfLoop(q, s) ==
  /\ ec' = "ok"
  /\ at' = IF base + q < got /\ s # "complete" /\ "eager" \in flags THEN "switch" ELSE "done"

Quiet == UNCHANGED <<len, len0, bodyLimit, room, out, seen, flags>>

(* Nothing parsed yet: the state changes even if no more is done.          *)
Begin ==
  /\ at = "switch" /\ state = "nothing_yet"
  /\ IF n = 0 THEN Return("need_more") /\ UNCHANGED state
              ELSE Goto("start_line") /\ UNCHANGED <<at, ec>>
  /\ Quiet /\ UNCHANGED <<p, first, skip>>

(* Where to go on looking for the end of the header: it may have begun in  *)
(* the last three of the m bytes.                                          *)
NextSkip(m) == m - 3

(* maybe_need_more(): do not parse before the end of the header is there.  *)
MaybeNeedMore ==
  /\ at = "switch" /\ state \in {"start_line", "fields"} /\ skip # 0
  /\ LET m == Least(n, headerLimit)
     IN  IF m < skip + 4 THEN Return("need_more") /\ UNCHANGED skip
         ELSE IF Eoms(skip, m) # {} THEN skip' = 0 /\ UNCHANGED <<at, ec>>
         ELSE /\ skip' = NextSkip(m)
              /\ Return(IF skip' + 4 > headerLimit THEN "header_limit" ELSE "need_more")
  /\ Quiet /\ UNCHANGED <<p, first, state>>

(* Wrong: the place is counted from where the fields began.                *)
HeaderNeedsMoreBefore(m) ==
  IF m >= headerLimit THEN Return("header_limit") /\ UNCHANGED skip
  ELSE /\ Return("need_more")
       /\ IF n >= 3 THEN skip' = NextSkip(m) ELSE UNCHANGED skip

(* The start line or a field is not there as a whole.  m is what was in    *)
(* the buffer at the start of the case, p what is parsed of it.            *)
HeaderNeedsMore(m) ==
  IF m >= headerLimit THEN Return("header_limit") /\ UNCHANGED skip
  ELSE /\ Return("need_more")
       /\ IF n >= 3 THEN skip' = NextSkip(n) ELSE UNCHANGED skip

(* Characters q + 1 to q + 3 of the buffer are a line of the header, of    *)
(* which at most the first m characters may be looked at.                  *)
BadLine(q, m) == m > q /\ At(q + 1) = "!"

ParseStartLine ==
  /\ at = "switch" /\ state = "start_line" /\ skip = 0
  /\ IF BadLine(p, p + Least(headerLimit, n))
       THEN Return("bad") /\ UNCHANGED <<p, first, skip, state, flags>>
     ELSE IF Least(headerLimit, n) < 3
       THEN HeaderNeedsMore(n) /\ UNCHANGED <<p, first, state, flags>>
     ELSE /\ p' = p + 3
          /\ Goto("fields")
          /\ flags' = flags \cup (IF At(p + 1) = "204" THEN {"204"} ELSE {})
          /\ IF n = 3 THEN Return("need_more") /\ UNCHANGED <<first>>
                      ELSE at' = "fields" /\ first' = p + 3 /\ UNCHANGED ec
          /\ UNCHANGED skip
  /\ UNCHANGED <<len, len0, bodyLimit, room, out, seen>>

EnterFields ==
  /\ at = "switch" /\ state = "fields" /\ skip = 0
  /\ at' = "fields"
  /\ first' = p
  /\ Quiet /\ UNCHANGED <<p, state, skip, ec>>

------------------------------------------------------------------------------
(* do_field(): the error of a field of the header or the trailer.          *)
Lengths == [l1 |-> 1, l2 |-> 2, l3 |-> 3]

Contradicts(v) ==
  \/ "chunked" \in flags
  \/ "length" \in flags /\ v # len0

FieldError(f) ==
  CASE f = "!" -> "bad"
    [] f \in DOMAIN Lengths /\ Contradicts(Lengths[f]) -> "bad_content_length"
    [] f = "t" /\ flags \cap {"chunked", "length"} # {} -> "bad_transfer_encoding"
    [] OTHER -> "ok"

SetLength(f) ==
  /\ len' = Lengths[f] /\ len0' = Lengths[f]
  /\ flags' = flags \cup {"length"}

DoField(f) ==
  /\ FieldError(f) = "ok"
  /\ CASE f \in DOMAIN Lengths -> SetLength(f)
       [] f = "t" -> len' = 0 /\ flags' = flags \cup {"chunked"} /\ UNCHANGED len0
       [] OTHER -> UNCHANGED <<len, len0, flags>>
  /\ seen' = [seen EXCEPT !.fields = @ + 1]

(* The last character parse_fields() may look at.                          *)
fieldsLast == IF at = "trailer" THEN Min(Eoms(p - 2, got - base))
              ELSE first + Least(headerLimit, got - base - first)

(* A pass of the loop in parse_fields().  A field needs the character      *)
(* behind it: the line may go on.                                          *)
FieldsNeedMore ==
  /\ at = "fields"
  /\ \/ fieldsLast < p + 2
     \/ At(p + 1) \notin {"r", "!"} /\ fieldsLast < p + 4
  /\ HeaderNeedsMore(got - base - first)
  /\ Quiet /\ UNCHANGED <<p, first, state>>

Field ==
  /\ at \in {"fields", "trailer"}
  /\ fieldsLast >= p + 4 /\ At(p + 1) \notin {"r", "!"}
  /\ FieldError(At(p + 1)) = "ok"
  /\ DoField(At(p + 1))
  /\ p' = p + 3
  /\ UNCHANGED <<first, state, skip, bodyLimit, room, ec, out, at>>

BadField ==
  /\ at \in {"fields", "trailer"}
  /\ fieldsLast >= p + 2
  /\ \/ At(p + 1) = "!"
     \/ At(p + 1) # "r" /\ fieldsLast >= p + 4 /\ FieldError(At(p + 1)) # "ok"
  /\ Return(FieldError(At(p + 1)))
  /\ Quiet /\ UNCHANGED <<p, first, state, skip>>

(* finish_header(): what the header says of the body.                      *)
Finish == seen' = [seen EXCEPT !.finish = @ + 1]

BodyState ==
  IF ~msg.request /\ "204" \in flags THEN "complete"
  ELSE IF "length" \in flags THEN IF len > 0 THEN "body0" ELSE "complete"
  ELSE IF "chunked" \in flags THEN "chunk_header0"
  ELSE IF msg.request THEN "complete" ELSE "body_to_eof0"

FinishHeader ==
  /\ at = "fields"
  /\ fieldsLast >= p + 2 /\ At(p + 1) = "r"
  /\ p' = p + 2
  /\ IF BodyState = "body0" /\ len > bodyLimit
       THEN Return("body_limit") /\ UNCHANGED <<state, flags, seen>>
     ELSE /\ Goto(BodyState)
          /\ flags' = flags \cup (IF BodyState = "body_to_eof0" THEN {"need_eof"} ELSE {})
          /\ EndOfLoop(p', BodyState)
          /\ IF BodyState = "complete" THEN Finish ELSE UNCHANGED seen
  /\ UNCHANGED <<first, len, len0, skip, bodyLimit, room, out>>

------------------------------------------------------------------------------
(* The body.  on_body_init() before the first byte.                        *)
BodyStates == [body0 |-> "body", body_to_eof0 |-> "body_to_eof", chunk_header0 |-> "chunk_header"]

BodyInit ==
  /\ at = "switch" /\ state \in DOMAIN BodyStates
  /\ Goto(BodyStates[state])
  /\ seen' = [seen EXCEPT !.init = @ + 1]
  /\ UNCHANGED <<p, first, flags, len, len0, skip, bodyLimit, room, out, at, ec>>

(* on_body(): the reader takes what it has room for of m bytes.            *)
Taken(m) == Least(m, room)

Deliver(m) ==
  /\ out' = out \o [i \in 1 .. Taken(m) |-> base + p + i]
  /\ p' = p + Taken(m)
  /\ room' = IF room = Unlimited THEN room ELSE room - Taken(m)

BodyPart(m) == Least(len, m)

ParseBody ==
  /\ at = "switch" /\ state = "body"
  /\ LET m == BodyPart(n)
     IN  /\ Deliver(m)
         /\ len' = len - Taken(m)
         /\ IF Taken(m) < m THEN Return("need_buffer") /\ UNCHANGED <<state, seen>>
            ELSE IF len' > 0 THEN EndOfLoop(p', state) /\ UNCHANGED <<state, seen>>
            ELSE Goto("complete") /\ Finish /\ EndOfLoop(p', "complete")
  /\ UNCHANGED <<first, flags, len0, skip, bodyLimit>>

ParseBodyToEof ==
  /\ at = "switch" /\ state = "body_to_eof"
  /\ IF n > bodyLimit THEN Return("body_limit") /\ UNCHANGED <<bodyLimit, out, p, room>>
     ELSE /\ bodyLimit' = bodyLimit - n
          /\ Deliver(n)
          /\ IF Taken(n) < n THEN Return("need_buffer") ELSE EndOfLoop(p', state)
  /\ UNCHANGED <<first, state, flags, len, len0, skip, seen>>

ParseChunkBody ==
  /\ at = "switch" /\ state = "chunk_body"
  /\ LET m == BodyPart(n)
     IN  /\ Deliver(m)
         /\ len' = len - Taken(m)
         /\ IF len' = 0 THEN Goto("chunk_header") ELSE UNCHANGED state
         /\ IF Taken(m) < m THEN Return("need_buffer") ELSE EndOfLoop(p', state')
  /\ UNCHANGED <<first, flags, len0, skip, bodyLimit, seen>>

------------------------------------------------------------------------------
(* parse_chunk_header().  The line end behind the chunk before belongs to  *)
(* the header of the next one.  q is the position of the chunk size.       *)
Sizes == [s0 |-> 0, s1 |-> 1, s2 |-> 2, s3 |-> 3]

crlf == IF "expect_crlf" \in flags THEN 2 ELSE 0
q    == p + crlf
end  == got - base

ChunkNeedsMore ==
  /\ at = "switch" /\ state = "chunk_header" /\ "final_chunk" \notin flags
  /\ IF n < skip + 2 THEN UNCHANGED skip
     ELSE /\ crlf = 2 => At(p + 1) = "r" /\ At(p + 2) = "n"
          /\ Eols(p + skip, end) = {}
          /\ skip' = n - 1
  /\ Return("need_more")
  /\ Quiet /\ UNCHANGED <<p, first, state>>

(* The line of the chunk size is there.                                    *)
ChunkLine ==
  /\ at = "switch" /\ state = "chunk_header" /\ "final_chunk" \notin flags
  /\ n >= skip + 2
  /\ crlf = 2 => At(p + 1) = "r" /\ At(p + 2) = "n"
  /\ Eols(p + skip, end) # {}

ChunkEol == Min(Eols(p + skip, end))

BadChunk ==
  /\ at = "switch" /\ state = "chunk_header" /\ "final_chunk" \notin flags
  /\ \/ n >= skip + 2 /\ crlf = 2 /\ ~(At(p + 1) = "r" /\ At(p + 2) = "n")
     \/ ChunkLine /\ At(q + 1) \notin DOMAIN Sizes
  /\ Return("bad_chunk")
  /\ Quiet /\ UNCHANGED <<p, first, state, skip>>

ChunkSize == Sizes[At(q + 1)]
IsChunk   == ChunkLine /\ At(q + 1) \in DOMAIN Sizes

ChunkHeader ==
  /\ IsChunk /\ ChunkSize > 0
  /\ IF ChunkSize > bodyLimit
       THEN /\ skip' = ChunkEol - 2 - p
            /\ Return("body_limit")
            /\ UNCHANGED <<p, len, flags, state, bodyLimit, seen>>
     ELSE /\ bodyLimit' = bodyLimit - ChunkSize
          /\ seen' = [seen EXCEPT !.chunks = @ + 1]
          /\ len' = ChunkSize
          /\ skip' = 2
          /\ p' = ChunkEol
          /\ flags' = flags \cup {"expect_crlf"}
          /\ Goto("chunk_body")
          /\ EndOfLoop(p', "chunk_body")
  /\ UNCHANGED <<first, len0, room, out>>

(* The last chunk is remembered until its trailer is there as a whole.     *)
LastChunkNeedsMore ==
  /\ at = "switch" /\ state = "chunk_header"
  /\ IF "final_chunk" \in flags THEN Eoms(p + skip, end) = {}
     ELSE IsChunk /\ ChunkSize = 0 /\ Eoms(ChunkEol - 2, end) = {}
  /\ flags' = flags \cup {"final_chunk"}
  /\ skip' = NextSkip(n)
  /\ Return("need_more")
  /\ UNCHANGED <<p, first, state, len, len0, bodyLimit, room, out, seen>>

LastChunk ==
  /\ at = "switch" /\ state = "chunk_header"
  /\ IF "final_chunk" \in flags THEN Eoms(p + skip, end) # {}
     ELSE IsChunk /\ ChunkSize = 0 /\ Eoms(ChunkEol - 2, end) # {}
  /\ flags' = flags \cup {"final_chunk"}
  /\ skip' = IF "final_chunk" \in flags THEN skip ELSE ChunkEol - 2 - p
  /\ seen' = [seen EXCEPT !.chunks = @ + 1]
  /\ p' = Min(Eols(q, end))
  /\ at' = "trailer"
  /\ UNCHANGED <<first, state, len, len0, bodyLimit, room, ec, out>>

EndOfTrailer ==
  /\ at = "trailer"
  /\ fieldsLast >= p + 2 /\ At(p + 1) = "r"
  /\ p' = p + 2
  /\ Goto("complete")
  /\ Finish
  /\ EndOfLoop(p', "complete")
  /\ UNCHANGED <<first, flags, len, len0, skip, bodyLimit, room, out>>

------------------------------------------------------------------------------
(* put_eof(): only a body that ends with the connection is complete.       *)
PutEof ==
  IF \/ state \in {"start_line", "fields"}
     \/ flags \cap {"length", "chunked"} # {} /\ state # "complete"
    THEN ec' = "partial_message" /\ UNCHANGED <<state, seen>>
  ELSE ec' = "ok" /\ Goto("complete") /\ Finish

Put ==
  \/ Begin \/ MaybeNeedMore \/ ParseStartLine \/ EnterFields
  \/ FieldsNeedMore \/ Field \/ BadField \/ FinishHeader
  \/ BodyInit \/ ParseBody \/ ParseBodyToEof \/ ParseChunkBody
  \/ ChunkNeedsMore \/ BadChunk \/ ChunkHeader
  \/ LastChunkNeedsMore \/ LastChunk \/ EndOfTrailer

---------------------------------------------------------------------------
(***************************************************************************)
(* http::read_some, read_header and read, and their asynchronous forms: a  *)
(* message is read from a stream into a buffer and put into the parser.    *)
(* The stream hands over any number of bytes at a time and may end at any  *)
(* place.  `at` is "caller" between the operations, "reading" while the    *)
(* stream is asked for bytes, "done" when put() has returned, and inside   *)
(* of put() what HttpParser says.                                          *)
(***************************************************************************)

CONSTANTS
  BufferMaxes,  (* values of max_size() of the buffer                       *)
  Rooms         (* what the body reader can take before need_buffer         *)

HttpReadAssumption == HttpParserAssumption /\ BufferMaxes \cup Rooms \subseteq Nat

VARIABLES
  bufferMax,  (* max_size() of the buffer                                   *)
  op,         (* the operation in progress                                  *)
  result,     (* how the last one ended                                     *)
  cut         (* history: the stream ended before the whole message         *)

vars == <<msg, headerLimit, bodyMax, base, got, parserVars, bufferMax, op, result, cut>>

Ops == {"some", "header", "all"}

Init ==
  /\ msg \in Messages
  /\ headerLimit \in HeaderLimits
  /\ bodyMax \in BodyLimits
  /\ base = 0 /\ got = 0
  /\ room \in Rooms
  /\ ParserInit
  /\ bufferMax \in BufferMaxes
  /\ op = "none"
  /\ result = "none"
  /\ cut = FALSE

(* parser_is_header_done, parser_is_done                                   *)
Condition(o) == IF o = "header" THEN is_header_done ELSE is_done

fixed == <<msg, headerLimit, bodyMax, bufferMax, cut>>
kept  == <<first, state, len, len0, skip, bodyLimit, out, seen>>

(* The operation looks at what is in the buffer before it reads.           *)
Resume(b) == at' = IF got = b THEN "reading" ELSE "switch"

Start(o) ==
  /\ at = "caller" /\ result \in {"none", "ok", "need_buffer"}
  /\ o = "some" => ~is_done
  /\ flags' = CASE o = "header" -> flags \ {"eager"}
                [] o = "all" -> flags \cup {"eager"}
                [] OTHER -> flags
  /\ IF o # "some" /\ Condition(o)
       THEN op' = "none" /\ result' = "ok" /\ UNCHANGED at
       ELSE op' = o /\ result' = "none" /\ Resume(base)
  /\ room' \in IF result = "need_buffer" THEN Rooms \ {Unlimited} ELSE {room}
  /\ p' = 0
  /\ ec' = "ok"
  /\ UNCHANGED <<base, got, fixed, kept>>

(* An operation ends with an error or if its condition holds; if not, the  *)
(* next read_some() begins.                                                *)
EndSome(e, b) ==
  IF e # "ok" \/ op = "some" \/ Condition(op)
    THEN op' = "none" /\ result' = e /\ at' = "caller"
    ELSE Resume(b) /\ UNCHANGED <<op, result>>

(* put() has returned: what it used is taken from the buffer.              *)
AfterPut ==
  /\ at = "done"
  /\ base' = base + p
  /\ p' = 0
  /\ IF ec = "need_more" THEN at' = "reading" /\ UNCHANGED <<op, result>>
                         ELSE EndSome(ec, base + p)
  /\ ec' = "ok"
  /\ UNCHANGED <<got, fixed, kept, flags, room>>

(* The buffer may not grow any more.                                       *)
Overflow ==
  /\ at = "reading" /\ got - base = bufferMax
  /\ op' = "none" /\ result' = "buffer_overflow" /\ at' = "caller"
  /\ UNCHANGED <<base, got, p, ec, fixed, kept, flags, room>>

Receive(k) ==
  /\ at = "reading" /\ got - base + k <= bufferMax /\ ~cut
  /\ got + k <= Len(wire)
  /\ got' = got + k
  /\ at' = "switch"
  /\ p' = 0
  /\ UNCHANGED <<base, ec, fixed, kept, flags, room, op, result>>

(* The stream ends; the parser learns that if it has got anything.         *)
Eof ==
  /\ at = "reading" /\ got - base < bufferMax
  /\ cut' = (cut \/ got < msg.end)
  /\ IF got_some THEN PutEof /\ result' = ec'
     ELSE result' = "end_of_stream" /\ UNCHANGED <<ec, state, seen>>
  /\ op' = "none" /\ at' = "caller"
  /\ UNCHANGED <<msg, headerLimit, bodyMax, bufferMax, base, got, p, first, len, len0, skip,
                 bodyLimit, out, flags, room>>

(* Any other error of the stream ends the operation.                       *)
ReadError ==
  /\ at = "reading" /\ got - base < bufferMax
  /\ op' = "none" /\ result' = "stream_error" /\ at' = "caller"
  /\ UNCHANGED <<base, got, p, ec, fixed, kept, flags, room>>

Parse == Put /\ UNCHANGED <<base, got, fixed, op, result>>

Next ==
  \/ \E o \in Ops : Start(o)
  \/ Parse \/ AfterPut \/ Overflow \/ Eof \/ ReadError
  \/ \E k \in 1 .. Len(wire) : Receive(k)

Spec == Init /\ [][Next]_vars

(* The stream hands something over, or ends, and handlers run.             *)
Progress == Parse \/ AfterPut \/ Overflow \/ Eof \/ ReadError \/ \E k \in 1 .. Len(wire) : Receive(k)

------------------------------------------------------------------------------
(* Types; of what the parser has counted nothing is negative.              *)
TypeOK ==
  /\ {base, got, p, first, len, len0, skip, bodyLimit, room} \subseteq Nat
  /\ base + p <= got /\ got <= Len(wire)
  /\ at \in {"caller", "reading", "done", "switch", "fields", "trailer"}
  /\ op \in Ops \cup {"none"}
  /\ flags \subseteq {"eager", "204", "length", "chunked", "need_eof", "expect_crlf", "final_chunk"}

(* The assertions in put() and parse_chunk_header() on the bytes there are *)
(* (http/impl/basic_parser.ipp); and the search for the end of the header  *)
(* goes on before what has come since.                                     *)
AssertionsHold ==
  at = "switch" =>
    /\ state \in {"body0", "body", "body_to_eof0", "body_to_eof"} => skip = 0
    /\ state = "chunk_header" /\ "final_chunk" \in flags => n >= 3 /\ At(q + 1) = "s0"
    /\ state \in {"start_line", "fields"} /\ skip # 0 => skip + 4 <= n

(* However the bytes arrive and whatever the caller reads with, the reader *)
(* gets the bytes of the body, each once and in order, and nothing else.   *)
BodyAsSent ==
  \A i \in DOMAIN out : i <= Len(msg.body) /\ out[i] = msg.body[i]

(* A message is complete only if all its fields and its whole body have    *)
(* come, and what follows it is left in the buffer.  A body that ends with *)
(* the connection is as long as what came.                                 *)
CompleteIsWhole ==
  is_done /\ at = "caller" =>
    /\ ~msg.bad
    /\ seen.fields = msg.fields
    /\ seen.finish = 1
    /\ seen.init <= 1 /\ (out # <<>> => seen.init = 1)
    /\ base <= msg.end
    /\ IF "need_eof" \in flags THEN base = got /\ Len(out) = got - msg.header
       ELSE base = msg.end /\ out = msg.body

(* A body up to the end of the stream, to a reader that takes a part.      *)
InPieces == "need_eof" \in flags /\ room # Unlimited

(* The parser gives up only for what is wrong with the message: a header   *)
(* within the limit is not refused, nor a body within its limit, and a     *)
(* buffer that can hold the longest element does not overflow.  A reader   *)
(* that takes a body up to the end in pieces is BodyLimitExact's matter.   *)
NoFalseAlarm ==
  at = "caller" =>
    CASE result = "header_limit" -> msg.header > headerLimit
      [] result = "body_limit" -> msg.length > bodyMax \/ InPieces
      [] result = "buffer_overflow" -> msg.longest > bufferMax
      [] result = "partial_message" -> cut \/ msg.bad
      [] result = "end_of_stream" -> got = 0
      [] result \in {"bad", "bad_chunk", "bad_content_length", "bad_transfer_encoding"} -> msg.bad
      [] OTHER -> result \in {"none", "ok", "need_buffer", "stream_error"}

(* No more bytes of body than body_limit() allows are handed on.           *)
BodyWithinLimit == Len(out) <= bodyMax

(* An operation ends, with whatever result: the loops in put() and         *)
(* read_some() do not go on without taking bytes.                          *)
EveryReadEnds == op # "none" ~> op = "none"

=============================================================================
