------------------------------ MODULE HttpWrite ------------------------------
(***************************************************************************)
(* http::serializer with http::write_some, write_header and write: the     *)
(* message is turned into buffers, which the stream takes in any pieces.   *)
(* Between two operations the caller changes the options, and gives a      *)
(* buffer_body its next piece.                                             *)
(*                                                                         *)
(* What is sent is a sequence of tokens: "h" for a part of the header, a   *)
(* number for a byte of the body, Size(k) for the size of a chunk, "crlf". *)
(***************************************************************************)
EXTENDS Integers, SequencesExt

CONSTANTS
  HeaderLen,    (* parts of the header                                     *)
  PieceSizes,   (* sizes of the pieces of a body                           *)
  Limits,       (* values of limit_                                        *)
  MaxBody,      (* bound: bytes of the body                                *)
  MaxPieces     (* bound: pieces of the body                               *)

HttpWriteAssumption ==
  /\ HeaderLen \in Nat \ {0}
  /\ PieceSizes \subseteq Nat
  /\ Limits \subseteq Nat \ {0}
  /\ MaxBody \in Nat /\ MaxPieces \in Nat

VARIABLES
  chunked,      (* m_.chunked()                                            *)
  body,         (* [kind, data, size, more]: buffer_body, or a whole body  *)
  toggle,       (* toggle_ of the writer of buffer_body                    *)
  s,            (* s_                                                      *)
  view,         (* v_: what is left of the buffers                         *)
  split, headerDone, more, limit,
  op,           (* the operation in progress                               *)
  ec,           (* how the last one ended                                  *)
  sent,         (* history: what the stream has taken                      *)
  made,         (* history: bytes of the body the caller has supplied      *)
  taken         (* history: sizes of the pieces get() has returned         *)

vars == <<chunked, body, toggle, s, view, split, headerDone, more, limit, op, ec, sent, made, taken>>

Size(k) == <<"size", k>>

HeaderTokens     == [i \in 1 .. HeaderLen |-> "h"]
Bytes(a, k) == [i \in 1 .. k |-> a + i]
Total(ks)    == FoldSeq(+, 0, ks)

(* A chunk, and what ends a chunked body.                                  *)
Chunk(a, k) == <<Size(k), "crlf">> \o Bytes(a, k) \o <<"crlf">>
Final       == <<Size(0), "crlf", "crlf">>

Init ==
  /\ chunked \in BOOLEAN
  /\ body \in [kind : {"empty"}, data : {FALSE}, size : {0}, more : {FALSE}]
          \cup [kind : {"string"}, data : {TRUE}, size : PieceSizes, more : {FALSE}]
          \cup [kind : {"buffer"}, data : {FALSE}, size : {0}, more : {TRUE}]
          \cup [kind : {"buffer"}, data : {TRUE}, size : PieceSizes, more : BOOLEAN]
  /\ toggle = FALSE
  /\ s = "construct"
  /\ view = <<>>
  /\ split = FALSE /\ headerDone = FALSE /\ more = FALSE
  /\ limit \in Limits
  /\ op = "none"
  /\ ec = "ok"
  /\ sent = <<>>
  /\ made = body.size
  /\ taken = <<>>

is_done == s = "complete"

Condition(o) == IF o = "header" THEN headerDone ELSE is_done

caller == <<chunked, body, limit, made>>

------------------------------------------------------------------------------
(* The caller.                                                             *)
Idle == op = "none" /\ ec # "fatal"

SetSplit(b) ==
  /\ Idle /\ split # b
  /\ split' = b
  /\ UNCHANGED <<caller, toggle, s, view, headerDone, more, op, ec, sent, taken>>

SetLimit(k) ==
  /\ Idle
  /\ limit' = k
  /\ UNCHANGED <<chunked, body, made, toggle, s, view, split, headerDone, more, op, ec, sent, taken>>

(* The next piece of a buffer_body, when the serializer asks for it.  The  *)
(* last one may be no piece at all.                                        *)
Refill(data, k, m) ==
  /\ Idle /\ ec = "need_buffer"
  /\ made + k <= MaxBody /\ (data => Len(taken) < MaxPieces)
  /\ data \/ k = 0
  /\ data \/ ~m
  /\ body' = [kind |-> "buffer", data |-> data, size |-> k, more |-> m]
  /\ made' = made + k
  /\ ec' = "ok"
  /\ UNCHANGED <<chunked, limit, toggle, s, view, split, headerDone, more, op, sent, taken>>

(* After need_buffer the caller first changes the body (buffer_body.hpp).  *)
Start(o) ==
  /\ Idle /\ ec # "need_buffer"
  /\ split' = CASE o = "header" -> TRUE [] o = "all" -> FALSE [] OTHER -> split
  /\ op' = IF Condition(o) THEN "none" ELSE o
  /\ ec' = "ok"
  /\ UNCHANGED <<caller, toggle, s, view, headerDone, more, sent, taken>>

------------------------------------------------------------------------------
(* writer::get(): no piece, a piece, or an error.                          *)
GetNone ==
  /\ ~body.more /\ (toggle \/ ~body.data)
  /\ UNCHANGED <<toggle, more, taken>>

GetPiece ==
  /\ body.data /\ ~toggle
  /\ toggle' = (body.kind = "buffer")
  /\ more' = body.more
  /\ taken' = Append(taken, body.size)

GetNeedBuffer ==
  /\ IF toggle THEN body.more ELSE ~body.data /\ body.more
  /\ toggle' = FALSE
  /\ UNCHANGED <<more, taken>>

(* The piece that get() has returned.                                      *)
Piece == Bytes(Total(taken), body.size)
PieceChunk == Chunk(Total(taken), body.size)

Fail(e) == op' = "none" /\ ec' = e /\ UNCHANGED <<s, view>>
Show(t, v) == s' = t /\ view' = v /\ UNCHANGED <<op, ec>>

Quiet == UNCHANGED <<caller, split, headerDone, sent>>

(* next() begins: do_construct and do_init, do_init_c.                     *)
NextInit ==
  /\ op # "none" /\ s = "construct"
  /\ \/ /\ split
        /\ Show("header_only", HeaderTokens)
        /\ UNCHANGED <<toggle, more, taken>>
     \/ ~split /\ GetNone /\ Show("header_only", HeaderTokens)
     \/ ~split /\ GetNeedBuffer /\ Fail("need_buffer")
     \/ /\ ~split /\ GetPiece
        /\ IF ~chunked THEN Show("header", HeaderTokens \o Piece)
           ELSE IF more' THEN Show("header", HeaderTokens \o PieceChunk)
           ELSE Show("all", HeaderTokens \o PieceChunk \o Final)
  /\ Quiet

(* do_body + 1, do_body_c + 1: the next piece.                             *)
NextBody ==
  /\ op # "none" /\ s = "body"
  /\ \/ GetNone /\ IF chunked THEN Show("final", Final)
                   ELSE s' = "complete" /\ UNCHANGED <<view, op, ec>>
     \/ GetNeedBuffer /\ Fail("need_buffer")
     \/ /\ GetPiece
        /\ IF ~chunked THEN Show("piece", Piece)
           ELSE IF more' THEN Show("piece", PieceChunk)
           ELSE Show("body_final", PieceChunk \o Final)
  /\ Quiet

(* do_final_c after the header alone.                                      *)
NextFinal ==
  /\ op # "none" /\ s = "final_c"
  /\ Show("final", Final)
  /\ UNCHANGED <<toggle, more, taken>>
  /\ Quiet

Showing == {"header_only", "header", "all", "piece", "body_final", "final"}

(* Wrong: after the last piece the end of a chunked body is left out.      *)
AfterViewNoFinal ==
  CASE s = "header" -> IF more THEN "body" ELSE "complete"
    [] s = "header_only" -> IF split THEN "body" ELSE IF chunked THEN "final_c" ELSE "complete"
    [] s = "piece" -> IF more /\ ~chunked THEN "body" ELSE "complete"
    [] OTHER -> "complete"

(* Where consume() goes on when the buffers are used up.                   *)
AfterView ==
  CASE s = "header" -> IF more THEN "body" ELSE "complete"
    [] s = "header_only" -> IF split THEN "body" ELSE IF chunked THEN "final_c" ELSE "complete"
    [] s = "piece" -> IF more THEN "body" ELSE "complete"
    [] OTHER -> "complete"

HeaderDoneAfter(left) ==
  headerDone \/ (left = <<>> /\ s \in {"header", "header_only", "all"})

(* What consume(k) leaves.                                                 *)
Left(k) == SubSeq(view, k + 1, Len(view))

(* An operation ends when its condition holds: write_some at once.         *)
EndSome(t, h) ==
  IF \/ op = "all" /\ t # "complete"
     \/ op = "header" /\ ~h
    THEN UNCHANGED op ELSE op' = "none"

(* The stream takes k parts of what it is shown, at most limit of them.    *)
Wrote(k) ==
  /\ op # "none" /\ s \in Showing
  /\ k <= limit /\ k <= Len(view) /\ (view # <<>> => k > 0)
  /\ sent' = sent \o SubSeq(view, 1, k)
  /\ view' = Left(k)
  /\ headerDone' = HeaderDoneAfter(view')
  /\ s' = IF view' = <<>> THEN AfterView ELSE s
  /\ EndSome(s', headerDone')
  /\ UNCHANGED <<caller, toggle, split, more, ec, taken>>

(* Wrong: the handler is not called.                                       *)
NothingLeftWaits == op # "none" /\ is_done /\ UNCHANGED vars

(* next() has shown nothing: the message is complete.                      *)
NothingLeft ==
  /\ op # "none" /\ is_done
  /\ op' = "none"
  /\ UNCHANGED <<caller, toggle, s, view, split, headerDone, more, ec, sent, taken>>

(* The stream fails; nothing is consumed.  The caller may go on if it was  *)
(* a timeout or a cancelled operation.                                     *)
StreamError(e) ==
  /\ op # "none" /\ s \in Showing
  /\ op' = "none"
  /\ ec' = e
  /\ UNCHANGED <<caller, toggle, s, view, split, headerDone, more, sent, taken>>

Progress ==
  \/ NextInit \/ NextBody \/ NextFinal \/ NothingLeft
  \/ \E k \in 0 .. HeaderLen + MaxBody + 8 : Wrote(k)

Common ==
  \/ Progress
  \/ \E k \in Limits : SetLimit(k)
  \/ \E data, m \in BOOLEAN, k \in PieceSizes : Refill(data, k, m)
  \/ \E e \in {"cancelled", "fatal"} : StreamError(e)

(* The caller does not change from the header alone to all of the message  *)
(* while a part of the header has been sent.                               *)
InHeader == s = "header_only" /\ ~headerDone

Next ==
  \/ Common
  \/ \E o \in {"some", "header"} : Start(o)
  \/ ~(InHeader /\ split) /\ Start("all")
  \/ \E b \in BOOLEAN : ~InHeader /\ SetSplit(b)

Spec      == Init /\ [][Next]_vars /\ WF_vars(Progress)
------------------------------------------------------------------------------
(* The message as it must be on the wire, of the pieces taken so far: a    *)
(* chunk of no bytes would end it.                                         *)
Before(i) == Total(SubSeq(taken, 1, i - 1))
Pieces == FlattenSeq([i \in DOMAIN taken |->
            IF ~chunked THEN Bytes(Before(i), taken[i])
            ELSE IF taken[i] = 0 THEN <<>> ELSE Chunk(Before(i), taken[i])])
Message == HeaderTokens \o Pieces \o (IF chunked THEN Final ELSE <<>>)

(* Whatever the stream takes at a time, and however the operations and the *)
(* options follow each other, what has been sent is the beginning of the   *)
(* message, if no piece is empty.                                          *)
SentIsMessage == (\A i \in DOMAIN taken : taken[i] > 0) => IsPrefix(sent, Message)

(* "The operation is complete when all octets corresponding to the         *)
(* serialized representation of the message have been successfully         *)
(* retrieved" (is_done() in http/serializer.hpp): the whole body has been  *)
(* asked for, and sent.                                                    *)
DoneIsWhole ==
  is_done => /\ Total(taken) = made /\ ~body.more
             /\ Len(sent) >= Len(Message)
             /\ (body.data => taken # <<>>)

(* "Set whether the header and body are written separately" (split() in    *)
(* http/serializer.hpp): write_header() asks for no piece of the body, and *)
(* what it sends of one had been asked for before it began.                *)
HeaderAlone == [][op = "header" => taken' = taken]_vars

(* is_header_done() is told when the last part of the header has left, and *)
(* an operation that waits for it, or for the end, ends.                   *)
HeaderDoneIsSent == headerDone => Len(sent) >= HeaderLen
EveryWriteEnds   == op # "none" ~> op = "none"
==============================================================================
