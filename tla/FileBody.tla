------------------------------ MODULE FileBody ------------------------------
EXTENDS Integers, SequencesExt

(***************************************************************************)
(* basic_file_body: the body of a message is a file.  The writer sends it  *)
(* in pieces of at most Buf bytes, the reader stores what is received.     *)
(* Other processes shorten and lengthen the file meanwhile.  (What the     *)
(* file classes do is in Files.)                                           *)
(***************************************************************************)

CONSTANTS
  Buf,         (* sizeof(buf_)                                              *)
  MaxLen,      (* bound: bytes of the file                                  *)
  MaxChanges,  (* bound: changes by other processes                         *)
  MaxMessages  (* bound: messages sent or received                          *)

FileBodyAssumption ==
  Buf \in Nat \ {0} /\ {MaxLen, MaxChanges, MaxMessages} \subseteq Nat

VARIABLES
  bytes,    (* the file                                                     *)
  body,     (* value_type: [open, pos, size], pos the file's position       *)
  job,      (* idle, sending, receiving                                     *)
  remain,   (* remain_ of the writer                                        *)
  ec,       (* how the last message, or call, ended                         *)
  more,     (* what the last get() said of further pieces                   *)
  sent,     (* history: the bytes of this message                           *)
  from,     (* history: the position and the file when it began             *)
  changes, messages

vars == <<bytes, body, job, remain, ec, more, sent, from, changes, messages>>

Numbered(n) == [i \in 1..n |-> i]
Least(a, b) == IF a < b THEN a ELSE b

Init ==
  /\ \E n \in 0..MaxLen : bytes = Numbered(n)
  /\ body = [open |-> FALSE, pos |-> 0, size |-> 0]
  /\ job = "idle" /\ remain = 0 /\ ec = "ok" /\ more = FALSE
  /\ sent = <<>> /\ from = [pos |-> 0, bytes |-> <<>>]
  /\ changes = 0 /\ messages = 0

Message == <<remain, more, sent, from>>

------------------------------------------------------------------------------
(* value_type::open(); if the size is not known the file is closed again.  *)
open ==
  /\ job = "idle"
  /\ \/ body' = [open |-> FALSE, pos |-> 0, size |-> body.size] /\ ec' = "sys"
     \/ body' = [open |-> FALSE, pos |-> 0, size |-> 0] /\ ec' = "sys"
     \/ body' = [open |-> TRUE, pos |-> 0, size |-> Len(bytes)] /\ ec' = "ok"
  /\ UNCHANGED <<bytes, job, Message, changes, messages>>

(* reset() with a file that the caller has read from.  It stays open if    *)
(* its size cannot be told.                                                *)
reset ==
  /\ job = "idle"
  /\ \E p \in 0..Len(bytes) :
       \/ body' = [open |-> TRUE, pos |-> p, size |-> Len(bytes)] /\ ec' = "ok"
       \/ body' = [open |-> TRUE, pos |-> p, size |-> 0] /\ ec' = "sys"
  /\ UNCHANGED <<bytes, job, Message, changes, messages>>

close ==
  /\ job = "idle" /\ body.open
  /\ body' = [body EXCEPT !.open = FALSE]
  /\ UNCHANGED <<bytes, job, ec, Message, changes, messages>>

(* Another process cuts the file or adds to it.                            *)
Change ==
  /\ changes < MaxChanges /\ changes' = changes + 1
  /\ \E n \in 0..MaxLen : bytes' = IF n < Len(bytes) THEN SubSeq(bytes, 1, n)
                                   ELSE bytes \o [i \in 1..(n - Len(bytes)) |-> 0]
  /\ UNCHANGED <<body, job, ec, Message, messages>>

------------------------------------------------------------------------------
(* A serializer makes a writer, which needs an open file.                  *)
writer ==
  /\ job = "idle" /\ body.open /\ ec = "ok" /\ messages < MaxMessages
  /\ job' = "sending" /\ messages' = messages + 1
  /\ remain' = body.size /\ more' = TRUE
  /\ sent' = <<>> /\ from' = [pos |-> body.pos, bytes |-> bytes]
  /\ UNCHANGED <<bytes, body, ec, changes>>

Fail(e) == ec' = e /\ job' = "idle" /\ UNCHANGED <<remain, more, sent>>

(* The serializer asks for a piece until it is told that it has the last   *)
(* one, or there is none.                                                  *)
get ==
  /\ job = "sending"
  /\ LET amount == Least(Buf, remain)
     IN IF amount = 0
        THEN /\ job' = "idle" /\ more' = FALSE
             /\ UNCHANGED <<body, remain, ec, sent>>
        ELSE \/ Fail("sys") /\ UNCHANGED body
             \/ \E n \in {Least(amount, IF body.pos > Len(bytes) THEN 0 ELSE Len(bytes) - body.pos)} :
                  IF n = 0 THEN Fail("short_read") /\ UNCHANGED body
                  ELSE /\ sent' = sent \o SubSeq(bytes, body.pos + 1, body.pos + n)
                       /\ body' = [body EXCEPT !.pos = @ + n]
                       /\ remain' = remain - n
                       /\ more' = (remain' > 0)
                       /\ job' = IF more' THEN job ELSE "idle"
                       /\ UNCHANGED ec
  /\ UNCHANGED <<bytes, from, changes, messages>>

------------------------------------------------------------------------------
(* A parser makes a reader and gives it two buffers.                       *)
reader ==
  /\ job = "idle" /\ body.open /\ ec = "ok" /\ messages < MaxMessages
  /\ job' = "receiving" /\ messages' = messages + 1
  /\ more' = TRUE /\ sent' = <<>> /\ from' = [pos |-> body.pos, bytes |-> bytes]
  /\ UNCHANGED <<bytes, body, remain, ec, changes>>

(* The file after s is written at p.                                       *)
Over(p, s) ==
  [i \in 1..(IF p + Len(s) > Len(bytes) THEN p + Len(s) ELSE Len(bytes)) |->
     IF i > p /\ i <= p + Len(s) THEN s[i - p]
     ELSE IF i <= Len(bytes) THEN bytes[i] ELSE 0]

(* Each buffer is written, up to the first error.  Bytes received are      *)
(* numbered too.                                                           *)
put(a, b) ==
  /\ job = "receiving"
  /\ \E k \in 0..(a + b) :
       LET new == [i \in 1..k |-> Len(sent) + i]
       IN /\ body.pos + a + b <= MaxLen
          /\ bytes' = IF k = 0 THEN bytes ELSE Over(body.pos, new)
          /\ body' = [body EXCEPT !.pos = @ + k]
          /\ sent' = sent \o new
          /\ IF k < a + b THEN ec' = "sys" /\ job' = "idle" ELSE UNCHANGED <<ec, job>>
  /\ UNCHANGED <<remain, more, from, changes, messages>>

finish ==
  /\ job = "receiving" /\ job' = "idle" /\ more' = FALSE
  /\ UNCHANGED <<bytes, body, remain, ec, sent, from, changes, messages>>

SentParts == {<<1, 0>>, <<1, 1>>, <<0, 2>>}

Next ==
  \/ open \/ reset \/ close \/ Change \/ writer \/ get \/ reader
  \/ \E p \in SentParts : put(p[1], p[2])
  \/ finish

Spec == Init /\ [][Next]_vars

------------------------------------------------------------------------------
(* A message that was sent without an error has as many bytes as it said   *)
(* it would when the file was opened, whatever became of the file          *)
(* (basic_file_body.hpp:312, :366).                                        *)
AsLongAsSaid ==
  [][job = "sending" /\ job' = "idle" /\ ec' = "ok" => Len(sent') = body.size]_vars

(* If the file was left alone they are its bytes from where it was         *)
(* (basic_file_body.hpp:362).                                              *)
IsTheFile ==
  job = "sending" /\ from.bytes = bytes =>
    sent = SubSeq(bytes, from.pos + 1, from.pos + Len(sent))

(* An open() that fails leaves no file, and one that succeeds the size of  *)
(* this file (basic_file_body.hpp:185).                                    *)
OpenKnowsSize ==
  [][job = "idle" /\ body' # body /\ body'.open /\ ~body.open /\ ec' = "ok" =>
       body'.size = Len(bytes')]_vars

(* What put() says it has written is in the file, in order                 *)
(* (basic_file_body.hpp:511).                                              *)
Stored ==
  [][job = "receiving" /\ body' # body /\ changes = 0 =>
       SubSeq(bytes', from.pos + 1, body'.pos) = sent']_vars

(* Every message ends, although the file may be too short for what was     *)
(* promised (basic_file_body.hpp:366).                                     *)
SendingEnds == job = "sending" ~> job # "sending"

---------------------------------------------------------------------------
(***************************************************************************)
(* write_some of a file_body on Windows: after the header TransmitFile     *)
(* sends the file, unless the body is chunked.  The caller repeats         *)
(* write_some, with and without a handler.  The file does not change.      *)
(* A byte of the file is its number, one of the header or of the frame of  *)
(* a chunk is Frame.                                                       *)
(***************************************************************************)

CONSTANTS
  Header,    (* bytes of the header                                         *)
  Sizes,     (* sizes of files                                              *)
  Win32Buf,  (* sizeof(buf_)                                                *)
  Limits,    (* values of sr.limit()                                        *)
  Ways,      (* the ways that are used: [async, chunked]                    *)
  MaxErrors  (* bound: errors of the socket                                 *)

FileBodyWin32Assumption ==
  /\ {Header, Win32Buf} \cup Limits \subseteq Nat \ {0} /\ Sizes \subseteq Nat
  /\ Ways \subseteq [async : BOOLEAN, chunked : BOOLEAN] /\ MaxErrors \in Nat

VARIABLES
  chunked, last,  (* of the message; last_                                  *)
  pos,            (* pos_                                                   *)
  filepos,        (* the file's own position                                *)
  phase,          (* of the serializer: header, body, final, done           *)
  view,           (* what it shows                                          *)
  op,             (* idle, some, transmit                                   *)
  header_,        (* header_ of the operation                               *)
  amount,         (* bytes that TransmitFile was asked for                  *)
  asserted,       (* an assertion has failed                                *)
  win32_sent, errors

win32_vars == <<chunked, last, pos, filepos, phase, view, op, header_, amount, asserted, win32_sent, errors>>

File(p, n) == [i \in 1..n |-> p + i]
Frame == 0

Win32Init ==
  /\ \E y \in Ways : chunked = y.chunked
  /\ last \in Sizes /\ pos = 0 /\ filepos = 0
  /\ phase = "header" /\ view = [i \in 1..Header |-> Frame]
  /\ op = "idle" /\ header_ = FALSE /\ amount = 0 /\ asserted = FALSE
  /\ win32_sent = <<>> /\ errors = 0

Can(a) == asserted = FALSE /\ [async |-> a, chunked |-> chunked] \in Ways

(* The serializer shows the next part: get() reads the file where it is.   *)
Show ==
  IF view # <<>> THEN [view |-> view, phase |-> phase, pos |-> pos]
  ELSE IF phase = "final" \/ pos >= last
       THEN [view |-> <<Frame>>, phase |-> "final", pos |-> pos]
  ELSE LET n == Least(Win32Buf, last - pos)
       IN [view |-> <<Frame>> \o File(filepos, n) \o <<Frame>>, phase |-> "body", pos |-> pos + n]

(* Where it goes on with nothing left to show.                             *)
After(p, at) ==
  CASE p = "header" -> "body"
    [] p = "body" -> IF at < last THEN "body" ELSE "final"
    [] p = "final" -> "done"

(* write_some_impl: n tokens of what is shown.                             *)
WriteSome(n, x) ==
  /\ n \in 1..Len(x.view)
  /\ win32_sent' = win32_sent \o SubSeq(x.view, 1, n)
  /\ view' = SubSeq(x.view, n + 1, Len(x.view))
  /\ phase' = IF view' = <<>> THEN After(x.phase, x.pos) ELSE x.phase

Socket == errors < MaxErrors /\ errors' = errors + 1

------------------------------------------------------------------------------
(* The header, and chunks, go the usual way.                               *)
write_some ==
  /\ op = "idle" /\ Can(FALSE) /\ phase # "done"
  /\ phase = "header" \/ chunked
  /\ \E x \in {Show} :
       /\ pos' = x.pos /\ filepos' = filepos + (x.pos - pos)
       /\ \/ (\E n \in 1..Len(x.view) : WriteSome(n, x)) /\ UNCHANGED errors
          \/ Socket /\ view' = x.view /\ phase' = x.phase /\ UNCHANGED win32_sent
  /\ UNCHANGED <<chunked, last, op, header_, amount, asserted>>

(* pos_ is advanced, and the serializer told that the body is over.        *)
Advance(n) ==
  /\ pos' = pos + n
  /\ phase' = IF pos' >= last THEN "done" ELSE phase

(* TransmitFile sends from the position of the file, which is set first.   *)
Transmit ==
  /\ op = "idle" /\ Can(FALSE) /\ phase = "body" /\ ~chunked
  /\ \E l \in Limits : amount' = Least(last - pos, l)
  /\ \/ /\ win32_sent' = win32_sent \o File(pos, amount') /\ filepos' = pos + amount'
        /\ Advance(amount') /\ UNCHANGED errors
     \/ Socket /\ filepos' \in {filepos, pos} /\ UNCHANGED <<win32_sent, pos, phase>>
  /\ UNCHANGED <<chunked, last, view, op, header_, asserted>>

------------------------------------------------------------------------------
(* write_some_win32_op: the operation decides as above, and header_ says   *)
(* that it writes the header.                                              *)
async_write_some ==
  /\ op = "idle" /\ Can(TRUE) /\ phase # "done"
  /\ phase = "header" \/ chunked
  /\ op' = "some" /\ header_' = (phase = "header")
  /\ \E x \in {Show} :
       /\ pos' = x.pos /\ filepos' = filepos + (x.pos - pos)
       /\ view' = x.view /\ phase' = x.phase
  /\ UNCHANGED <<chunked, last, amount, asserted, win32_sent, errors>>

(* TransmitFile with an offset of its own.                                 *)
async_transmit ==
  /\ op = "idle" /\ Can(TRUE) /\ phase = "body" /\ ~chunked
  /\ op' = "transmit" /\ header_' = FALSE
  /\ \E l \in Limits : amount' = Least(last - pos, l)
  /\ filepos' = pos
  /\ UNCHANGED <<chunked, last, pos, phase, view, asserted, win32_sent, errors>>

(* The operation ends: its own part of the work for what it thinks was     *)
(* TransmitFile.                                                           *)
Done(n, p, v) ==
  IF header_ THEN pos' = pos /\ phase' = p /\ UNCHANGED asserted
  ELSE /\ pos' = pos + n
       /\ asserted' = (pos' > last \/ (pos' >= last /\ (v # <<>> \/ p = "final")))
       /\ phase' = IF pos' >= last /\ v = <<>> /\ p = "body" THEN "done" ELSE p

Transmitted ==
  /\ op = "transmit" /\ op' = "idle"
  /\ \/ /\ win32_sent' = win32_sent \o File(filepos, amount)
        /\ Done(amount, phase, view) /\ UNCHANGED errors
     \/ Socket /\ UNCHANGED <<win32_sent, pos, phase, asserted>>
  /\ UNCHANGED <<chunked, last, filepos, view, header_, amount>>

Wrote ==
  /\ op = "some" /\ op' = "idle"
  /\ \/ /\ \E n \in 1..Len(view) :
             /\ win32_sent' = win32_sent \o SubSeq(view, 1, n)
             /\ view' = SubSeq(view, n + 1, Len(view))
             /\ Done(n, IF n = Len(view) THEN After(phase, pos) ELSE phase, view')
        /\ UNCHANGED errors
     \/ Socket /\ UNCHANGED <<win32_sent, view, pos, phase, asserted>>
  /\ UNCHANGED <<chunked, last, filepos, header_, amount>>

Step == write_some \/ Transmit \/ async_write_some \/ async_transmit \/ Transmitted \/ Wrote

Win32Next == Step

Win32Spec == Win32Init /\ [][Win32Next]_win32_vars

------------------------------------------------------------------------------
(* The file is sent once and in order, over calls of both kinds, limits    *)
(* and errors in between (file_body_win32.hpp:443, :555).                  *)
InOrder ==
  asserted = FALSE =>
    LET content == SelectSeq(win32_sent, LAMBDA t : t # Frame)
    IN /\ content = File(0, Len(content)) /\ Len(content) <= last
       /\ phase = "done" => Len(content) = last

(* What the code asserts: the position stays in the range, and the         *)
(* serializer has nothing to show when the file has been sent              *)
(* (file_body_win32.hpp:480, :337).                                        *)
Asserts == ~asserted

=============================================================================
