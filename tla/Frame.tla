------------------------------- MODULE Frame --------------------------------
EXTENDS Integers, FiniteSets, SequencesExt

(***************************************************************************)
(* The header of a WebSocket frame on its way through the wire: write()    *)
(* composes it, or a peer that is not this code; it arrives in pieces; and *)
(* parse_fh() is called each time to see whether it is there, whether it   *)
(* is legal in the state of the message, and where the payload starts.     *)
(*                                                                         *)
(* The first two bytes are records of their bits.  The length of 8 bytes   *)
(* has Wide bytes here, and 64-bit numbers have as many, so that the sum   *)
(* of the sizes of two frames can overflow.                                *)
(***************************************************************************)

CONSTANTS
  Frames,     \* headers: [op, fin, rsv1, rsv2, rsv3, mask, len, form]
  Readers,    \* the stream that reads: [role, cont, size, pmd, deflated, max]
  Wide,       \* the number of bytes of the longest length
  HeaderBehind      \* how much of the payload arrives with the header

SizesAssumption == Wide \in Nat /\ Wide > 2 /\ HeaderBehind \in Nat

VARIABLES
  fh,         \* the header that is sent
  header_wire,       \* the bytes that have not arrived
  rd          \* the stream, its rd_buf and what parse_fh() has said

header_vars == <<fh, header_wire, rd>>

Largest == 256 ^ Wide - 1

(***************************************************************************)
(* Opcodes.                                                                *)
(***************************************************************************)
cont == 0
text == 1
binary == 2
close == 8
is_reserved(op) == op \in 3 .. 7 \/ op \in 11 .. 15
is_control(op) == op >= close

\* native_to_big of n bytes
BigEndian(v, n) == [k \in 1 .. n |-> (v \div 256 ^ (n - k)) % 256]

FormOf(f) == CASE f.form # "short" -> f.form
               [] f.form = "short" /\ f.len =< 125 -> "7"
               [] f.form = "short" /\ f.len > 125 /\ f.len =< 65535 -> "16"
               [] OTHER -> "64"

Key == <<11, 22, 33, 44>>

write(f) ==
  LET form == FormOf(f)
  IN  << [fin |-> f.fin, rsv1 |-> f.rsv1, rsv2 |-> f.rsv2, rsv3 |-> f.rsv3,
          op |-> f.op],
         [mask |-> f.mask, len |-> CASE form = "7" -> f.len
                                     [] form = "16" -> 126 [] OTHER -> 127] >>
      \o (CASE form = "7" -> <<>> [] form = "16" -> BigEndian(f.len, 2)
            [] OTHER -> BigEndian(f.len, Wide))
      \o (IF f.mask THEN Key ELSE <<>>)

TheLesser(a, b) == IF a < b THEN a ELSE b
PayloadHere(f) == [k \in 1 .. TheLesser(f.len, HeaderBehind) |-> 200 + k]

(***************************************************************************)
(* parse_fh().                                                             *)
(***************************************************************************)
Need(b1) == (CASE b1.len = 126 -> 2 [] b1.len = 127 -> Wide [] OTHER -> 0)
            + (IF b1.mask THEN 4 ELSE 0)

\* rd_deflated(rsv1): the first frame says whether the message is deflated
RefusesRsv1(r, b0) == b0.rsv1 /\ ~r.pmd

\* What the first two bytes show
BitsError(r, b0, b1) ==
  CASE b0.op \in {text, binary} ->
         CASE r.cont -> "bad_data_frame"
           [] ~r.cont /\ (b0.rsv2 \/ b0.rsv3 \/ RefusesRsv1(r, b0)) ->
                "bad_reserved_bits"
           [] OTHER -> "ok"
    [] b0.op = cont ->
         CASE ~r.cont -> "bad_continuation"
           [] r.cont /\ (b0.rsv1 \/ b0.rsv2 \/ b0.rsv3) -> "bad_reserved_bits"
           [] OTHER -> "ok"
    [] OTHER ->
         CASE is_reserved(b0.op) -> "bad_opcode"
           [] ~is_reserved(b0.op) /\ ~b0.fin -> "bad_control_fragment"
           [] ~is_reserved(b0.op) /\ b0.fin /\ b1.len > 125 -> "bad_control_size"
           [] ~is_reserved(b0.op) /\ b0.fin /\ b1.len =< 125
              /\ (b0.rsv1 \/ b0.rsv2 \/ b0.rsv3) -> "bad_reserved_bits"
           [] OTHER -> "ok"

MaskError(r, b1) ==
  CASE r.role = "server" /\ ~b1.mask -> "bad_unmasked_frame"
    [] r.role = "client" /\ b1.mask -> "bad_masked_frame"
    [] OTHER -> "ok"

\* big_to_native of the n bytes after the first two
LengthOf(buf, n) ==
  FoldLeft(LAMBDA v, b : v * 256 + b, 0, SubSeq(buf, 3, 2 + n))

LengthBytes(b1) == Need(b1) - (IF b1.mask THEN 4 ELSE 0)
Length(buf) == IF LengthBytes(buf[2]) = 0 THEN buf[2].len
               ELSE LengthOf(buf, LengthBytes(buf[2]))
NotCanonical(buf) == \/ buf[2].len = 126 /\ Length(buf) < 126
                     \/ buf[2].len = 127 /\ Length(buf) < 65536

\* x + y > z of unsigned numbers
sum_exceeds(x, y, z) == y > z \/ x > z - y

\* The message would become larger than a number can say, or than is allowed
TooBig(r, b0, len) ==
  LET size == IF b0.op = cont THEN r.size ELSE 0
      deflated == IF b0.op = cont THEN r.deflated ELSE b0.rsv1
  IN  \/ b0.op = cont /\ r.size > Largest - len
      \/ ~deflated /\ r.max > 0 /\ sum_exceeds(size, len, r.max)

Said(r, result) == [r EXCEPT !.result = result]

\* The frame is there: its header is consumed, its data will be read
Accept(r, n) ==
  LET b0 == r.buf[1]
      len == Length(r.buf)
      j == [Said(r, "frame") EXCEPT !.buf = SubSeq(@, n + 1, Len(@)),
              !.fh = [op |-> b0.op, fin |-> b0.fin, len |-> len],
              !.key = IF r.buf[2].mask THEN SubSeq(r.buf, n - 3, n) ELSE <<>>]
  IN  IF is_control(b0.op) THEN j
      ELSE [j EXCEPT !.cont = ~b0.fin, !.remain = len,
                     !.size = IF b0.op = cont THEN @ ELSE 0]

\* The first frame says whether the message is deflated, also if it is
\* refused for something else afterwards
Noted(r, b0) == IF b0.op \in {text, binary} THEN [r EXCEPT !.deflated = b0.rsv1]
                ELSE r

\* n bytes of header, and b0, b1 the first two of them
Parsed(r, b0, b1, n) ==
  LET j == Noted(r, b0)
  IN
  CASE BitsError(r, b0, b1) # "ok" -> Said(r, BitsError(r, b0, b1))
    [] BitsError(r, b0, b1) = "ok" /\ MaskError(r, b1) # "ok" ->
         Said(j, MaskError(r, b1))
    [] OTHER ->
         CASE is_control(b0.op) /\ Len(r.buf) < n + b1.len -> Said(r, "more")
           [] NotCanonical(r.buf) -> Said(j, "bad_size")
           [] ~is_control(b0.op) /\ ~NotCanonical(r.buf)
              /\ TooBig(r, b0, Length(r.buf)) ->
                Said([j EXCEPT !.size = IF b0.op = cont THEN @ ELSE 0],
                     "message_too_big")
           [] OTHER -> Accept(j, n)

parse_fh(r) ==
  IF Len(r.buf) < 2 THEN Said(r, "more")
  ELSE IF Len(r.buf) - 2 < Need(r.buf[2]) THEN Said(r, "more")
       ELSE Parsed(r, r.buf[1], r.buf[2], 2 + Need(r.buf[2]))

(***************************************************************************)
(* A stream is about to read, in the middle of a message or not.           *)
(***************************************************************************)
HeaderInit ==
  /\ fh \in Frames
  /\ header_wire = write(fh) \o PayloadHere(fh)
  /\ \E s \in Readers :
       rd = [role |-> s.role, cont |-> s.cont, size |-> s.size, pmd |-> s.pmd,
             deflated |-> s.deflated, max |-> s.max, buf |-> <<>>,
             remain |-> 0, result |-> "more", key |-> <<>>,
             fh |-> [op |-> 0, fin |-> FALSE, len |-> 0], was |-> s]

\* while(! parse_fh(...)) { ... read_some ... }
Read ==
  /\ rd.result = "more"
  /\ \E n \in 1 .. Len(header_wire) :
       /\ rd' = parse_fh([rd EXCEPT !.buf = @ \o SubSeq(header_wire, 1, n)])
       /\ header_wire' = SubSeq(header_wire, n + 1, Len(header_wire))
  /\ UNCHANGED fh

HeaderNext == Read
HeaderSpec == HeaderInit /\ [][HeaderNext]_header_vars

(***************************************************************************)
(* What RFC 6455 calls a legal frame.                                      *)
(***************************************************************************)
Message(s, f) == IF f.op = cont THEN s.size + f.len ELSE f.len
Deflated(s, f) == IF f.op = cont THEN s.deflated ELSE f.rsv1
Minimal(f) == FormOf(f) = FormOf([f EXCEPT !.form = "short"])

Legal(s, f) ==
  /\ f.op \in {0, 1, 2, 8, 9, 10}
  /\ f.mask <=> s.role = "server"
  /\ ~f.rsv2 /\ ~f.rsv3 /\ (f.rsv1 => s.pmd /\ f.op \in {1, 2})
  /\ f.op >= 8 => f.fin /\ f.len =< 125
  /\ f.op < 8 => (s.cont <=> f.op = 0)
  /\ Minimal(f)
  /\ f.op = 0 => Message(s, f) =< Largest
  /\ f.op < 8 /\ s.max > 0 /\ ~Deflated(s, f) => Message(s, f) =< s.max

(***************************************************************************)
(* Properties.                                                             *)
(***************************************************************************)
Done == rd.result # "more"

\* The size of the message can be counted, what is still to come included:
\* rd_size does not wrap while the payload is read (stream_impl.hpp:878)
HeaderTypeOK == /\ rd.size + rd.remain \in 0 .. Largest
          /\ rd.cont \in BOOLEAN /\ Len(rd.key) \in {0, 4}

\* A frame is accepted if and only if it is legal in the state of the
\* message (stream_impl.hpp:738)
LegalIsAccepted == Done => (rd.result = "frame" <=> Legal(rd.was, fh))

\* The fields arrive as they were sent, whatever pieces they came in, and
\* the header is consumed to the last byte and no further: what is left in
\* the buffer is payload (stream_impl.hpp:899)
FieldsArrive ==
  rd.result = "frame" =>
    /\ rd.fh = [op |-> fh.op, fin |-> fh.fin, len |-> fh.len]
    /\ rd.key = IF fh.mask THEN Key ELSE <<>>
    /\ rd.buf \o header_wire = PayloadHere(fh)
    /\ ~is_control(fh.op) => rd.remain = fh.len /\ rd.cont = ~fh.fin

\* When the header is there, with all the payload of a control frame, the
\* stream does not wait for more (stream_impl.hpp:824)
NoVainWait ==
  header_wire = <<>> /\ (is_control(fh.op) => fh.len =< HeaderBehind) => Done

\* A control frame is not accepted before its payload is there
\* (stream_impl.hpp:826)
ControlIsWhole ==
  rd.result = "frame" /\ is_control(fh.op) => Len(rd.buf) >= fh.len

\* A control frame leaves the message alone that it comes in the middle of,
\* and so does a header while it is not complete (stream_impl.hpp:857)
MessageUntouched ==
  rd.result = "more" \/ is_control(fh.op) =>
    /\ rd.cont = rd.was.cont /\ rd.size = rd.was.size /\ rd.remain = 0
    /\ rd.deflated = rd.was.deflated

---------------------------------------------------------------------------
(***************************************************************************)
(* The payload of a frame under its mask.  The sender masks it in the      *)
(* pieces it writes, the receiver unmasks it in the pieces that arrive,    *)
(* each a sequence of buffers; the prepared key is rotated after a piece   *)
(* that is not a multiple of its four bytes.  The payload is one of data,  *)
(* or the code and the reason of a close frame.                            *)
(*                                                                         *)
(* A byte is what it stands for and the set of the bytes of the key it was *)
(* combined with: the exclusive or with the same byte twice is undone.     *)
(***************************************************************************)

CONSTANTS
  Payloads,   \* what is sent: [kind, size, code, utf8, own]
  PayloadBehind,     \* how many bytes of the next frame may be in the buffer too
  Buffers     \* the most buffers a piece has

PayloadAssumption == PayloadBehind \in Nat /\ Buffers \in Nat \ {0}

VARIABLES
  tx,         \* the sender: what it has not sent, its prepared key
  payload_wire,       \* the bytes that have not arrived
  rx          \* the receiver: rd_buf, rd_key, rd_remain, what it delivers

payload_vars == <<tx, payload_wire, rx>>

Byte(id) == [id |-> id, mask |-> {}]
XorByte(b, k) == [b EXCEPT !.mask = (@ \ {k}) \cup ({k} \ @)]

(***************************************************************************)
(* mask.ipp.  A prepared key is the order in which its bytes are used.     *)
(***************************************************************************)
prepare_key == <<0, 1, 2, 3>>

rol(key, n) == [i \in 1 .. 4 |-> key[((i - 1 + n) % 4) + 1]]

\* One buffer: its bytes, and the key for the bytes that follow
Masked(b, key) == [i \in DOMAIN b |-> XorByte(b[i], key[((i - 1) % 4) + 1])]

KeyAfter(b, key) == IF Len(b) % 4 = 0 THEN key ELSE rol(key, Len(b) % 4)

\* The buffers of a sequence one after the other: [out, key]
mask_inplace(buffers, key) ==
  FoldLeft(LAMBDA acc, b : [out |-> acc.out \o Masked(b, acc.key),
                            key |-> KeyAfter(b, acc.key)],
           [out |-> <<>>, key |-> key], buffers)

\* The ways to lay s out in at most Buffers buffers
Layouts(s) ==
  {<<s>>} \cup (IF Buffers = 1 THEN {} ELSE
    {<<SubSeq(s, 1, k), SubSeq(s, k + 1, Len(s))>> : k \in 0 .. Len(s)})

(***************************************************************************)
(* write_close(): no payload without a code, else two bytes and the reason,*)
(* masked one after the other as a message is in its pieces.  Another peer *)
(* may send any payload.                                                   *)
(***************************************************************************)
none == 0
SizeOf(p) == IF p.kind = "close" /\ p.own /\ p.code = none THEN 0 ELSE p.size
Payload(p) == [i \in 1 .. SizeOf(p) |-> Byte(i)]
NextFrame == [i \in 1 .. PayloadBehind |-> Byte(100 + i)]

PayloadInit ==
  /\ \E p \in Payloads :
       tx = [p |-> p, left |-> Payload(p), key |-> prepare_key]
  /\ payload_wire = <<>>
  /\ rx = [buf |-> <<>>, key |-> prepare_key, remain |-> SizeOf(tx.p),
           got |-> <<>>, result |-> "none"]

\* A piece of the message; the bytes of the next frame follow the last one.
\* A close frame has its code in a piece of its own
Send ==
  /\ tx.left # <<>>
  /\ \E n \in 1 .. Len(tx.left) : \E lay \in Layouts(SubSeq(tx.left, 1, n)) :
       /\ tx.p.kind = "close" /\ Len(tx.left) = tx.p.size => n = 2 \/ tx.p.size < 2
       /\ tx.p.kind = "close" /\ Len(tx.left) < tx.p.size => n = Len(tx.left)
       /\ LET m == mask_inplace(lay, tx.key)
              left == SubSeq(tx.left, n + 1, Len(tx.left))
          IN  /\ tx' = [tx EXCEPT !.left = left, !.key = m.key]
              /\ payload_wire' = payload_wire \o m.out \o (IF left = <<>> THEN NextFrame ELSE <<>>)
  /\ UNCHANGED rx

Rest(s, n) == SubSeq(s, n + 1, Len(s))

\* What has arrived, in the buffers of rd_buf: only the part that belongs to
\* the frame is unmasked
Unmask(r, in) ==
  LET n == TheLesser(r.remain, Len(in))
  IN  {[r EXCEPT !.buf = @ \o m.out \o Rest(in, n), !.key = m.key] :
         m \in {mask_inplace(lay, r.key) : lay \in Layouts(SubSeq(in, 1, n))}}

\* The buffer is filled when nothing is left in it
Fill ==
  /\ rx.result = "none" /\ rx.buf = <<>> /\ rx.remain > 0 /\ tx.p.kind = "data"
  /\ \E n \in 1 .. Len(payload_wire) :
       /\ rx' \in Unmask(rx, SubSeq(payload_wire, 1, n))
       /\ payload_wire' = Rest(payload_wire, n)
  /\ UNCHANGED tx

\* Some of the payload is copied to the caller
Deliver ==
  /\ rx.result = "none" /\ rx.buf # <<>> /\ rx.remain > 0 /\ tx.p.kind = "data"
  /\ \E n \in 1 .. TheLesser(rx.remain, Len(rx.buf)) :
       rx' = [rx EXCEPT !.got = @ \o SubSeq(rx.buf, 1, n), !.buf = Rest(@, n),
                        !.remain = @ - n]
  /\ UNCHANGED <<tx, payload_wire>>

(***************************************************************************)
(* A close frame is read when all its payload is there.                    *)
(***************************************************************************)
is_valid_close_code(code) ==
  \/ code \in {1000, 1001, 1002, 1003, 1007, 1008, 1009, 1010, 1011, 1012, 1013}
  \/ code \notin {1004, 1005, 1006, 1014, 1015} \cup (1016 .. 2999) \cup (0 .. 999)

read_close(p, n) ==
  CASE n = 0 -> "ok"
    [] n = 1 -> "bad_close_size"
    [] n > 1 /\ ~is_valid_close_code(p.code) -> "bad_close_code"
    [] OTHER -> IF n > 2 /\ ~p.utf8 THEN "bad_close_payload" ELSE "ok"

Close ==
  /\ rx.result = "none" /\ tx.p.kind = "close" /\ tx.left = <<>>
  /\ \E r \in Unmask(rx, payload_wire) :
       rx' = [r EXCEPT !.got = SubSeq(r.buf, 1, r.remain),
                       !.buf = Rest(@, r.remain), !.remain = 0,
                       !.result = read_close(tx.p, r.remain)]
  /\ payload_wire' = <<>>
  /\ UNCHANGED tx

PayloadNext == Send \/ Fill \/ Deliver \/ Close
PayloadSpec == PayloadInit /\ [][PayloadNext]_payload_vars

(***************************************************************************)
(* Properties.                                                             *)
(***************************************************************************)
\* The bytes of a payload lie between those delivered and those to come
PayloadTypeOK == /\ rx.remain + Len(rx.got) = SizeOf(tx.p)
          /\ \A k \in {tx.key, rx.key} : {k[i] : i \in 1 .. 4} = 0 .. 3

\* However both sides cut the payload, what is delivered is what was sent,
\* with no mask left on it (mask.ipp:41, read.hpp:204)
Unmasked == IsPrefix(rx.got, Payload(tx.p))

\* No byte of the next frame is touched (read.hpp:206)
NextUntouched ==
  rx.remain = 0 => /\ \A i \in DOMAIN rx.buf : rx.buf[i].mask = {}
                   /\ tx.left = <<>> => Len(rx.buf) + Len(payload_wire) =< PayloadBehind

\* What is on the wire is masked once, the n-th byte with the n-th of the
\* key: a peer that takes the frame as a whole can read it (mask.ipp:48)
WireIsMasked ==
  LET first == SizeOf(tx.p) - Len(tx.left) - Cardinality(
                 {i \in DOMAIN payload_wire : payload_wire[i].id < 100})
  IN  \A i \in DOMAIN payload_wire : payload_wire[i].id < 100 =>
        /\ payload_wire[i].id = first + i
        /\ payload_wire[i].mask = {(payload_wire[i].id - 1) % 4}

\* A close frame is accepted if and only if it has no payload, or a code an
\* endpoint may send and a reason in UTF-8 (frame.hpp:205)
CloseIsJudged ==
  rx.result # "none" =>
    (rx.result = "ok" <=>
       \/ SizeOf(tx.p) = 0
       \/ /\ SizeOf(tx.p) >= 2
          /\ tx.p.code \in (1000 .. 1003) \cup (1007 .. 1013) \cup (3000 .. 65535)
          /\ SizeOf(tx.p) = 2 \/ tx.p.utf8)

---------------------------------------------------------------------------
(***************************************************************************)
(* websocket::detail::utf8_checker: is a text that comes in pieces UTF-8,  *)
(* and, as soon as it cannot become UTF-8 any more, is it not.             *)
(*                                                                         *)
(* Bytes are numbers.  A piece is one call of write(), its address taken   *)
(* modulo the size of a word, which is four: a 32 bit build.               *)
(***************************************************************************)

CONSTANTS
  Texts,     (* sequences of bytes                                          *)
  Sizes,     (* of the pieces                                               *)
  Addresses  (* of the pieces, 0 is at a word                               *)

Word == 4
CheckerAssumption ==
  /\ \A t \in Texts : t \in Seq(0 .. 255)
  /\ Sizes \subseteq Nat /\ Addresses \subseteq 0 .. Word - 1

VARIABLES
  utf8_text, fed,  (* what is to come, and how much of it came              *)
  need,            (* need_: bytes missing from the code point              *)
  cp,              (* the code point's bytes so far, cp_ up to p_           *)
  verdict          (* what the last call returned                           *)

utf8_vars == <<utf8_text, fed, need, cp, verdict>>

Utf8Init ==
  /\ utf8_text \in Texts
  /\ fed = 0 /\ need = 0 /\ cp = <<>> /\ verdict = "so far"

Lead2(b) == b \div 32 = 6
Lead3(b) == b \div 16 = 14
Lead4(b) == b \div 8 = 30
Trail(b) == b \div 64 = 2

(* What is wrong with a code point can be seen from its first byte, from   *)
(* its second one, and from the others.                                    *)
WrongFirst(b)     == (Lead2(b) /\ b % 32 < 2) \/ (Lead4(b) /\ b % 8 >= 5)

WrongSecond(b, c) ==
  \/ ~Trail(c)
  \/ b = 224 /\ c < 160
  \/ b = 237 /\ c >= 160
  \/ b = 240 /\ c < 144
  \/ b = 244 /\ c > 143

LengthBy(b) == IF b < 128 THEN 1 ELSE IF Lead2(b) THEN 2 ELSE IF Lead3(b) THEN 3
               ELSE IF Lead4(b) THEN 4 ELSE 0

(* needed(), by the ranges of the first byte.                              *)
needed(b) == IF b < 128 THEN 1 ELSE IF b < 192 THEN 0 ELSE IF b < 224 THEN 2
             ELSE IF b < 240 THEN 3 ELSE IF b < 248 THEN 4 ELSE 0

(* valid(): the length of the code point at i, 0 if it is none.            *)
valid(b, i) ==
  LET k == LengthBy(b[i])
  IN  IF \/ k = 0 \/ WrongFirst(b[i])
         \/ k > 1 /\ WrongSecond(b[i], b[i + 1])
         \/ \E j \in 2 .. k - 1 : ~Trail(b[i + j])
        THEN 0 ELSE k

(* fail_fast(): the bytes that are known cannot begin a code point.        *)
fail_fast(known) ==
  \/ WrongFirst(known[1])
  \/ Len(known) > 1 /\ WrongSecond(known[1], known[2])
  \/ Len(known) > 2 /\ ~Trail(known[3])

(* Code points from i on, as long as they begin before last: where the     *)
(* first one after them begins, 0 if one is not valid.                     *)
RECURSIVE Through(_, _, _)
Through(b, i, last) ==
  IF i >= last THEN i
  ELSE IF valid(b, i) = 0 THEN 0
  ELSE Through(b, i + valid(b, i), last)

Ascii(b, i) == b[i] < 128

(* Up to a word's address, one byte at a time; then word by word as long   *)
(* as all of a word's bytes are ASCII.                                     *)
RECURSIVE ToWord(_, _, _)
ToWord(b, i, word) == IF i >= word \/ ~Ascii(b, i) THEN i ELSE ToWord(b, i + 1, word)

RECURSIVE ByWords(_, _, _)
ByWords(b, i, last) ==
  IF i >= last \/ \E j \in 0 .. Word - 1 : ~Ascii(b, i + j) THEN i
  ELSE ByWords(b, i + Word, last)

(* Where the careful part begins, 0 if what is before is not valid.        *)
Whole(b, address) ==
  LET n    == Len(b)
      word == 1 + ((Word - address) % Word)
      i    == IF n <= Word THEN 1 ELSE ToWord(b, 1, word)
      j    == IF n <= Word \/ i < word THEN i ELSE ByWords(b, i, n + 1 - 7)
  IN  Through(b, j, n + 1 - 3)

(* The end of the piece: a code point that is not complete is kept.        *)
RECURSIVE EndOf(_, _)
EndOf(b, i) ==
  IF i = 0 THEN [ok |-> FALSE, need |-> 0, cp |-> <<>>]
  ELSE IF i > Len(b) THEN [ok |-> TRUE, need |-> 0, cp |-> <<>>]
  ELSE LET k == needed(b[i])
           n == Len(b) + 1 - i
       IN  IF k = 0 THEN [ok |-> FALSE, need |-> 0, cp |-> <<>>]
           ELSE IF k <= n THEN EndOf(b, IF valid(b, i) = 0 THEN 0 ELSE i + valid(b, i))
           ELSE LET known == SubSeq(b, i, Len(b))
                IN  [ok |-> ~fail_fast(known), need |-> k - n, cp |-> known]

Returns(r) == /\ need' = r.need /\ cp' = r.cp
              /\ verdict' = IF r.ok THEN "so far" ELSE "bad"

(* write(): first the code point that the last piece left.                 *)
utf8_write(b, address) ==
  LET n     == IF Len(b) < need THEN Len(b) ELSE need
      known == cp \o SubSeq(b, 1, n)
      rest  == SubSeq(b, n + 1, Len(b))
  IN  IF need = 0 THEN Returns(EndOf(b, Whole(b, address)))
      ELSE IF need > n
        THEN Returns([ok |-> ~fail_fast(known), need |-> need - n, cp |-> known])
      ELSE IF valid(known, 1) = 0
        THEN Returns([ok |-> FALSE, need |-> 0, cp |-> known])
      ELSE Returns(EndOf(rest, Whole(rest, (address + n) % Word)))

Write ==
  /\ verdict = "so far"
  /\ \E k \in Sizes, address \in Addresses :
       /\ fed + k <= Len(utf8_text)
       /\ utf8_write(SubSeq(utf8_text, fed + 1, fed + k), address)
       /\ fed' = fed + k
  /\ UNCHANGED utf8_text

(* finish(), and reset().                                                  *)
finish ==
  /\ verdict = "so far" /\ fed = Len(utf8_text)
  /\ verdict' = IF need = 0 THEN "good" ELSE "bad"
  /\ need' = 0 /\ cp' = <<>>
  /\ UNCHANGED <<utf8_text, fed>>

Utf8Next == Write \/ finish
Utf8Spec == Utf8Init /\ [][Utf8Next]_utf8_vars

------------------------------------------------------------------------------
(* The well-formed code points, by the table of the Unicode standard.      *)
WellFormed ==
  { <<0 .. 127>>,
    <<194 .. 223, 128 .. 191>>,
    <<{224}, 160 .. 191, 128 .. 191>>,
    <<225 .. 236 \cup {238, 239}, 128 .. 191, 128 .. 191>>,
    <<{237}, 128 .. 159, 128 .. 191>>,
    <<{240}, 144 .. 191, 128 .. 191, 128 .. 191>>,
    <<241 .. 243, 128 .. 191, 128 .. 191, 128 .. 191>>,
    <<{244}, 128 .. 143, 128 .. 191, 128 .. 191>> }

(* b from i on is code points; the last one may have only begun.           *)
RECURSIVE Utf8From(_, _, _)
Utf8From(b, i, whole) ==
  \/ i > Len(b)
  \/ \E row \in WellFormed :
       LET n == IF Len(b) + 1 - i < Len(row) THEN Len(b) + 1 - i ELSE Len(row)
       IN  /\ whole => n = Len(row)
           /\ \A j \in 1 .. n : b[i + j - 1] \in row[j]
           /\ Utf8From(b, i + n, whole)

(* A text is found good if and only if it is UTF-8, in whatever pieces it  *)
(* came and wherever they were (utf8_checker.ipp:174-315).                 *)
GoodIsUtf8 ==
  verdict = "good" => Utf8From(utf8_text, 1, TRUE)
Utf8IsGood ==
  verdict = "bad" => ~Utf8From(utf8_text, 1, TRUE)

(* "Fail fast": what came is refused at once when nothing that can follow  *)
(* would make it UTF-8 (utf8_checker.ipp:195-198).                         *)
FailsFast == verdict = "so far" => Utf8From(SubSeq(utf8_text, 1, fed), 1, FALSE)

(* At the end of a piece what is kept is one code point that has begun.    *)
KeepsBegun ==
  verdict = "so far" =>
    /\ need = 0 <=> cp = <<>>
    /\ need > 0 => cp = SubSeq(utf8_text, fed + 1 - Len(cp), fed) /\ Len(cp) + need = needed(cp[1])
=============================================================================
