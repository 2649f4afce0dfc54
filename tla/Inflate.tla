------------------------------- MODULE Inflate -------------------------------
(***************************************************************************)
(* zlib::detail::inflate_stream: doWrite() with its modes, the bits it     *)
(* keeps between two calls, inflate_fast(), and the window that holds what *)
(* the caller has taken away.                                              *)
(*                                                                         *)
(* A compressed stream is a sequence of items, the things that are read at *)
(* a time, with the number of bits each has in the code; what the bits are *)
(* is left out.  The code reads the right ones as long as it drops what    *)
(* the items have: see InStep.  What a table demands of the bits for one   *)
(* code, need, is more than the code has, as the first lookup takes        *)
(* lenbits_ or distbits_ of them.                                          *)
(*                                                                         *)
(* A case of the switch is a step, or an iteration of inflate_fast().      *)
(***************************************************************************)
EXTENDS Integers, FiniteSetsExt, SequencesExt

CONSTANTS
  Streams,      (* inputs: [items, tail, valid], see Compressed             *)
  Chars,
  Blank,        (* what is in no text                                      *)
  Capacity,     (* of the window, 2^windowBits in the code                 *)
  FastOut,      (* 258 in the code, the longest match                      *)
  Pieces,       (* how many bytes a call may add to the input              *)
  Rooms,        (* how much room a call may have                           *)
  Flushes,      (* flush modes the caller uses                             *)
  MaxRestarts   (* bound: calls of reset() and clear()                     *)

VARIABLES
  stream, at,               (* the input, and the item that is to be read  *)
  first, next, last,        (* r.in; positions in the whole input          *)
  buffer,                   (* where the caller's buffer begins            *)
  room, used,               (* r.out.avail(), r.out.used()                 *)
  flush, ec, pc,
  n,                        (* bi_.size()                                  *)
  mode, final, length, offset, (* mode_, last_, length_, offset_           *)
  window,                   (* w_                                          *)
  dataType,                 (* zs.data_type                                *)
  text, told,               (* history: all output, and what of it was reported *)
  restarts                  (* bound                                       *)

input  == <<stream, buffer, first, last, flush, restarts>>
bits   == <<next, n>>
output == <<room, used, text>>
copies == <<length, offset>>
vars   == <<input, at, bits, output, copies, ec, pc, mode, final, window, dataType, told>>

FastIn   == 6
FastBits == 15

Least(a, b) == IF a < b THEN a ELSE b
Bytes(b)    == (b + 7) \div 8

(* What came before once more, from a distance, over and over.             *)
CopyBack(t, distance, m) == t \o [j \in 1 .. m |-> t[Len(t) - distance + 1 + ((j - 1) % distance)]]

------------------------------------------------------------------------------
(* The items.                                                              *)

Item      == stream.items[at]
(* Where an item ends, in bits; a stored block is at a byte.               *)
EndOf(items) ==
  LET end[i \in 0 .. Len(items)] ==
        IF i = 0 THEN 0
        ELSE LET it == items[i]
             IN  (IF it.k = "sizes" THEN 8 * Bytes(end[i - 1]) ELSE end[i - 1]) + it.bits + it.extra
  IN  end

(* The text that the items stand for.                                      *)
Expand(items) ==
  LET upTo[i \in 0 .. Len(items)] ==
        IF i = 0 THEN <<>>
        ELSE CASE items[i].k \in {"lit", "byte"} -> Append(upTo[i - 1], items[i].c)
               [] items[i].k = "dist" /\ items[i].d <= Len(upTo[i - 1]) -> CopyBack(upTo[i - 1], items[i].d, items[i - 1].n)
               [] OTHER -> upTo[i - 1]
  IN  upTo[Len(items)]

(* A stream: its items, what they stand for, and bytes behind them.        *)
Compressed(s) ==
  LET ends == EndOf(s.items)
  IN  [items |-> s.items, ends |-> ends, text |-> Expand(s.items), valid |-> s.valid,
       total |-> Bytes(ends[Len(s.items)]) + s.tail]

Inputs == {Compressed(s) : s \in Streams}

InflateAssumption ==
  Capacity > 0 /\ FastOut > 0 /\ Blank \notin Chars /\ MaxRestarts \in Nat

------------------------------------------------------------------------------
(* class window.                                                           *)

NewWindow == [p |-> [i \in 0 .. Capacity - 1 |-> Blank], i |-> 0, size |-> 0]

WindowRead(pos, m) ==
  IF window.i >= window.size
    THEN [j \in 1 .. m |-> window.p[window.i - pos + j - 1]]
    ELSE [j \in 1 .. m |-> window.p[(window.i - pos + Capacity + j - 1) % Capacity]]

WindowWrite(s) ==
  LET m == Len(s)
  IN  IF m >= Capacity
        THEN [p |-> [i \in 0 .. Capacity - 1 |-> s[m - Capacity + i + 1]], i |-> 0, size |-> Capacity]
        ELSE [p    |-> [i \in 0 .. Capacity - 1 |->
                          IF (i - window.i + Capacity) % Capacity < m
                            THEN s[((i - window.i + Capacity) % Capacity) + 1] ELSE window.p[i]],
              i    |-> (window.i + m) % Capacity,
              size |-> Least(window.size + m, Capacity)]

------------------------------------------------------------------------------
(* class bitstream.                                                        *)

(* fill(): the bytes it takes, and whether they are enough.                *)
Pulls(b)  == IF n >= b THEN 0 ELSE Least(last - next, Bytes(b - n))
Filled(b) == n + 8 * Pulls(b) >= b

Reads(b, drop) == next' = next + Pulls(b) /\ n' = n + 8 * Pulls(b) - drop

------------------------------------------------------------------------------
Init ==
  /\ stream \in Inputs /\ at = 1
  /\ first = 0 /\ next = 0 /\ last = 0 /\ buffer = 0
  /\ room = 0 /\ used = 0 /\ flush = "none" /\ ec = "ok" /\ pc = "idle"
  /\ n = 0 /\ mode = "HEAD" /\ final = FALSE /\ length = 0 /\ offset = 0
  /\ window = NewWindow /\ dataType = [unused |-> 0, last |-> FALSE, at |-> ""]
  /\ text = <<>> /\ told = 0 /\ restarts = 0

(* write(): the rest of the input and k bytes more, room for r.  A new     *)
(* buffer is somewhere else in the memory; it comes when the last one is   *)
(* empty.                                                                  *)
Write(k, r, f) ==
  /\ pc = "idle" /\ mode # "BAD" /\ last + k <= stream.total
  /\ buffer' = (IF next = last THEN next ELSE buffer)
  /\ first' = next /\ last' = last + k
  /\ room' = r /\ used' = 0 /\ flush' = f /\ ec' = "ok" /\ pc' = "run"
  /\ mode' = (IF mode = "TYPE" THEN "TYPEDO" ELSE mode)
  /\ UNCHANGED <<stream, at, bits, text, copies, final, window, dataType, told, restarts>>

In(m)     == pc = "run" /\ mode = m
Returns   == pc' = "done"
Wants(b)  == ~Filled(b) /\ Reads(b, 0) /\ Returns
             /\ UNCHANGED <<input, at, output, copies, ec, mode, final, window, dataType, told>>

(* err(): mode_ and ec, and back to the caller without done().             *)
Fails(e)  == ec' = e /\ mode' = "BAD" /\ pc' = "idle"

Writes(t) == text' = t /\ used' = used + Len(t) - Len(text) /\ room' = room - (Len(t) - Len(text))

HeadMode ==
  /\ In("HEAD")
  /\ mode' = "TYPEDO"
  /\ UNCHANGED <<input, at, bits, output, copies, ec, pc, final, window, dataType, told>>

Type ==
  /\ In("TYPE")
  /\ IF flush \in {"block", "trees"} THEN Returns /\ UNCHANGED mode ELSE mode' = "TYPEDO" /\ UNCHANGED pc
  /\ UNCHANGED <<input, at, bits, output, copies, ec, final, window, dataType, told>>

ModeOf(type) == CASE type = "stored" -> "STORED" [] type = "fixed" -> "LEN_" [] type = "dynamic" -> "TABLE"

TypeLast ==
  /\ In("TYPEDO") /\ final
  /\ n' = n - (n % 8) /\ mode' = "CHECK"
  /\ UNCHANGED <<input, at, next, output, copies, ec, pc, final, window, dataType, told>>

TypeDo ==
  /\ In("TYPEDO") /\ ~final
  /\ \/ Wants(3)
     \/ /\ Filled(3) /\ Reads(3, 3)
        /\ final' = Item.last
        /\ IF Item.type = "bad" THEN Fails("invalid_block_type") /\ UNCHANGED at
           ELSE /\ mode' = ModeOf(Item.type) /\ at' = at + 1
                /\ IF Item.type = "fixed" /\ flush = "trees" THEN Returns ELSE UNCHANGED pc
                /\ UNCHANGED ec
        /\ UNCHANGED <<input, output, copies, window, dataType, told>>

(* A stored block: at the next byte, its size and that once more.          *)
Stored ==
  /\ In("STORED")
  /\ LET m == n - (n % 8)
         p == IF m >= 32 THEN 0 ELSE Least(last - next, Bytes(32 - m))
     IN  /\ next' = next + p
         /\ IF m + 8 * p < 32 THEN n' = m + 8 * p /\ Returns /\ UNCHANGED <<at, length, ec, mode>>
            ELSE /\ n' = 0
                 /\ IF ~Item.ok THEN Fails("invalid_stored_length") /\ UNCHANGED <<at, length>>
                    ELSE /\ length' = Item.n /\ at' = at + 1 /\ mode' = "COPY_"
                         /\ IF flush = "trees" THEN Returns ELSE UNCHANGED pc
                         /\ UNCHANGED ec
  /\ UNCHANGED <<input, output, offset, final, window, dataType, told>>

(* COPY_ and LEN_, the first time.                                         *)
Enter ==
  /\ pc = "run" /\ mode \in {"COPY_", "LEN_"}
  /\ mode' = IF mode = "COPY_" THEN "COPY" ELSE "LEN"
  /\ UNCHANGED <<input, at, bits, output, copies, ec, pc, final, window, dataType, told>>

Copy ==
  /\ In("COPY")
  /\ LET copy == Least(length, Least(last - next, room))
     IN  /\ IF length = 0 THEN mode' = "TYPE" /\ UNCHANGED pc
            ELSE IF copy = 0 THEN Returns /\ UNCHANGED mode ELSE UNCHANGED <<mode, pc>>
         /\ Writes(text \o [j \in 1 .. copy |-> stream.items[at + j - 1].c])
         /\ next' = next + copy /\ length' = length - copy /\ at' = at + copy
  /\ UNCHANGED <<input, n, offset, ec, final, window, dataType, told>>

Table ==
  /\ In("TABLE")
  /\ \/ Wants(14)
     \/ /\ Filled(14) /\ Reads(14, 14)
        /\ IF Item.ok THEN mode' = "LENLENS" /\ at' = at + 1 /\ UNCHANGED <<ec, pc>>
           ELSE Fails("too_many_symbols") /\ UNCHANGED at
        /\ UNCHANGED <<input, output, copies, final, window, dataType, told>>

(* The lengths of the codes for lengths; BAD is left to the switch.        *)
LenLens ==
  /\ In("LENLENS")
  /\ \/ Item.k = "lenlen" /\ Wants(3)
     \/ /\ Item.k = "lenlen" /\ Filled(3) /\ Reads(3, 3)
        /\ at' = at + 1
        /\ UNCHANGED <<input, output, copies, ec, pc, mode, final, window, dataType, told>>
     \/ /\ Item.k = "codes"
        /\ IF Item.ok THEN mode' = "CODELENS" /\ at' = at + 1 /\ UNCHANGED ec
           ELSE mode' = "BAD" /\ ec' = "incomplete_length_set" /\ UNCHANGED at
        /\ UNCHANGED <<input, bits, output, copies, pc, final, window, dataType, told>>

CodeLens ==
  /\ In("CODELENS")
  /\ \/ Item.k = "codelen" /\ Wants(Item.need)
     \/ /\ Item.k = "codelen" /\ Filled(Item.need) /\ Reads(Item.need, Item.bits + Item.extra)
        /\ IF Item.ok THEN at' = at + 1 /\ UNCHANGED <<mode, ec, pc>>
           ELSE Fails("invalid_bit_length_repeat") /\ UNCHANGED at
        /\ UNCHANGED <<input, output, copies, final, window, dataType, told>>
     \/ /\ Item.k = "tables"
        /\ IF Item.ok
             THEN /\ mode' = "LEN_" /\ at' = at + 1
                  /\ IF flush = "trees" THEN Returns ELSE UNCHANGED pc
                  /\ UNCHANGED ec
             ELSE Fails("missing_eob") /\ UNCHANGED at
        /\ UNCHANGED <<input, bits, output, copies, final, window, dataType, told>>

------------------------------------------------------------------------------
(* The codes of a block.                                                   *)

Roomy == last - next >= FastIn /\ room >= FastOut

(* "if(r.in.avail() >= 6 && r.out.avail() >= 258)"                         *)
LenFast ==
  /\ In("LEN") /\ Roomy
  /\ pc' = "fast"
  /\ UNCHANGED <<input, at, bits, output, copies, ec, mode, final, window, dataType, told>>

Len1 ==
  /\ In("LEN") /\ ~Roomy
  /\ \/ Wants(Item.need)
     \/ /\ Filled(Item.need) /\ Reads(Item.need, Item.bits)
        /\ CASE Item.k = "lit" -> length' = Item.c /\ mode' = "LIT" /\ at' = at + 1 /\ UNCHANGED <<ec, pc>>
             [] Item.k = "eob" -> mode' = "TYPE" /\ at' = at + 1 /\ UNCHANGED <<length, ec, pc>>
             [] Item.k = "bad" -> Fails("invalid_literal_length") /\ UNCHANGED <<length, at>>
             [] Item.k = "len" -> mode' = "LENEXT" /\ UNCHANGED <<length, at, ec, pc>>
        /\ UNCHANGED <<input, output, offset, final, window, dataType, told>>

LenExt ==
  /\ In("LENEXT")
  /\ \/ Wants(Item.extra)
     \/ /\ Filled(Item.extra) /\ Reads(Item.extra, Item.extra)
        /\ length' = Item.n /\ mode' = "DIST" /\ at' = at + 1
        /\ UNCHANGED <<input, output, offset, ec, pc, final, window, dataType, told>>

Dist ==
  /\ In("DIST")
  /\ \/ Wants(Item.need)
     \/ /\ Filled(Item.need) /\ Reads(Item.need, Item.bits)
        /\ IF Item.ok THEN mode' = "DISTEXT" /\ UNCHANGED <<ec, pc>> ELSE Fails("invalid_distance_code")
        /\ UNCHANGED <<input, at, output, copies, final, window, dataType, told>>

DistExt ==
  /\ In("DISTEXT")
  /\ \/ Wants(Item.extra)
     \/ /\ Filled(Item.extra) /\ Reads(Item.extra, Item.extra)
        /\ offset' = Item.d /\ mode' = "MATCH" /\ at' = at + 1
        /\ UNCHANGED <<input, output, length, ec, pc, final, window, dataType, told>>

FromWindow(len, o) == Least(len, o)

Match ==
  /\ In("MATCH")
  /\ IF room = 0 THEN Returns /\ UNCHANGED <<output, length, ec, mode>>
     ELSE IF offset > used + window.size
       THEN Fails("invalid_distance") /\ UNCHANGED <<output, length>>
       ELSE LET o == offset - used
                m == Least(IF o > 0 THEN FromWindow(length, o) ELSE length, room)
            IN  /\ Writes(IF o > 0 THEN text \o WindowRead(o, m) ELSE CopyBack(text, offset, m))
                /\ length' = length - m
                /\ mode' = IF length = m THEN "LEN" ELSE "MATCH"
                /\ UNCHANGED <<ec, pc>>
  /\ UNCHANGED <<input, at, bits, offset, final, window, dataType, told>>

Lit ==
  /\ In("LIT")
  /\ IF room = 0 THEN Returns /\ UNCHANGED <<output, mode>>
     ELSE Writes(Append(text, length)) /\ mode' = "LEN" /\ UNCHANGED pc
  /\ UNCHANGED <<input, at, bits, copies, ec, final, window, dataType, told>>

------------------------------------------------------------------------------
(* inflate_fast(): nothing is checked, 6 bytes are enough for a literal or *)
(* a match and there is room for the longest one.                          *)

Drop(b, m)  == [b EXCEPT !.n = @ - m]
Fill8(b, m) == IF b.n < m THEN [n |-> b.n + 8, next |-> b.next + 1] ELSE b
Fill16(b)   == IF b.n < FastBits THEN [n |-> b.n + 16, next |-> b.next + 2] ELSE b

(* bi_.rewind(): back to the last byte that is in use.                     *)
Rewind(b) == next' = b.next - (b.n \div 8) /\ n' = b.n % 8

FastFails(b, e) == Rewind(b) /\ Fails(e) /\ UNCHANGED <<at, output>>

FastGoesOn(b, left, items) ==
  /\ at' = at + items
  /\ IF last - b.next >= FastIn /\ left >= FastOut
       THEN next' = b.next /\ n' = b.n /\ UNCHANGED pc
       ELSE Rewind(b) /\ pc' = "run"
  /\ UNCHANGED <<ec, mode>>

FastMatch(b) ==
  LET e    == Drop(Fill8(b, Item.extra), Item.extra)
      dist == stream.items[at + 1]
      c    == Drop(Fill16(e), dist.bits)
      x    == Drop(Fill8(Fill8(c, dist.extra), dist.extra), dist.extra)
      o    == dist.d - used
      m    == IF o > 0 THEN FromWindow(Item.n, o) ELSE 0
      t    == IF o > 0 THEN text \o WindowRead(o, m) ELSE text
  IN  IF ~dist.ok THEN FastFails(c, "invalid_distance_code")
      ELSE IF o > window.size THEN FastFails(x, "invalid_distance")
      ELSE Writes(CopyBack(t, dist.d, Item.n - m)) /\ FastGoesOn(x, room - Item.n, 2)

Fast ==
  /\ pc = "fast"
  /\ LET b == Drop(Fill16([n |-> n, next |-> next]), Item.bits)
     IN  CASE Item.k = "lit" -> Writes(Append(text, Item.c)) /\ FastGoesOn(b, room - 1, 1)
           [] Item.k = "len" -> FastMatch(b)
           [] Item.k = "eob" -> Rewind(b) /\ mode' = "TYPE" /\ pc' = "run" /\ at' = at + 1 /\ UNCHANGED <<output, ec>>
           [] Item.k = "bad" -> FastFails(b, "invalid_literal_length")
  /\ UNCHANGED <<input, copies, final, window, dataType, told>>

------------------------------------------------------------------------------
Check ==
  /\ In("CHECK")
  /\ mode' = "DONE"
  /\ UNCHANGED <<input, at, bits, output, copies, ec, pc, final, window, dataType, told>>

End ==
  /\ pc = "run" /\ mode \in {"DONE", "BAD"}
  /\ ec' = IF mode = "DONE" THEN "end_of_stream" ELSE ec
  /\ Returns
  /\ UNCHANGED <<input, at, bits, output, copies, mode, final, window, dataType, told>>

KeepsWindow == used > 0 /\ mode # "BAD" /\ (mode # "DONE" \/ flush # "finish")

(* The lambda done of doWrite().                                           *)
Done ==
  /\ pc = "done"
  /\ window' = (IF KeepsWindow THEN WindowWrite(SubSeq(text, Len(text) - used + 1, Len(text))) ELSE window)
  /\ told' = told + used
  /\ dataType' = [unused |-> n, last |-> final,
                  at |-> CASE mode = "TYPE" -> "block" [] mode \in {"LEN_", "COPY_"} -> "data" [] OTHER -> ""]
  /\ ec' = (IF ((next = first /\ used = 0) \/ flush = "finish") /\ ec = "ok" THEN "need_buffers" ELSE ec)
  /\ pc' = "idle"
  /\ UNCHANGED <<input, at, bits, output, copies, mode, final>>

(* doReset()                                                               *)
New ==
  /\ mode' = "HEAD" /\ final' = FALSE /\ n' = 0
  /\ window' = [window EXCEPT !.i = 0, !.size = 0]

(* reset(), and a new stream in a new buffer.                              *)
Reset(s) ==
  /\ pc = "idle" /\ restarts < MaxRestarts
  /\ New
  /\ stream' = s /\ at' = 1 /\ first' = 0 /\ next' = 0 /\ last' = 0 /\ buffer' = 0
  /\ text' = <<>> /\ told' = 0 /\ ec' = "ok" /\ restarts' = restarts + 1
  /\ UNCHANGED <<room, used, flush, copies, pc, dataType>>

(* clear(): doClear() has nothing in it.                                   *)
Clear ==
  /\ pc = "idle" /\ restarts < MaxRestarts
  /\ restarts' = restarts + 1
  /\ UNCHANGED <<stream, buffer, first, last, flush, at, bits, output, copies, ec, pc, mode, final, window, dataType, told>>

Steps ==
  \/ HeadMode \/ Type \/ TypeLast \/ TypeDo \/ Stored \/ Enter \/ Copy \/ Table \/ LenLens \/ CodeLens
  \/ LenFast \/ Len1 \/ LenExt \/ Dist \/ DistExt \/ Match \/ Lit \/ Fast \/ Check \/ End \/ Done

Calls ==
  \/ \E k \in Pieces, r \in Rooms, f \in Flushes : Write(k, r, f)
  \/ Clear \/ (restarts < MaxRestarts /\ \E s \in Inputs : Reset(s))

Next == Steps \/ Calls

Spec == Init /\ [][Next]_vars

------------------------------------------------------------------------------
TypeOK ==
  /\ stream.items \in {s.items : s \in Streams} /\ at \in 1 .. Len(stream.items) + 1
  /\ first \in Nat /\ next \in Nat /\ last \in 0 .. stream.total /\ buffer \in 0 .. last
  /\ room \in Nat /\ used \in Nat /\ told \in Nat /\ n \in 0 .. 32
  /\ pc \in {"idle", "run", "fast", "done"} /\ length \in Nat /\ offset \in Nat
  /\ window.i \in 0 .. Capacity - 1 /\ window.size \in 0 .. Capacity

(* However the input and the room are cut, the output is the text, it is   *)
(* all there at the end of the stream, and only a stream that is not valid *)
(* is refused (inflate_stream.ipp:70-530).                                 *)
OutputIsText ==
  /\ IsPrefix(text, stream.text)
  /\ ec = "end_of_stream" => text = stream.text /\ stream.valid
  /\ mode = "BAD" => ~stream.valid

(* No bit is lost or read twice: what was taken from the input is what was *)
(* dropped and what is in the reservoir, after a rewind and between calls  *)
(* too (bitstream.hpp:66-196).                                             *)
InStep ==
  mode \notin {"BAD", "CHECK", "DONE", "STORED"} =>
    8 * next - n = stream.ends[at - 1] + (IF mode \in {"LENEXT", "DISTEXT"} THEN Item.bits ELSE 0)

(* inflate_fast() does not look where the input ends: with codes of any    *)
(* length six bytes are enough (inflate_stream.ipp:950-954).               *)
ReadsWithin == next <= last

(* write() stops when there is no input or no room left, or the end is     *)
(* reached, unless it was asked to stop at a block (inflate_stream.hpp:107).*)
StopsForReason ==
  pc = "idle" /\ ec \in {"ok", "need_buffers"} /\ flush \notin {"block", "trees"} => (next = last \/ room = 0)

(* The window has the last of what was reported, whole, unless the stream  *)
(* ended in a call with finish (window.hpp:92-141, inflate_stream.ipp:100). *)
WindowHasLast ==
  pc = "idle" /\ mode # "BAD" /\ ec # "end_of_stream" =>
    /\ window.size = Least(Capacity, Len(text))
    /\ WindowRead(window.size, window.size) = SubSeq(text, Len(text) - window.size + 1, Len(text))

=============================================================================
