------------------------------ MODULE Deflate -------------------------------
EXTENDS Integers, FiniteSetsExt, SequencesExt

(***************************************************************************)
(* zlib::detail::deflate_stream: write() with its flush modes, the five    *)
(* functions that turn the input into literals and matches, the window     *)
(* that slides under them with its hash chains, and the blocks that go to  *)
(* the pending buffer and from there to the caller's.                      *)
(*                                                                         *)
(* The output is a sequence of units instead of bits: the header of a      *)
(* block, a literal or a match, the end of a block, each of which takes    *)
(* one unit of room.  How many bits they have is not known: the last units *)
(* of a block may be held back in the bit buffer, and any block that may   *)
(* be stored is stored or coded.                                           *)
(*                                                                         *)
(* One pass of a loop is a step; pc names the place.                       *)
(***************************************************************************)

CONSTANTS
  Texts,    (* inputs, sequences of Bytes                                   *)
  Bytes,
  Blank,    (* what is in no text                                           *)
  Bucket(_),    (* the hash of three bytes: see HashAssumption             *)
  WSize,         (* w_size_                                                 *)
  MaxMatch,      (* maxMatch, 258 in the code                               *)
  TooFar,        (* kTooFar, 4096 in the code                               *)
  FilteredLen,   (* the 5 of f_slow()                                       *)
  LitBufSize,    (* lit_bufsize_                                            *)
  MaxBlockSize,  (* of a stored block                                       *)
  Held,          (* how many units at most the bit buffer holds             *)
  Levels,        (* 0: stored, 1: fast, 4: slow                             *)
  Strategies,    (* "normal", "filtered", "huffman", "rle"                  *)
  Config,        (* good, lazy, nice, chain: a line of get_config()         *)
  Pieces,        (* how many bytes a call may add to the input              *)
  Rooms,         (* how much room a call may have                           *)
  Flushes,       (* flush modes the caller uses                             *)
  ParamRooms,    (* room of a call of params()                              *)
  MaxCalls       (* bound: flushes, params() and resets                     *)

VARIABLES
  text, fed,                 (* the input, and how much of it was given     *)
  availIn, availOut, flush,  (* the arguments of write()                    *)
  level, strategy, params,   (* level_, strategy_; those params() is to set *)
  window, strstart, lookahead, blockStart, insert,
  h,        (* head_, prev_ and ins_h_                                      *)
  matchLength, prevLength, matchStart, prevMatch, matchAvail,
  syms,           (* l_buf_ and d_buf_                                      *)
  pending, held,  (* pending_buf_ and bi_buf_; units still in the latter    *)
  status, lastFlush, ec, pc, after,
  base,     (* history: where the window is in the text                     *)
  peer,     (* history: what the output so far decodes to                   *)
  calls     (* bound                                                        *)

caller == <<text, fed, flush, calls>>
style  == <<level, strategy, params>>
match  == <<matchLength, prevLength, matchStart, prevMatch, matchAvail>>
win    == <<window, strstart, lookahead, blockStart, insert, base>>
out    == <<pending, held, peer, availOut>>
vars   == <<caller, style, availIn, win, h, match, syms, out, status, lastFlush, ec, pc, after>>

MinMatch     == 3
MinLookahead == MaxMatch + MinMatch + 1
MaxDist      == WSize - MinLookahead
Triples      == [1 .. 3 -> Bytes \cup {Blank}]
Nothing      == "boost::none"

(* "since they are always equal when the other bytes match, given that the *)
(* hash keys are equal and that HASH_BITS >= 8" (longest_match()).         *)
HashAssumption ==
  \A s, t \in Triples : Bucket(s) = Bucket(t) /\ s[1] = t[1] /\ s[2] = t[2] => s[3] = t[3]

DeflateAssumption ==
  /\ MaxMatch > MinMatch /\ WSize > MinLookahead /\ Blank \notin Bytes
  /\ LitBufSize > 1 /\ MaxBlockSize > 0 /\ Config.chain >= 4
  /\ \A t \in Texts : ToSet(t) \subseteq Bytes

Least(a, b) == IF a < b THEN a ELSE b

(* get_config().func and the switch of doWrite().                          *)
func(l, s) ==
  CASE s \in {"huffman", "rle"} -> s
    [] s \notin {"huffman", "rle"} /\ l = 0 -> "stored"
    [] s \notin {"huffman", "rle"} /\ l \in 1 .. 3 -> "fast"
    [] s \notin {"huffman", "rle"} /\ l > 3 -> "slow"
function   == func(level, strategy)

------------------------------------------------------------------------------
(* Units, and what they mean to the peer.  `from` is where the last full   *)
(* flush was, `far` whether a match reached behind it, `last` the last     *)
(* unit.                                                                   *)
Lit(c)      == [k |-> "lit", c |-> c]
Match(n, d) == [k |-> "match", len |-> n, dist |-> d]
Header      == [k |-> "header"]
End(last)   == [k |-> "end", last |-> last]
Restart     == [k |-> "restart"]
Mark        == [k |-> "mark"]

NewPeer == [text |-> <<>>, from |-> 0, far |-> FALSE, closed |-> FALSE, last |-> Mark]

Copied(t, n, d) ==
  IF d \in 1 .. Least(Len(t), WSize)
    THEN t \o [i \in 1 .. n |-> t[Len(t) - d + 1 + ((i - 1) % d)]]
    ELSE Append(t, Blank)

Expand(p, u) ==
  LET q == [p EXCEPT !.last = u] IN
  CASE p.closed -> [q EXCEPT !.text = Append(@, Blank)]
    [] ~p.closed /\ u.k = "lit"     -> [q EXCEPT !.text = Append(@, u.c)]
    [] ~p.closed /\ u.k = "match"   -> [q EXCEPT !.text = Copied(@, u.len, u.dist),
                                                 !.far = @ \/ u.dist > Len(p.text) - p.from]
    [] ~p.closed /\ u.k = "end"     -> [q EXCEPT !.closed = u.last]
    [] ~p.closed /\ u.k = "restart" -> [q EXCEPT !.from = Len(p.text)]
    [] ~p.closed /\ u.k \in {"header", "mark"} -> q

Decode(p, us) == FoldLeft(Expand, p, us)

------------------------------------------------------------------------------
EmptyHead == [b \in {Bucket(t) : t \in Triples} |-> 0]

EmptyHash  == [head |-> EmptyHead, prev |-> [i \in 0 .. WSize - 1 |-> 0], ins |-> <<Blank, Blank, Blank>>]

(* init(), tr_init() and lm_init().                                        *)
Init ==
  /\ text \in Texts /\ level \in Levels /\ strategy \in Strategies
  /\ fed = 0 /\ availIn = 0 /\ availOut = 0 /\ flush = "none" /\ params = <<>>
  /\ window = [i \in 0 .. 2 * WSize - 1 |-> Blank]
  /\ strstart = 0 /\ lookahead = 0 /\ blockStart = 0 /\ insert = 0 /\ base = 0
  /\ h = EmptyHash
  /\ matchLength = MinMatch - 1 /\ prevLength = MinMatch - 1 /\ matchAvail = 0
  /\ matchStart = 0 /\ prevMatch = 0
  /\ syms = <<>> /\ pending = <<>> /\ held = 0 /\ peer = NewPeer
  /\ status = "busy" /\ lastFlush = "none" /\ ec = "ok"
  /\ pc = "idle" /\ after = "loop" /\ calls = 0

Order == [none |-> 0, block |-> 1, partial |-> 2, sync |-> 3, full |-> 4, finish |-> 5]

(* The caller: it gives more input, room and a flush mode.                 *)
Call(n, room, f) ==
  /\ pc = "idle" /\ ec # "end_of_stream"
  /\ n <= Len(text) - fed
  /\ fed' = fed + n /\ availIn' = availIn + n
  /\ availOut' = room /\ flush' = f
  /\ pc' = "enter" /\ ec' = "ok"
  /\ UNCHANGED <<text, level, strategy, win, h, match, syms, pending, held, peer, status, lastFlush, after>>

Write(n, room, f) ==
  /\ calls' = IF f = "none" \/ f = flush THEN calls ELSE calls + 1
  /\ calls' <= MaxCalls
  /\ Call(n, room, f)
  /\ UNCHANGED params

(* doParams(): what was tallied is flushed if another function takes over. *)
Params(room, l, s) ==
  /\ <<l, s>> # <<level, strategy>>
  /\ calls < MaxCalls /\ calls' = calls + 1
  /\ IF fed > availIn /\ (s # strategy \/ func(l, "normal") # func(level, "normal"))
       THEN Call(0, room, "block") /\ params' = <<l, s>>
       ELSE /\ pc = "idle" /\ ec # "end_of_stream"
            /\ level' = l /\ strategy' = s
            /\ UNCHANGED <<text, fed, flush, availIn, win, h, match, syms, out, status, lastFlush, ec, pc, after, params>>

(* reset(): all is discarded, and a new stream begins; the window and the  *)
(* matches stay as they are.                                               *)
Reset ==
  /\ pc = "idle" /\ fed > 0
  /\ calls < MaxCalls /\ calls' = calls + 1
  /\ fed' = 0 /\ availIn' = 0
  /\ strstart' = 0 /\ lookahead' = 0 /\ blockStart' = 0 /\ insert' = 0 /\ base' = 0
  /\ h' = EmptyHash
  /\ matchLength' = MinMatch - 1 /\ prevLength' = MinMatch - 1 /\ matchAvail' = 0
  /\ syms' = <<>> /\ pending' = <<>> /\ held' = 0 /\ peer' = NewPeer
  /\ status' = "busy" /\ lastFlush' = "none" /\ ec' = "ok"
  /\ UNCHANGED <<text, style, flush, availOut, window, matchStart, prevMatch, pc, after>>

(* The end of doWrite() and of doParams(), to which it is no error when    *)
(* there was nothing to do; then the parameters change.                    *)
Return(e) ==
  /\ pc' = "idle"
  /\ ec' = IF params # <<>> /\ e = "need_buffers" /\ Len(pending') = held' THEN "ok" ELSE e
  /\ IF params = <<>> THEN UNCHANGED style
     ELSE level' = params[1] /\ strategy' = params[2] /\ params' = <<>>

Goto(l) == pc' = l /\ UNCHANGED <<ec, style>>

------------------------------------------------------------------------------
(* flush_pending(), after `us` were put behind what is pending: all goes   *)
(* out that there is room for, but for what the bit buffer holds.          *)
flush_pending(us, hold) ==
  LET all == pending \o us
      n   == Least(Len(all) - hold, availOut)
  IN  /\ pending' = SubSeq(all, n + 1, Len(all))
      /\ held' = hold
      /\ peer' = Decode(peer, SubSeq(all, 1, n))
      /\ availOut' = availOut - n

(* "Make sure there is something to do and avoid duplicate consecutive     *)
(* flushes": old_flush, in the order of the modes.                         *)
NothingToDo ==
  availIn = 0 /\ lastFlush # Nothing /\ Order[flush] <= Order[lastFlush] /\ flush # "finish"

(* The head of doWrite(): `Start a new block or continue the current one`. *)
Begin ==
  IF status = "finish" /\ availIn # 0 THEN Return("need_buffers")
  ELSE IF availIn # 0 \/ lookahead # 0 \/ (flush # "none" /\ status # "finish") THEN Goto("loop")
  ELSE Return(IF flush = "finish" THEN "end_of_stream" ELSE "ok")

Refused == IF status = "finish" /\ flush # "finish" THEN "stream_error"
           ELSE IF availOut = 0 THEN "need_buffers" ELSE "ok"

EnterRefused ==
  /\ pc = "enter" /\ Refused # "ok"
  /\ UNCHANGED <<out, lastFlush>>
  /\ Return(Refused)
  /\ UNCHANGED <<caller, availIn, win, h, match, syms, status, after>>

EnterPending ==
  /\ pc = "enter" /\ Refused = "ok" /\ Len(pending) > held
  /\ flush_pending(<<>>, held)
  /\ lastFlush' = IF availOut' = 0 THEN Nothing ELSE flush
  /\ IF availOut' = 0 THEN Return("ok") ELSE Begin
  /\ UNCHANGED <<caller, availIn, win, h, match, syms, status, after>>

Enter ==
  /\ pc = "enter" /\ Refused = "ok" /\ Len(pending) = held
  /\ lastFlush' = flush
  /\ UNCHANGED out
  /\ IF NothingToDo THEN Return("need_buffers") ELSE Begin
  /\ UNCHANGED <<caller, availIn, win, h, match, syms, status, after>>

------------------------------------------------------------------------------
(* The dictionary.  x is h, w the window.                                  *)
update_hash(x, c) == [x EXCEPT !.ins = <<@[2], @[3], c>>]

insert_string(x, w, i) ==
  LET u == update_hash(x, w[i + MinMatch - 1])
      b == Bucket(u.ins)
  IN  [u EXCEPT !.prev[i % WSize] = u.head[b], !.head[b] = i]

InsertStrings(x, w, i, n) ==
  FoldLeft(LAMBDA y, j : insert_string(y, w, j), x, [k \in 1 .. n |-> i + k - 1])

Rehash(x, w, i) == update_hash(update_hash(x, w[i]), w[i + 1])

(* fill_window(): the upper half is moved to the lower one.                *)
Slide(x) ==
  LET moved(p) == IF p >= WSize THEN p - WSize ELSE 0
  IN  [x EXCEPT !.head = [b \in DOMAIN @ |-> moved(@[b])],
                !.prev = [i \in DOMAIN @ |-> moved(@[i])]]

Slides == strstart >= WSize + MaxDist

(* It reads as much as fits, and the strings that were too short before    *)
(* get into the dictionary.  A second pass of its loop would find no room: *)
(* see FillsAtOnce.                                                        *)
fill_window ==
  LET by  == IF Slides THEN WSize ELSE 0
      s   == strstart - by
      n   == Least(availIn, 2 * WSize - lookahead - s)
      w   == [i \in DOMAIN window |->
                IF i \in s + lookahead .. s + lookahead + n - 1
                  THEN text[fed - availIn + i - s - lookahead + 1]
                  ELSE window[IF i < WSize THEN i + by ELSE i]]
      x   == IF by = 0 THEN h ELSE Slide(h)
      all == lookahead + n + insert
      k   == Least(insert, all - (MinMatch - 1))
  IN  /\ window' = w
      /\ strstart' = s
      /\ blockStart' = blockStart - by
      /\ matchStart' = matchStart - by
      /\ base' = base + by
      /\ lookahead' = lookahead + n
      /\ availIn' = availIn - n
      /\ IF n = 0 \/ all < MinMatch THEN insert' = insert /\ h' = x
         ELSE insert' = insert - k /\ h' = InsertStrings(Rehash(x, w, s - insert), w, s - insert, k)

(* How much each function wants to see.                                    *)
Wants == CASE function \in {"fast", "slow"} -> MinLookahead
           [] function = "rle" -> MaxMatch + 1
           [] function = "huffman" -> 1
           [] function = "stored" -> 2

Fill ==
  /\ pc = "loop" /\ lookahead < Wants
  /\ fill_window
  /\ Goto("filled")
  /\ UNCHANGED <<caller, matchLength, prevLength, prevMatch, matchAvail, syms, out, status, lastFlush, after>>

(* Without a flush the function waits until it sees enough, and at the end *)
(* of the input it leaves its loop.                                        *)
Sees == IF function \in {"stored", "huffman"} THEN lookahead > 0 ELSE lookahead >= Wants

Filled ==
  /\ pc = "filled"
  /\ IF ~Sees /\ flush = "none" THEN Return("ok")
     ELSE Goto(IF lookahead = 0 THEN "end" ELSE "step")
  /\ UNCHANGED <<caller, availIn, win, h, match, syms, out, status, lastFlush, after>>

Ready == pc = "step" \/ (pc = "loop" /\ lookahead >= Wants)

------------------------------------------------------------------------------
(* longest_match() in the chain that begins at `cur`, better than `best`.  *)
(* The first difference is looked for behind the third byte, beyond the    *)
(* input if need be; `ok` is whether the assertions hold on the way.       *)
FirstDifference(i, j) ==
  LET d == {n \in MinMatch .. MaxMatch - 1 : window[i + n] # window[j + n]}
  IN  IF d = {} THEN MaxMatch ELSE Min(d)

longest_match(x, cur, best) ==
  LET nice  == Least(Config.nice, lookahead)
      limit == IF strstart > MaxDist THEN strstart - MaxDist ELSE 0
      tries == IF best >= Config.good THEN Config.chain \div 4 ELSE Config.chain
      Same(c, n) == window[c + n] = window[strstart + n]
      Try(s, k) ==
        LET like == Same(s.cur, s.best) /\ Same(s.cur, s.best - 1) /\ Same(s.cur, 0) /\ Same(s.cur, 1)
            len  == IF like THEN FirstDifference(s.cur, strstart) ELSE 0
            next == x.prev[s.cur % WSize]
            more == next > limit /\ ~(len > s.best /\ len >= nice)
        IN  IF s.cur = 0 THEN s
            ELSE [cur   |-> IF more THEN next ELSE 0,
                  best  |-> IF len > s.best THEN len ELSE s.best,
                  start |-> IF len > s.best THEN s.cur ELSE s.start,
                  ok    |-> s.ok /\ s.cur < strstart /\ (like => Same(s.cur, 2))]
      found == FoldLeft(Try, [cur |-> cur, best |-> best, start |-> matchStart,
                              ok |-> strstart <= 2 * WSize - MinLookahead], [k \in 1 .. tries |-> k])
  IN  [len |-> Least(found.best, lookahead), start |-> found.start, ok |-> found.ok]

(* The string at strstart is inserted; is its chain worth a search?        *)
Inserted  == IF lookahead >= MinMatch THEN insert_string(h, window, strstart) ELSE h
hash_head == IF lookahead >= MinMatch THEN Inserted.prev[strstart % WSize] ELSE 0
Searches  ==
  /\ hash_head # 0 /\ strstart - hash_head <= MaxDist
  /\ function = "slow" => matchLength < Config.lazy

(* tr_tally_lit() and tr_tally_dist(): the buffer is flushed when it is    *)
(* full but for one.                                                       *)
Tally(u, then) ==
  /\ syms' = Append(syms, u)
  /\ IF Len(syms) + 1 = LitBufSize - 1 THEN Goto("flush") /\ after' = then
     ELSE Goto("loop") /\ UNCHANGED after

Advance(n) == strstart' = strstart + n /\ lookahead' = lookahead - n

StepFast ==
  /\ Ready /\ function = "fast"
  /\ LET m == IF Searches THEN longest_match(Inserted, hash_head, prevLength)
              ELSE [len |-> matchLength, start |-> matchStart]
     IN  /\ matchStart' = m.start
         /\ \/ /\ m.len >= MinMatch
               /\ Tally(Match(m.len, strstart - m.start), "loop")
               /\ Advance(m.len)
               /\ matchLength' = 0
               /\ h' = IF m.len <= Config.lazy /\ lookahead - m.len >= MinMatch
                         THEN InsertStrings(Inserted, window, strstart + 1, m.len - 1)
                         ELSE Rehash(Inserted, window, strstart + m.len)
            \/ /\ m.len < MinMatch
               /\ Tally(Lit(window[strstart]), "loop")
               /\ Advance(1)
               /\ matchLength' = m.len
               /\ h' = Inserted
  /\ UNCHANGED <<caller, availIn, window, blockStart, insert, base, prevLength, prevMatch, matchAvail, out, status, lastFlush>>

(* The match of f_slow() at strstart, short ones given up.                 *)
LazyMatch ==
  LET m == longest_match(Inserted, hash_head, matchLength)
      short == m.len <= FilteredLen
               /\ (strategy = "filtered" \/ (m.len = MinMatch /\ strstart - m.start > TooFar))
  IN  IF ~Searches THEN [len |-> MinMatch - 1, start |-> matchStart]
      ELSE IF short THEN [m EXCEPT !.len = MinMatch - 1] ELSE m

(* The match of the byte before is taken unless this one is longer.        *)
StepSlow ==
  /\ Ready /\ function = "slow"
  /\ LET m == LazyMatch IN
     /\ matchStart' = m.start /\ prevMatch' = matchStart
     /\ \/ /\ matchLength >= MinMatch /\ m.len <= matchLength
           /\ Tally(Match(matchLength, strstart - 1 - matchStart), "loop")
           /\ h' = InsertStrings(Inserted, window, strstart + 1, Least(matchLength - 2, lookahead - MinMatch))
           /\ Advance(matchLength - 1)
           /\ prevLength' = 0 /\ matchLength' = MinMatch - 1 /\ matchAvail' = 0
        \/ /\ matchLength < MinMatch \/ m.len > matchLength
           /\ prevLength' = matchLength /\ matchLength' = m.len
           /\ h' = Inserted
           /\ IF matchAvail = 1
                THEN /\ Tally(Lit(window[strstart - 1]), "lit")
                     /\ Advance(IF pc' = "flush" THEN 0 ELSE 1)
                     /\ UNCHANGED matchAvail
                ELSE Advance(1) /\ Goto("loop") /\ matchAvail' = 1 /\ UNCHANGED <<syms, after>>
  /\ UNCHANGED <<caller, availIn, window, blockStart, insert, base, out, status, lastFlush>>

(* f_rle(): how often the byte before strstart repeats.                    *)
Run ==
  IF lookahead < MinMatch \/ strstart = 0 THEN 0
  ELSE IF \E n \in 0 .. MinMatch - 1 : window[strstart + n] # window[strstart - 1] THEN 0
  ELSE Least(FirstDifference(strstart - 1, strstart), lookahead)

StepRle ==
  /\ Ready /\ function = "rle"
  /\ matchLength' = 0
  /\ Tally(IF Run >= MinMatch THEN Match(Run, 1) ELSE Lit(window[strstart]), "loop")
  /\ Advance(IF Run >= MinMatch THEN Run ELSE 1)
  /\ UNCHANGED <<caller, availIn, window, blockStart, insert, base, h, prevLength, matchStart, prevMatch, matchAvail, out, status, lastFlush>>

StepHuff ==
  /\ Ready /\ function = "huffman"
  /\ matchLength' = 0
  /\ Tally(Lit(window[strstart]), "loop")
  /\ Advance(1)
  /\ UNCHANGED <<caller, availIn, window, blockStart, insert, base, h, prevLength, matchStart, prevMatch, matchAvail, out, status, lastFlush>>

(* f_stored(): a block is complete when it is as long as it may be, or     *)
(* when the window may have to slide.                                      *)
StepStored ==
  /\ Ready /\ function = "stored"
  /\ LET most == blockStart + MaxBlockSize
         all  == strstart + lookahead
     IN  /\ strstart' = Least(all, most)
         /\ lookahead' = all - strstart'
         /\ IF all >= most \/ all - blockStart >= MaxDist
              THEN Goto("flush") /\ after' = "loop" ELSE Goto("loop") /\ UNCHANGED after
  /\ UNCHANGED <<caller, availIn, window, blockStart, insert, base, h, match, syms, out, status, lastFlush>>

(* Wrong: the byte that waits is forgotten.                                *)
LeaveLoopForgets ==
  /\ pc = "end"
  /\ insert' = IF function \in {"fast", "slow"} THEN Least(strstart, MinMatch - 1) ELSE 0
  /\ matchAvail' = IF function = "slow" THEN 0 ELSE matchAvail
  /\ LET rest == IF function = "stored" THEN strstart > blockStart ELSE syms # <<>>
     IN  /\ Goto(IF flush = "finish" \/ rest THEN "flush" ELSE "block_done")
         /\ after' = IF flush = "finish" THEN "finish" ELSE IF rest THEN "block" ELSE after
  /\ UNCHANGED <<caller, availIn, window, strstart, lookahead, blockStart, base, h, matchLength, prevLength, matchStart, prevMatch, syms, out, status, lastFlush>>

(* Behind the loop of each function.                                       *)
LeaveLoop ==
  /\ pc = "end"
  /\ insert' = IF function \in {"fast", "slow"} THEN Least(strstart, MinMatch - 1) ELSE 0
  /\ IF function = "slow" /\ matchAvail = 1
       THEN syms' = Append(syms, Lit(window[strstart - 1])) /\ matchAvail' = 0
       ELSE UNCHANGED <<syms, matchAvail>>
  /\ LET rest == IF function = "stored" THEN strstart > blockStart ELSE syms' # <<>>
     IN  /\ Goto(IF flush = "finish" \/ rest THEN "flush" ELSE "block_done")
         /\ after' = IF flush = "finish" THEN "finish" ELSE IF rest THEN "block" ELSE after
  /\ UNCHANGED <<caller, availIn, window, strstart, lookahead, blockStart, base, h, matchLength, prevLength, matchStart, prevMatch, out, status, lastFlush>>

------------------------------------------------------------------------------
(* flush_block() and tr_flush_block(), and what comes next.  A block whose *)
(* begin left the window cannot be stored any more; at level 0 it must be, *)
(* if it can.                                                              *)
Stored == [i \in 1 .. strstart - blockStart |-> Lit(window[blockStart + i - 1])]

FlushBlock(stored, hold) ==
  /\ pc = "flush"
  /\ IF stored THEN blockStart >= 0 /\ (level = 0 \/ strstart > blockStart)
     ELSE level > 0 \/ blockStart < 0
  /\ stored \/ after = "finish" => hold = 0
  /\ flush_pending(<<Header>> \o (IF stored THEN Stored ELSE syms) \o <<End(after = "finish")>>, hold)
  /\ syms' = <<>>
  /\ blockStart' = strstart
  /\ Advance(IF after = "lit" THEN 1 ELSE 0)
  /\ status' = IF after = "finish" THEN "finish" ELSE status
  /\ lastFlush' = IF availOut' = 0 THEN Nothing ELSE lastFlush
  /\ IF availOut' = 0 THEN Return("ok")
     ELSE IF after = "finish" THEN Return("end_of_stream")
     ELSE Goto(IF after = "block" THEN "block_done" ELSE "loop")
  /\ UNCHANGED <<caller, availIn, window, insert, base, h, match, after>>

clear_hash(x) == [x EXCEPT !.head = EmptyHead]

(* What a full and a sync flush end with, tr_stored_block(nullptr, 0, 0).  *)
Marker == <<Header, IF flush = "full" THEN Restart ELSE Mark>>

(* doWrite() after block_done: the flush modes.                            *)
BlockDone(hold) ==
  /\ pc = "block_done"
  /\ \/ flush = "block"   /\ hold = held /\ flush_pending(<<>>, hold)
     \/ flush = "partial" /\ hold <= 1 /\ flush_pending(<<Header, End(FALSE)>>, hold)
     \/ flush \in {"sync", "full"} /\ hold = 0 /\ flush_pending(Marker, hold)
  /\ IF flush = "full"
       THEN /\ h' = clear_hash(h)
            /\ IF lookahead = 0
                 THEN strstart' = 0 /\ blockStart' = 0 /\ insert' = 0 /\ base' = base + strstart
                 ELSE UNCHANGED <<strstart, blockStart, insert, base>>
       ELSE UNCHANGED <<h, strstart, blockStart, insert, base>>
  /\ lastFlush' = IF availOut' = 0 THEN Nothing ELSE lastFlush
  /\ Return("ok")
  /\ UNCHANGED <<caller, availIn, window, lookahead, match, syms, status, after>>

------------------------------------------------------------------------------
Steps ==
  \/ EnterRefused \/ EnterPending \/ Enter \/ Fill \/ Filled
  \/ StepStored \/ StepFast \/ StepSlow \/ StepRle \/ StepHuff \/ LeaveLoop
  \/ \E hold \in 0 .. Held : BlockDone(hold) \/ \E stored \in BOOLEAN : FlushBlock(stored, hold)

Next ==
  \/ Steps
  \/ \E n \in Pieces, room \in Rooms, f \in Flushes : Write(n, room, f)
  \/ \E room \in ParamRooms, l \in Levels, s \in Strategies : Params(room, l, s)
  \/ Reset

Spec == Init /\ [][Next]_vars

------------------------------------------------------------------------------
TypeOK ==
  /\ fed \in 0 .. Len(text) /\ availIn \in 0 .. fed /\ availOut \in Nat
  /\ DOMAIN window = 0 .. 2 * WSize - 1
  /\ strstart \in 0 .. 2 * WSize /\ lookahead \in 0 .. 2 * WSize - strstart
  /\ blockStart \in -2 * WSize .. strstart /\ insert \in 0 .. MinMatch - 1
  /\ \A b \in DOMAIN h.head : h.head[b] \in 0 .. 2 * WSize - 1
  /\ matchLength \in 0 .. MaxMatch /\ prevLength \in 0 .. MaxMatch /\ matchAvail \in {0, 1}
  /\ Len(syms) < LitBufSize /\ held <= Len(pending)
  /\ status \in {"busy", "finish"} /\ lastFlush \in DOMAIN Order \cup {Nothing}
  /\ ec \in {"ok", "need_buffers", "stream_error", "end_of_stream"}
  /\ pc \in {"idle", "enter", "loop", "filled", "step", "end", "flush", "block_done"}
  /\ after \in {"loop", "lit", "block", "finish"}

Prefix(n) == SubSeq(text, 1, n)
All(us)   == Decode(peer, pending \o us)

(* What has become units: all but a byte that waits for the next one to    *)
(* decide, and for stored blocks all before the current one.               *)
Written == IF function = "stored" THEN base + blockStart ELSE base + strstart - matchAvail

(* What went out, what is pending and what was tallied decodes to the      *)
(* input, whatever the pieces, the room, the flushes and the parameters,   *)
(* and no match reaches farther back than the window of the peer: the      *)
(* slides and the hash chains keep their positions (fill_window(),         *)
(* longest_match()), no byte is lost between lazy matches and full blocks  *)
(* (f_slow()).                                                             *)
RoundTrip == pc = "idle" => All(syms).text = Prefix(Written)

(* "In particular avail_in is zero after the call if enough output space   *)
(* has been provided", "so that the decompressor can get all input data    *)
(* available so far" (deflate_stream.hpp:212): tr_align() and        *)
(* tr_stored_block() push out what the bit buffer held.                    *)
FlushDelivers ==
  pc = "idle" /\ ec \in {"ok", "need_buffers"} /\ flush \in {"partial", "sync", "full"} /\ availOut > 0 =>
    availIn = 0 /\ peer.text = Prefix(fed)

(* The error end_of_stream comes when "all input has been consumed and all *)
(* output has been produced", and the last block is the last thing sent    *)
(* (deflate_stream.hpp:274): f_*() return finish_started or finish_done.   *)
FinishIsWhole ==
  /\ ec = "end_of_stream" => availIn = 0 /\ peer.text = Prefix(fed) /\ peer.closed
  /\ pc = "idle" /\ status = "busy" => ~All(<<>>).closed

(* "Decompression can restart from this point" after a full flush: no      *)
(* match reaches behind it (clear_hash() and the reset of strstart_).      *)
FullForgets == pc = "idle" => ~All(syms).far

(* write() "stops when the input buffer becomes empty or the output buffer *)
(* becomes full" (deflate_stream.hpp:175).                                 *)
EmptyOrFull == pc = "idle" /\ ec = "ok" => availIn = 0 \/ availOut = 0

(* The assertions of longest_match() and of f_stored().                    *)
AssertionsHold ==
  /\ Ready /\ function \in {"fast", "slow"} /\ Searches =>
       longest_match(Inserted, hash_head, IF function = "fast" THEN prevLength ELSE matchLength).ok
  /\ Ready /\ function = "stored" => blockStart >= 0
  /\ function = "stored" /\ pc = "loop" /\ lookahead < Wants => strstart < WSize + MaxDist \/ blockStart >= WSize

(* "So in all cases, more >= 2" (fill_window()): one read gets all of the  *)
(* input or enough of it, so that its loop does not turn forever.          *)
FillsAtOnce == pc = "filled" => availIn = 0 \/ lookahead >= MinLookahead

---------------------------------------------------------------------------
(***************************************************************************)
(* How a WebSocket stream compresses its messages (permessage-deflate):    *)
(* write_some_op fills its buffer with impl_base::deflate() and sends each *)
(* fill as a frame, until the last one ends with a flush marker, which is  *)
(* taken off.  The stream below is the one of Deflate, whose caller this   *)
(* is.                                                                     *)
(*                                                                         *)
(* The marker takes a unit for the three bits and one for the four bytes   *)
(* behind them; with what the bit buffer holds that is what 6 bytes are in *)
(* the code.                                                               *)
(***************************************************************************)

CONSTANTS
  Out,         (* wr_buf_size                                               *)
  Negotiated,  (* values of client_ and server_no_context_takeover          *)
  MaxMessages  (* bound                                                     *)

VARIABLES
  role, noTakeover,  (* the role; one of Negotiated                         *)
  phase,             (* where the operation is, "user" between operations   *)
  fin,               (* the argument of write_some                          *)
  start,             (* history: where the peer's text begins               *)
  messages           (* bound                                               *)

msgVars == <<role, noTakeover, fin, start, messages>>
allVars == <<vars, msgVars, phase>>

Roles      == {"client", "server"}
MarkerRoom == Held + 2
OutAssumption ==
  Out >= MarkerRoom /\ MaxMessages \in Nat /\ Negotiated \subseteq [Roles -> BOOLEAN]

MessageInit ==
  /\ Init
  /\ role \in Roles /\ noTakeover \in Negotiated
  /\ phase = "user" /\ fin = FALSE /\ start = 0 /\ messages = 0

(* zo.write() with the room that is left, or with a new buffer.            *)
Compress(n, room, f) == Call(n, room, f) /\ UNCHANGED <<params, calls>>

(* write_some(fin, buffers) with n bytes; nothing is written of none.      *)
Begins(n, room) ==
  IF availIn + n > 0 THEN Compress(n, room, "none") /\ phase' = "write"
  ELSE /\ availOut' = room /\ phase' = "written"
       /\ UNCHANGED <<caller, style, availIn, win, h, match, syms, pending, held, peer, status, lastFlush, ec, pc, after>>

WriteSome(n, last) ==
  /\ phase = "user" /\ messages < MaxMessages /\ n <= Len(text) - fed
  /\ fin' = last
  /\ Begins(n, Out)
  /\ UNCHANGED <<role, noTakeover, start, messages>>

(* deflate() behind its loop: the buffer is full, or all is in the stream. *)
Compressed ==
  /\ phase = "write" /\ pc = "idle"
  /\ phase' = "written"
  /\ UNCHANGED <<vars, msgVars>>

FlushesBlock == availOut > 0 /\ fin /\ availIn = 0

Flushes1 ==
  /\ phase = "written"
  /\ IF FlushesBlock THEN Compress(0, availOut, "block") /\ phase' = "block"
     ELSE phase' = "more" /\ UNCHANGED vars
  /\ UNCHANGED msgVars

MarkerFits == availOut >= MarkerRoom

Flushes2 ==
  /\ phase = "block" /\ pc = "idle"
  /\ IF MarkerFits THEN Compress(0, availOut, "sync") /\ phase' = "sync"
     ELSE phase' = "more" /\ UNCHANGED vars
  /\ UNCHANGED msgVars

Marked ==
  /\ phase = "sync" /\ pc = "idle"
  /\ phase' = "done"
  /\ UNCHANGED <<vars, msgVars>>

(* A frame that is not the last, or none at all, and once again.           *)
More ==
  /\ phase = "more"
  /\ IF availOut = Out THEN phase' = "user" /\ UNCHANGED vars ELSE Begins(0, Out)
  /\ UNCHANGED msgVars

(* do_context_takeover_write().                                            *)
Forgets == noTakeover[role]

(* The last frame is sent, without the four bytes.  The reader does as     *)
(* do_context_takeover_read(): it begins anew if the writer announced it.  *)
Done ==
  /\ phase = "done"
  /\ phase' = "user" /\ messages' = messages + 1
  /\ IF Forgets /\ fed > 0
       THEN Reset /\ start' = 0
       ELSE /\ peer' = IF noTakeover[role] THEN NewPeer ELSE peer
            /\ start' = IF noTakeover[role] THEN fed ELSE start
            /\ UNCHANGED <<caller, style, availIn, win, h, match, syms, pending, held, availOut, status, lastFlush, ec, pc, after>>
  /\ UNCHANGED <<role, noTakeover, fin>>

Works == Compressed \/ Flushes1 \/ Flushes2 \/ Marked \/ More \/ Done \/ (Steps /\ UNCHANGED <<msgVars, phase>>)

MessageNext == Works \/ \E n \in Pieces, last \in BOOLEAN : WriteSome(n, last)

MessageSpec == MessageInit /\ [][MessageNext]_allVars

------------------------------------------------------------------------------
(* When the last frame of a message goes out, its frames with the four     *)
(* bytes that the reader puts back decode to the message, what was held    *)
(* back before or after the marker included, even if the buffer has just   *)
(* the six bytes the code asserts; and there is a marker to take off       *)
(* (impl_base.hpp:90-151).                                                 *)
MessageWhole ==
  phase = "done" =>
    /\ ec = "ok" /\ pending = <<>> /\ availIn = 0
    /\ peer.text = SubSeq(text, start + 1, fed)
    /\ peer.last = Mark

(* The assertions of deflate() and write_some_op: the stream refuses only  *)
(* when the buffer is full, and there is no empty frame with data left or  *)
(* at the end of a message (impl_base.hpp:106-118, write.hpp:470).         *)
DeflateAsserts ==
  /\ phase = "write" /\ pc = "idle" => IF ec = "ok" THEN availOut = 0 \/ availIn = 0 ELSE ec = "need_buffers" /\ availOut = 0
  /\ phase = "block" /\ pc = "idle" => ec \in {"ok", "need_buffers"}
  /\ phase = "more" /\ availOut = Out => ~fin /\ availIn = 0

=============================================================================
