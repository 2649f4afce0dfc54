------------------------------- MODULE Layers -------------------------------
EXTENDS Integers, SequencesExt

(***************************************************************************)
(* flat_stream: what a caller writes as several buffers goes to the next   *)
(* layer as one.  The caller repeats write_some with what is left of its   *)
(* buffers.                                                                *)
(***************************************************************************)

CONSTANTS
  Shapes,         (* the sizes of the buffers a caller may come with        *)
  flat_max_size,  (* as much is flattened                                   *)
  max_stack       (* and as much on the stack                               *)

FlatStreamAssumption ==
  /\ Shapes \subseteq Seq(Nat)
  /\ {flat_max_size, max_stack} \subseteq Nat \ {0} /\ max_stack <= flat_max_size

VARIABLES
  rest,            (* what is left of the caller's buffers: each its bytes  *)
  buffer,          (* buffer_                                               *)
  stack,           (* the static_buffer of the last synchronous write       *)
  handed,          (* the buffers of the last write to the next layer       *)
  pending,         (* an asynchronous write is under way: from where        *)
  wire, flat_all,  (* bytes the next layer took, and all that there are     *)
  failed

flat_vars == <<rest, buffer, stack, handed, pending, wire, flat_all, failed>>

Total(s) == FoldLeft(LAMBDA t, n : t + n, 0, s)
Bytes(b) == FlattenSeq(b)
Numbered(s) ==
  [k \in 1..Len(s) |-> [j \in 1..s[k] |-> Total(SubSeq(s, 1, k - 1)) + j]]

FlatInit ==
  /\ \E s \in Shapes : rest = Numbered(s)
  /\ buffer = <<>> /\ stack = <<>> /\ handed = <<>> /\ pending = "none"
  /\ wire = <<>> /\ flat_all = Bytes(rest) /\ failed = FALSE

(* The size of the first k buffers.                                        *)
Size(b, k) == Len(Bytes(SubSeq(b, 1, k)))

(* What buffers_prefix leaves of them, and buffers_suffix.                 *)
Prefix(b, n) ==
  LET k == Cardinality({j \in 1..Len(b) : j = 1 \/ Size(b, j - 1) < n})
  IN [j \in 1..k |-> IF Size(b, j) <= n THEN b[j] ELSE SubSeq(b[j], 1, n - Size(b, j - 1))]
Suffix(b, n) ==
  LET gone == {k \in 1..Len(b) : Size(b, k - 1) < n /\ Size(b, k) <= n}
      k == Cardinality(gone)
      left == SubSeq(b, k + 1, Len(b))
  IN IF left = <<>> THEN left
     ELSE [left EXCEPT ![1] = SubSeq(@, n - Size(b, k) + 1, Len(@))]

(* The first k buffers may be flattened.                                   *)
Fits(b, k) == Size(b, 1) < flat_max_size /\ Size(b, k) <= flat_max_size

(* How many buffers one write takes, and are they flattened.               *)
Taken(b) == 1 + Cardinality({k \in 2..Len(b) : Fits(b, k)})
Flattened(b) == Taken(b) > 1

Idle == pending = "none" /\ ~failed /\ Bytes(rest) # <<>>

(* What the next layer takes of n bytes without an error.                  *)
FlatSome(n) == IF n = 0 THEN {0} ELSE 1..n

(* The result of a write reaches the caller.                               *)
Result(bytes) ==
  \/ /\ \E n \in FlatSome(Len(bytes)) :
          /\ wire' = wire \o SubSeq(bytes, 1, n)
          /\ rest' = Suffix(rest, n)
     /\ UNCHANGED failed
  \/ failed' = TRUE /\ UNCHANGED <<wire, rest>>

stack_write_some(bytes) ==
  /\ stack' = bytes /\ handed' = <<bytes>> /\ UNCHANGED buffer

write_some ==
  /\ Idle
  /\ LET size == Size(rest, Taken(rest))
         bytes == SubSeq(Bytes(rest), 1, size)
     IN /\ IF Flattened(rest) THEN
             IF size <= max_stack THEN stack_write_some(bytes)
             ELSE buffer' = bytes /\ handed' = <<bytes>> /\ stack' = <<>>
           ELSE buffer' = <<>> /\ handed' = Prefix(rest, size) /\ stack' = <<>>
        /\ Result(Bytes(handed'))
  /\ UNCHANGED <<pending, flat_all>>

(* Starts; the memory has to last until the next layer is done.            *)
async_write_some ==
  /\ Idle
  /\ LET size == Size(rest, Taken(rest))
         bytes == SubSeq(Bytes(rest), 1, size)
     IN IF Flattened(rest)
        THEN /\ buffer' = bytes /\ handed' = <<bytes>> /\ pending' = "buffer"
        ELSE /\ buffer' = <<>> /\ handed' = Prefix(rest, size)
             /\ pending' = "caller"
  /\ UNCHANGED <<stack, rest, wire, flat_all, failed>>

write_op ==
  /\ pending # "none" /\ pending' = "none"
  /\ Result(IF pending = "buffer" THEN buffer ELSE Bytes(handed))
  /\ UNCHANGED <<buffer, stack, handed, flat_all>>

FlatNext == write_some \/ async_write_some \/ write_op
FlatSpec == FlatInit /\ [][FlatNext]_flat_vars
-----------------------------------------------------------------------------
(* Whatever mixture of writes, and however little the next layer takes, it *)
(* gets the caller's bytes in their order (impl/flat_stream.hpp:45, 222).  *)
FlatInOrder == wire \o Bytes(rest) = flat_all

(* The next layer never gets more than one buffer, the reason the class is *)
(* there (impl/flat_stream.hpp:56, 68, 230).                               *)
OneBuffer == Len(handed) <= 1

(* No more than max_size bytes are copied, and what goes onto the stack    *)
(* fits there (detail/flat_stream.hpp:57, impl/flat_stream.hpp:218).       *)
Bounded == Len(buffer) <= flat_max_size /\ Len(stack) <= max_stack

---------------------------------------------------------------------------
(***************************************************************************)
(* icy_stream: reads pass through to the next layer, but when the first    *)
(* three bytes of the connection are "ICY" the reader gets "HTTP/1.1" for  *)
(* them.  The reader mixes synchronous and asynchronous reads of any size, *)
(* one at a time; the peer sends when it likes; a read may be cancelled.   *)
(***************************************************************************)

CONSTANTS
  Streams,        (* what a peer may send in all                            *)
  IcySizes,       (* of the reader's buffers                                *)
  IcyMaxFailures  (* bound: reads of the next layer that are cancelled      *)

IcyStreamAssumption ==
  Streams \subseteq Seq(STRING) /\ IcySizes \subseteq Nat /\ IcyMaxFailures \in Nat

VARIABLES
  icy_all, icy_sent, icy_closed,  (* what the peer sends, how much it has, and its end *)
  buf_, detect_,                  (* the n_ bytes of buf_                   *)
  icy_pc, icy_kind, icy_size,     (* the read under way                     *)
  icy_ec,                         (* the variable for its error             *)
  icy_read,                       (* bytes the next layer has delivered     *)
  icy_got, icy_told,              (* the reader's bytes and the result of its last read *)
  icy_failures

stream == <<buf_, detect_>>
icy_peer == <<icy_all, icy_sent, icy_closed>>
icy_vars == <<icy_peer, stream, icy_pc, icy_kind, icy_size, icy_ec, icy_read, icy_got, icy_told, icy_failures>>

Least(m, n) == IF m < n THEN m ELSE n
version == <<"H", "T", "T", "P", "/", "1", ".", "1">>

is_icy(b) ==
  LET n == Least(Len(b), 3)
  IN IF SubSeq(b, 1, n) # SubSeq(<<"I", "C", "Y">>, 1, n) THEN "false"
     ELSE IF n < 3 THEN "indeterminate" ELSE "true"

IcyInit ==
  /\ icy_all \in Streams /\ icy_sent = 0 /\ icy_closed = FALSE
  /\ buf_ = <<>> /\ detect_ = TRUE
  /\ icy_pc = "idle" /\ icy_kind = "sync" /\ icy_size = 0 /\ icy_ec = "ok"
  /\ icy_read = 0 /\ icy_got = <<>> /\ icy_told = "none" /\ icy_failures = 0

IcyPeerSends ==
  /\ icy_sent < Len(icy_all) /\ icy_sent' = icy_sent + 1
  /\ UNCHANGED <<icy_all, icy_closed, stream, icy_pc, icy_kind, icy_size, icy_ec, icy_read, icy_got, icy_told, icy_failures>>
IcyPeerCloses ==
  /\ ~icy_closed /\ icy_closed' = TRUE /\ icy_all' = SubSeq(icy_all, 1, icy_sent)
  /\ UNCHANGED <<icy_sent, stream, icy_pc, icy_kind, icy_size, icy_ec, icy_read, icy_got, icy_told, icy_failures>>

(* The read ends.                                                          *)
Return(bytes, error) ==
  /\ icy_pc' = "idle" /\ icy_got' = icy_got \o bytes /\ icy_told' = error

(* As much of buf_ as the reader has room for.                             *)
Give(b, n, error) ==
  /\ buf_' = SubSeq(b, Least(n, Len(b)) + 1, Len(b))
  /\ Return(SubSeq(b, 1, Least(n, Len(b))), error)

(* A read starts.  A synchronous one reports its error in a variable of    *)
(* the reader's, which may hold one from before.                           *)
icy_read_some ==
  /\ icy_pc = "idle" /\ \E s \in IcySizes : icy_size' = s
  /\ \/ icy_kind' = "sync" /\ icy_ec' \in {"ok", "old"}
     \/ icy_kind' = "async" /\ icy_ec' = "ok"
  /\ IF detect_ \/ buf_ = <<>>
     THEN /\ icy_pc' = IF detect_ THEN "detect" ELSE "through"
          /\ UNCHANGED <<buf_, icy_got, icy_told>>
     ELSE IF icy_kind' = "sync" THEN Give(buf_, icy_size', icy_ec')
     ELSE icy_pc' = "posted" /\ UNCHANGED <<buf_, icy_got, icy_told>>
  /\ UNCHANGED <<icy_peer, detect_, icy_read, icy_failures>>

(* The asynchronous read that needed no read of the next layer.            *)
IcyPosted ==
  /\ icy_pc = "posted" /\ Give(buf_, icy_size, "ok")
  /\ UNCHANGED <<icy_peer, detect_, icy_kind, icy_size, icy_ec, icy_read, icy_failures>>

Read(b, k) == b \o SubSeq(icy_all, icy_read + 1, icy_read + k)

(* A read of the first three bytes delivers some of them.                  *)
Detect ==
  /\ icy_pc = "detect" /\ icy_sent > icy_read
  /\ \E k \in 1..Least(3 - Len(buf_), icy_sent - icy_read) :
       LET b == Read(buf_, k)
           verdict == is_icy(b)
       IN /\ icy_read' = icy_read + k /\ icy_ec' = "ok"
          /\ detect_' = (verdict = "indeterminate")
          /\ IF verdict = "indeterminate"
             THEN buf_' = b /\ UNCHANGED <<icy_pc, icy_got, icy_told>>
             ELSE Give(IF verdict = "true" THEN version ELSE b, icy_size, "ok")
  /\ UNCHANGED <<icy_peer, icy_kind, icy_size, icy_failures>>

(* Into the reader's own buffers.                                          *)
Through ==
  /\ icy_pc = "through" /\ (icy_sent > icy_read \/ icy_size = 0)
  /\ \E k \in IF icy_size = 0 THEN {0} ELSE 1..Least(icy_size, icy_sent - icy_read) :
       /\ icy_read' = icy_read + k
       /\ Return(SubSeq(icy_all, icy_read + 1, icy_read + k), "ok")
  /\ icy_ec' = "ok"
  /\ UNCHANGED <<icy_peer, stream, icy_kind, icy_size, icy_failures>>

(* The next layer's read ends with an error: the end of the peer's bytes,  *)
(* or a cancellation.                                                      *)
IcyFails ==
  /\ icy_pc \in {"detect", "through"}
  /\ \/ icy_closed /\ icy_sent = icy_read /\ icy_ec' = "eof" /\ UNCHANGED icy_failures
     \/ icy_failures < IcyMaxFailures /\ icy_failures' = icy_failures + 1 /\ icy_ec' = "aborted"
  /\ Return(<<>>, icy_ec')
  /\ UNCHANGED <<icy_peer, stream, icy_kind, icy_size, icy_read>>

IcyReading == Detect \/ Through \/ IcyPosted
IcyNext == IcyPeerSends \/ IcyPeerCloses \/ icy_read_some \/ IcyReading \/ IcyFails
IcySpec == IcyInit /\ [][IcyNext]_icy_vars

-----------------------------------------------------------------------------
ICY == <<"I", "C", "Y">>
Undecided == \E n \in 0..2 : icy_all = SubSeq(ICY, 1, n)
Expected == IF Len(icy_all) >= 3 /\ SubSeq(icy_all, 1, 3) = ICY THEN version \o SubSeq(icy_all, 4, Len(icy_all)) ELSE icy_all

(* What the reader has got, what is kept for it and what is still to come  *)
(* are the peer's bytes with the first three replaced or not, also when    *)
(* reads are cancelled half way (impl/icy_stream.hpp:92-144, 236-273).     *)
IcyInOrder ==
  LET coming == SubSeq(icy_all, icy_read + 1, Len(icy_all))
  IN IF detect_ THEN icy_got = <<>> /\ buf_ \o coming = icy_all
     ELSE icy_got \o buf_ \o coming = Expected

---------------------------------------------------------------------------
(***************************************************************************)
(* buffered_read_stream: reads take first what its buffer has, and fill it *)
(* from the next layer when it has nothing and may have something.  The    *)
(* application reads with both kinds of calls, one at a time, sets the     *)
(* capacity whenever it likes, and uses the buffer between its reads the   *)
(* way net::read_until does: more is put there, and a part is taken.       *)
(***************************************************************************)

CONSTANTS
  Length,                          (* how much the peer sends               *)
  BufferedSizes,                   (* of the reader's buffers               *)
  Capacities,                      (* what capacity() is called with        *)
  buffered_max_size,               (* of the DynamicBuffer                  *)
  Floor,                           (* the 512 of read_size                  *)
  BufferedMaxFailures, MaxChanges  (* bounds: failed reads, calls of capacity() *)

BufferedReadAssumption ==
  /\ {Length, BufferedMaxFailures, MaxChanges} \subseteq Nat
  /\ BufferedSizes \subseteq Nat /\ Capacities \subseteq Nat
  /\ {buffered_max_size, Floor} \subseteq Nat \ {0}

VARIABLES
  buffered_sent,  (* bytes of the peer: 1, 2, ..., sent                     *)
  buffered_read,  (* the next layer has delivered so many of them           *)
  buffer_, capacity_,
  buffered_pc, buffered_kind, buffered_size,  (* the read under way         *)
  room,                                       (* what it has prepared in buffer_ *)
  buffered_ec,                                (* the variable for its error *)
  buffered_got, buffered_told,                (* the application's bytes, and the result of its last read *)
  buffered_failures, changes

buffered_call == <<buffered_pc, buffered_kind, buffered_size, room, buffered_ec>>
count == <<buffered_failures, changes>>
buffered_vars == <<buffered_sent, buffered_read, buffer_, capacity_, buffered_call, buffered_got, buffered_told, count>>

BufferedSome(n) == IF n = 0 THEN {0} ELSE 1..n
Arrived(k) == [j \in 1..k |-> buffered_read + j]

BufferedInit ==
  /\ buffered_sent = 0 /\ buffered_read = 0 /\ buffer_ = <<>> /\ capacity_ \in Capacities
  /\ buffered_pc = "idle" /\ buffered_kind = "sync" /\ buffered_size = 0 /\ room = 0 /\ buffered_ec = "ok"
  /\ buffered_got = <<>> /\ buffered_told = "none" /\ buffered_failures = 0 /\ changes = 0

BufferedPeerSends ==
  /\ buffered_sent < Length /\ buffered_sent' = buffered_sent + 1
  /\ UNCHANGED <<buffered_read, buffer_, capacity_, buffered_call, buffered_got, buffered_told, count>>

capacity ==
  /\ changes < MaxChanges /\ changes' = changes + 1
  /\ \E n \in Capacities : capacity_' = n
  /\ UNCHANGED <<buffered_sent, buffered_read, buffer_, buffered_call, buffered_got, buffered_told, buffered_failures>>

(* read_size(), whose buffer has no more memory of its own than Floor.     *)
buffered_read_size == Least(Floor, Least(capacity_, buffered_max_size - Len(buffer_)))

(* read_until into buffer(), and consume() of what the application found.  *)
ReadUntil ==
  /\ buffered_pc = "idle" /\ buffered_sent > buffered_read /\ Len(buffer_) < buffered_max_size
  /\ \E k \in 1..Least(buffered_sent - buffered_read, buffered_max_size - Len(buffer_)) :
       LET b == buffer_ \o Arrived(k)
       IN \E m \in 0..Len(b) :
            /\ buffered_read' = buffered_read + k
            /\ buffered_got' = buffered_got \o SubSeq(b, 1, m) /\ buffer_' = SubSeq(b, m + 1, Len(b))
  /\ UNCHANGED <<buffered_sent, capacity_, buffered_call, buffered_told, count>>

(* The end of a read: what fits of b goes to the reader, the rest stays.   *)
Copy(b, n, error) ==
  /\ buffered_got' = buffered_got \o SubSeq(b, 1, Least(n, Len(b)))
  /\ buffer_' = SubSeq(b, Least(n, Len(b)) + 1, Len(b))
  /\ buffered_told' = error /\ buffered_pc' = "idle"

(* Wrong: without capacity the buffer is passed by.                        *)
read_some_passes ==
  /\ buffered_pc = "idle" /\ \E s \in BufferedSizes : buffered_size' = s
  /\ \/ buffered_kind' = "sync" /\ buffered_ec' \in {"ok", "old"}
     \/ buffered_kind' = "async" /\ buffered_ec' = "ok"
  /\ IF buffer_ = <<>> \/ capacity_ = 0
     THEN /\ buffered_pc' = IF capacity_ = 0 THEN "unbuffered" ELSE "fill"
          /\ room' = IF capacity_ = 0 THEN 0 ELSE buffered_read_size
          /\ UNCHANGED <<buffer_, buffered_got, buffered_told>>
     ELSE /\ room' = 0
          /\ IF buffered_kind' = "sync" THEN Copy(buffer_, buffered_size', "ok")
             ELSE buffered_pc' = "posted" /\ UNCHANGED <<buffer_, buffered_got, buffered_told>>
  /\ UNCHANGED <<buffered_sent, buffered_read, capacity_, count>>

(* A read starts.  A synchronous one reports its error in a variable of    *)
(* the reader's, which may hold one from before; when there are bytes it   *)
(* clears that.                                                            *)
buffered_read_some ==
  /\ buffered_pc = "idle" /\ \E s \in BufferedSizes : buffered_size' = s
  /\ \/ buffered_kind' = "sync" /\ buffered_ec' \in {"ok", "old"}
     \/ buffered_kind' = "async" /\ buffered_ec' = "ok"
  /\ IF buffer_ = <<>>
     THEN /\ buffered_pc' = IF capacity_ = 0 THEN "unbuffered" ELSE "fill"
          /\ room' = IF capacity_ = 0 THEN 0 ELSE buffered_read_size
          /\ UNCHANGED <<buffer_, buffered_got, buffered_told>>
     ELSE /\ room' = 0
          /\ IF buffered_kind' = "sync" THEN Copy(buffer_, buffered_size', "ok")
             ELSE buffered_pc' = "posted" /\ UNCHANGED <<buffer_, buffered_got, buffered_told>>
  /\ UNCHANGED <<buffered_sent, buffered_read, capacity_, count>>

Unbuffered ==
  /\ buffered_pc = "unbuffered" /\ (buffered_sent > buffered_read \/ buffered_size = 0)
  /\ \E k \in BufferedSome(Least(buffered_size, buffered_sent - buffered_read)) :
       /\ buffered_read' = buffered_read + k /\ buffered_got' = buffered_got \o Arrived(k)
  /\ buffered_told' = "ok" /\ buffered_pc' = "idle"
  /\ UNCHANGED <<buffered_sent, buffer_, capacity_, buffered_kind, buffered_size, room, buffered_ec, count>>

(* What comes is committed and copied from there.                          *)
Fill ==
  /\ buffered_pc = "fill" /\ buffered_sent > buffered_read
  /\ \E k \in BufferedSome(Least(room, buffered_sent - buffered_read)) :
       buffered_read' = buffered_read + k /\ Copy(buffer_ \o Arrived(k), buffered_size, "ok")
  /\ UNCHANGED <<buffered_sent, capacity_, buffered_kind, buffered_size, room, buffered_ec, count>>

BufferedPosted ==
  /\ buffered_pc = "posted" /\ Copy(buffer_, buffered_size, "ok")
  /\ UNCHANGED <<buffered_sent, buffered_read, capacity_, buffered_kind, buffered_size, room, buffered_ec, count>>

BufferedFails ==
  /\ buffered_pc \in {"fill", "unbuffered"} /\ buffered_failures < BufferedMaxFailures
  /\ buffered_failures' = buffered_failures + 1 /\ buffered_told' = "failed" /\ buffered_pc' = "idle"
  /\ UNCHANGED <<buffered_sent, buffered_read, buffer_, capacity_, buffered_kind, buffered_size, room, buffered_ec, buffered_got, changes>>

BufferedReading == Unbuffered \/ Fill \/ BufferedPosted
BufferedNext == BufferedPeerSends \/ capacity \/ ReadUntil \/ buffered_read_some \/ BufferedReading \/ BufferedFails
BufferedSpec == BufferedInit /\ [][BufferedNext]_buffered_vars

-----------------------------------------------------------------------------
(* Bytes read, put there from outside, and left over come to the           *)
(* application once and in order, whatever happens to the capacity and     *)
(* however reads fail (impl/buffered_read_stream.hpp:92-101, 195-211).     *)
BufferedInOrder == buffered_got \o buffer_ = [j \in 1..buffered_read |-> j]

---------------------------------------------------------------------------
(***************************************************************************)
(* detect_ssl and async_detect_ssl, which read until the bytes in a buffer *)
(* decide whether a client starts TLS, and detail::read and async_read,    *)
(* which read until a condition asks for no more.  The peer sends and      *)
(* closes when it likes; of its bytes only what the four tests of a        *)
(* client_hello would find is kept.                                        *)
(***************************************************************************)

CONSTANTS
  Calls,               (* of "detect" and "read"                            *)
  detect_max_size,     (* of the DynamicBuffer                              *)
  AtLeast,             (* the condition of a read: so many bytes, or an error *)
  MaxRead,             (* 1536, and the 512 of read_size                    *)
  MaxSent, MaxPreload  (* bounds: bytes of the peer, bytes in the buffer    *)

DetectSslAssumption ==
  /\ Calls \subseteq {"detect", "read"}
  /\ {AtLeast, MaxSent, MaxPreload} \subseteq Nat
  /\ detect_max_size \in Nat \ {0} /\ MaxRead \in Nat \ {0}

VARIABLES
  hello,                       (* what the bytes of the client say, those to come too *)
  detect_sent, detect_closed,  (* how many it has sent, and the end         *)
  detect_size, before,         (* bytes in the buffer, and how many were there before *)
  detect_call, detect_kind,    (* the operation                             *)
  detect_pc,                   (* "idle", "call": in the initiating function, "reading", *)
                               (* "posted" or "done"                        *)
  asked,                       (* the room of its read                      *)
  total,                       (* total_                                    *)
  ec, result,                  (* what it is told in the end                *)
  inside                       (* it was told before the initiating function returned *)

detect_peer == <<hello, detect_sent, detect_closed>>
detect_vars == <<detect_peer, detect_size, before, detect_call, detect_kind, detect_pc, asked, total, ec, result, inside>>

(* What is sent and not yet in the buffer.                                 *)
available == detect_sent - detect_size

(* Of a buffer of n bytes.                                                 *)
is_tls_client_hello(n) ==
  IF n < 1 THEN "indeterminate" ELSE IF ~hello.handshake THEN "false"
  ELSE IF n < 5 THEN "indeterminate" ELSE IF ~hello.length THEN "false"
  ELSE IF n < 6 THEN "indeterminate" ELSE IF ~hello.type THEN "false"
  ELSE IF n < 9 THEN "indeterminate" ELSE IF ~hello.size THEN "false" ELSE "true"

detect_read_size(n) == Least(MaxRead, Least(n, detect_max_size - detect_size))
cond == IF ec # "ok" THEN 0 ELSE AtLeast - Least(AtLeast, total)

DetectInit ==
  /\ hello \in [handshake : BOOLEAN, length : BOOLEAN, type : BOOLEAN, size : BOOLEAN]
  /\ detect_sent \in 0..Least(MaxPreload, detect_max_size) /\ detect_size = detect_sent /\ before = detect_sent /\ detect_closed = FALSE
  /\ detect_call = "none" /\ detect_kind = "sync" /\ detect_pc = "idle" /\ asked = 0 /\ total = 0
  /\ ec = "ok" /\ result = "none" /\ inside = FALSE

DetectPeerSends ==
  /\ ~detect_closed /\ detect_sent < MaxSent /\ detect_sent' = detect_sent + 1
  /\ UNCHANGED <<hello, detect_closed, detect_size, before, detect_call, detect_kind, detect_pc, asked, total, ec, result, inside>>
DetectPeerCloses ==
  /\ ~detect_closed /\ detect_closed' = TRUE
  /\ UNCHANGED <<hello, detect_sent, detect_size, before, detect_call, detect_kind, detect_pc, asked, total, ec, result, inside>>

Start ==
  /\ detect_pc = "idle" /\ detect_pc' = "call"
  /\ detect_call' \in Calls /\ detect_kind' \in {"sync", "async"}
  /\ UNCHANGED <<detect_peer, detect_size, before, asked, total, ec, result, inside>>

(* An asynchronous operation that did not have to read lets a read of      *)
(* nothing come first.                                                     *)
Finish ==
  IF detect_pc = "call" /\ detect_kind = "async" THEN detect_pc' = "posted" /\ UNCHANGED inside
  ELSE detect_pc' = "done" /\ UNCHANGED inside

(* The top of the loop of a detection, or its bottom after an error.       *)
detect ==
  /\ detect_call = "detect" /\ detect_pc \in {"call", "continue"}
  /\ LET verdict == is_tls_client_hello(detect_size)
     IN IF ec = "ok" /\ verdict = "indeterminate"
        THEN detect_pc' = "reading" /\ asked' = detect_read_size(MaxRead) /\ UNCHANGED <<ec, result, inside>>
        ELSE /\ result' = IF ec = "ok" THEN verdict ELSE "false"
             /\ Finish /\ UNCHANGED <<ec, asked>>
  /\ UNCHANGED <<detect_peer, detect_size, before, detect_call, detect_kind, total>>

(* The top of the loop of a read.                                          *)
detect_read ==
  /\ detect_call = "read" /\ detect_pc \in {"call", "continue"}
  /\ IF detect_read_size(cond) > 0
     THEN detect_pc' = "reading" /\ asked' = detect_read_size(cond) /\ UNCHANGED inside
     ELSE Finish /\ UNCHANGED asked
  /\ UNCHANGED <<detect_peer, detect_size, before, detect_call, detect_kind, total, ec, result>>

(* The read of the stream ends: at once when there is no room.             *)
Delivered ==
  /\ detect_pc = "reading" /\ detect_pc' = "continue"
  /\ \/ asked = 0 /\ UNCHANGED <<detect_size, total>>
     \/ \E k \in 1..Least(asked, available) : detect_size' = detect_size + k /\ total' = total + k
  /\ UNCHANGED <<detect_peer, before, detect_call, detect_kind, asked, ec, result, inside>>
Eof ==
  /\ detect_pc = "reading" /\ asked > 0 /\ detect_closed /\ available = 0
  /\ detect_pc' = "continue" /\ ec' = "eof"
  /\ UNCHANGED <<detect_peer, detect_size, before, detect_call, detect_kind, asked, total, result, inside>>

(* The read of nothing.                                                    *)
DetectPosted ==
  /\ detect_pc = "posted" /\ detect_pc' = "done"
  /\ UNCHANGED <<detect_peer, detect_size, before, detect_call, detect_kind, asked, total, ec, result, inside>>

Operation == detect \/ detect_read \/ Delivered \/ Eof \/ DetectPosted
DetectNext == DetectPeerSends \/ DetectPeerCloses \/ Start \/ Operation
DetectSpec == DetectInit /\ [][DetectNext]_detect_vars

-----------------------------------------------------------------------------
Decided == hello.handshake /\ hello.length /\ hello.type /\ hello.size

(* A verdict is that of the whole message, whatever part of it was there   *)
(* when it was given; without one the answer is no, with the error         *)
(* (detect_ssl.hpp:128-168, 235-263, 571-657).                             *)
VerdictStands ==
  detect_pc = "done" /\ detect_call = "detect" =>
    (result = "true") = (ec = "ok" /\ Decided) /\ (ec = "ok" => detect_size >= 1)

(* Nothing is read for a verdict that the bytes already give, and none     *)
(* waits for more than they need: the operation that waits has no byte     *)
(* that says no (detect_ssl.hpp:132-153).                                  *)
WaitsOnlyUndecided ==
  detect_pc = "reading" /\ detect_call = "detect" =>
    /\ detect_size < 9 /\ (detect_size >= 1 => hello.handshake)
    /\ (detect_size >= 5 => hello.length) /\ (detect_size >= 6 => hello.type)

(* A read says how many bytes it has added; it ends without an error only  *)
(* when the condition is met or the buffer is full                         *)
(* (detail/impl/read.hpp:80-101, 200-210).                                 *)
ReadsEnough ==
  detect_pc = "done" /\ detect_call = "read" =>
    /\ detect_size = before + total /\ (ec = "ok" => total >= AtLeast \/ detect_size = detect_max_size)
    /\ detect_sent >= detect_size

(* "the handler will not be invoked from within this function"             *)
(* (detect_ssl.hpp:312; detail/impl/read.hpp:91).                          *)
NotInside == ~inside

=============================================================================
