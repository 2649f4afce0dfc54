--------------------------- MODULE WebSocketProofs ---------------------------
(***************************************************************************)
(* Proofs about websocket::stream, for any peer, any messages and any      *)
(* number of calls: first its soft mutexes, then what a stop of the stream *)
(* means for its operations, from which its assertions follow.  Every      *)
(* handler changes the state in a few steps (take, give up, resume, fail); *)
(* lemmas say what each does, and the handlers follow from them.           *)
(***************************************************************************)
EXTENDS WebSocket, FiniteSetTheorems, TLAPS

(* The labels of each operation.                                           *)
SendLabels == {"off", "wait_wr", "got_wr", "begin", "send", "upcall"}
CloseLabels == SendLabels \cup {"wait_rd", "got_rd", "discard", "more", "teardown"}

(* Where a read holds wr_block, and where the read and the close hold      *)
(* rd_block.                                                               *)
ReadWrites == {"pong_got", "pong_send", "fail_got", "closing", "close_send", "teardown"}
ReadReads  == {"loop", "header", "control", "posted", "payload", "fill", "fail", "fail_wait",
               "fail_got", "closing", "close_send", "got_rd"}
CloseReads == {"got_rd", "discard", "more"}
ReadLabels == ReadWrites \cup ReadReads \cup {"off", "acquire", "wait_rd", "pong_wait", "upcall"}
OpLabels(o) == CASE o = "read" -> ReadLabels [] o = "close" -> CloseLabels [] OTHER -> SendLabels

(* Who has which mutex, and who waits for whom.                            *)
WriteInv(at, wr) ==
  /\ wr \in Ops \cup {"none"}
  /\ \A o \in Ops \ {"read"} : wr = o <=> at[o] \notin {"off", "wait_wr"}
  /\ at.read \in ReadWrites => wr = "read"
  /\ wr = "read" => at.read \in ReadWrites \cup {"upcall"}

ReadInv(at, rd) ==
  /\ rd \in {"none", "read", "close"}
  /\ at.read \in ReadReads => rd = "read"
  /\ rd = "read" => at.read \in ReadReads \cup {"teardown", "upcall"}
  /\ at.close \in CloseReads => rd = "close"
  /\ rd = "close" => at.close \in CloseReads \cup {"teardown", "upcall"}
  /\ at.read = "wait_rd" => rd = "close"
  /\ at.close = "wait_rd" => rd = "read"

LabelsInv(at) == at \in [Ops -> Labels] /\ \A o \in Ops : at[o] \in OpLabels(o)

Fields == {"at", "ec", "wr_block", "rd_block", "status", "rd_buf", "rd_remain", "rd_fin", "rd_cont",
           "rd_done", "rd_close", "wr_close", "wr_cont", "frame", "pong", "cont", "left", "how",
           "fin", "op", "idle_pinging", "ec_delivered", "timed_out", "idle_counter", "timer",
           "fired", "opt", "failed"}

(* The assertions that a mutex is free when it is taken and that who gives *)
(* it up, or works under it, has it.                                       *)
LockClaims == {"lock", "unlock", "try_lock", "wr_block", "rd_block"}

LockInv(i) ==
  /\ DOMAIN i = Fields
  /\ LabelsInv(i.at)
  /\ WriteInv(i.at, i.wr_block)
  /\ ReadInv(i.at, i.rd_block)
  /\ i.idle_pinging <=> i.at.idle # "off"
  /\ i.failed \cap LockClaims = {}

IInv == LockInv(impl)

------------------------------------------------------------------------------
(* What a part of a handler does to the labels and the mutexes.            *)
Alike(i, j) ==
  /\ DOMAIN j = Fields
  /\ j.at = i.at /\ j.wr_block = i.wr_block /\ j.rd_block = i.rd_block
  /\ j.idle_pinging = i.idle_pinging
  /\ j.failed \cap LockClaims = i.failed \cap LockClaims

(* j is i with o at l.                                                     *)
Moved(i, j, o, l) ==
  /\ DOMAIN j = Fields
  /\ j.at = [i.at EXCEPT ![o] = l]
  /\ j.wr_block = i.wr_block /\ j.rd_block = i.rd_block
  /\ j.idle_pinging = i.idle_pinging
  /\ j.failed \cap LockClaims = i.failed \cap LockClaims

LEMMA AlikeKeeps ==
  ASSUME NEW i, NEW j, LockInv(i), Alike(i, j)
  PROVE  LockInv(j)
BY DEF LockInv, Alike

LEMMA AlikeTransitive ==
  ASSUME NEW i, NEW j, NEW k, Alike(i, j), Alike(j, k)
  PROVE  Alike(i, k)
BY DEF Alike

LEMMA AlikeMoved ==
  ASSUME NEW i, NEW j, NEW k, NEW o, NEW l, Alike(i, j), Moved(j, k, o, l)
  PROVE  Moved(i, k, o, l)
BY DEF Alike, Moved

LEMMA AtMoves ==
  ASSUME NEW i, DOMAIN i = Fields, NEW o, NEW l
  PROVE  Moved(i, At(i, o, l), o, l)
BY DEF Moved, At, Fields

LEMMA ClaimAlike ==
  ASSUME NEW i, DOMAIN i = Fields, NEW name, NEW holds, name \in LockClaims => holds
  PROVE  Alike(i, Claim(i, name, holds))
<1>1. CASE holds
  BY <1>1 DEF Alike, Claim
<1>2. CASE ~holds
  <2>1. Claim(i, name, holds) = [i EXCEPT !.failed = @ \cup {name}]
    BY <1>2 DEF Claim
  <2>2. (i.failed \cup {name}) \cap LockClaims = i.failed \cap LockClaims
    BY <1>2
  <2> QED BY <2>1, <2>2 DEF Alike, Fields
<1> QED BY <1>1, <1>2

LEMMA Locks ==
  ASSUME NEW i, DOMAIN i = Fields, NEW m \in {"wr_block", "rd_block"}, i[m] = "none", NEW o
  PROVE  Lock(i, m, o) = [i EXCEPT ![m] = o]
BY DEF Lock, Claim

LEMMA Unlocks ==
  ASSUME NEW i, DOMAIN i = Fields, NEW m \in {"wr_block", "rd_block"}, NEW o, i[m] = o
  PROVE  Unlock(i, m, o) = [i EXCEPT ![m] = "none"]
BY DEF Unlock, Claim

(* try_lock.                                                               *)
LEMMA TriesWrite ==
  ASSUME NEW i, DOMAIN i = Fields, NEW o, NEW got, NEW wait, i.wr_block # o
  PROVE  LET j == TryLock(i, "wr_block", o, got, wait)
         IN  \/ /\ i.wr_block = "none"
                /\ Moved([i EXCEPT !.wr_block = o], j, o, got)
             \/ i.wr_block # "none" /\ Moved(i, j, o, wait)
<1>1. CASE i.wr_block = "none"
  <2>1. TryLock(i, "wr_block", o, got, wait) = At([i EXCEPT !["wr_block"] = o], o, got)
    BY <1>1, Locks DEF TryLock
  <2>2. DOMAIN [i EXCEPT !.wr_block = o] = Fields
    OBVIOUS
  <2> QED BY <1>1, <2>1, <2>2, AtMoves
<1>2. CASE i.wr_block # "none"
  <2>1. TryLock(i, "wr_block", o, got, wait) = At(i, o, wait)
    BY <1>2 DEF TryLock, Claim
  <2> QED BY <1>2, <2>1, AtMoves
<1> QED BY <1>1, <1>2

LEMMA TriesRead ==
  ASSUME NEW i, DOMAIN i = Fields, NEW o, NEW got, NEW wait, i.rd_block # o
  PROVE  LET j == TryLock(i, "rd_block", o, got, wait)
         IN  \/ /\ i.rd_block = "none"
                /\ Moved([i EXCEPT !.rd_block = o], j, o, got)
             \/ i.rd_block # "none" /\ Moved(i, j, o, wait)
<1>1. CASE i.rd_block = "none"
  <2>1. TryLock(i, "rd_block", o, got, wait) = At([i EXCEPT !["rd_block"] = o], o, got)
    BY <1>1, Locks DEF TryLock
  <2>2. DOMAIN [i EXCEPT !.rd_block = o] = Fields
    OBVIOUS
  <2> QED BY <1>1, <2>1, <2>2, AtMoves
<1>2. CASE i.rd_block # "none"
  <2>1. TryLock(i, "rd_block", o, got, wait) = At(i, o, wait)
    BY <1>2 DEF TryLock, Claim
  <2> QED BY <1>2, <2>1, AtMoves
<1> QED BY <1>1, <1>2

(* maybe_invoke of the one or the other that waits for the read block.     *)
LEMMA WakesReader ==
  ASSUME NEW i, DOMAIN i = Fields, NEW o, i.at[o] = "wait_rd" => i.rd_block = "none"
  PROVE  LET j == WakeReader(i, o)
         IN  \/ i.at[o] # "wait_rd" /\ j = i
             \/ /\ i.at[o] = "wait_rd"
                /\ Moved([i EXCEPT !.rd_block = o], j, o, "got_rd")
<1>1. CASE i.at[o] = "wait_rd"
  <2>1. WakeReader(i, o) = At([i EXCEPT !["rd_block"] = o], o, "got_rd")
    BY <1>1, Locks DEF WakeReader
  <2>2. DOMAIN [i EXCEPT !.rd_block = o] = Fields
    OBVIOUS
  <2> QED BY <1>1, <2>1, <2>2, AtMoves
<1>2. CASE i.at[o] # "wait_rd"
  BY <1>2 DEF WakeReader
<1> QED BY <1>1, <1>2

Orders == {AfterRead, AfterWrite, AfterPing, AfterIdle, AfterClose}

LEMMA LeastOf ==
  ASSUME NEW S \in SUBSET (1 .. 4), S # {}
  PROVE  Min(S) \in S
<1>1. \E x \in S : \A y \in S : x <= y
  <2>1. CASE 1 \in S
    BY <2>1
  <2>2. CASE 1 \notin S /\ 2 \in S
    BY <2>2
  <2>3. CASE 1 \notin S /\ 2 \notin S /\ 3 \in S
    BY <2>3
  <2>4. CASE 1 \notin S /\ 2 \notin S /\ 3 \notin S
    <3>1. \A x \in S : x = 4
      BY <2>4
    <3>2. PICK x \in S : TRUE
      OBVIOUS
    <3> QED BY <3>1, <3>2
  <2> QED BY <2>1, <2>2, <2>3, <2>4
<1> QED BY <1>1 DEF Min

(* The operation that is resumed waits for the write block and gets it.    *)
LEMMA Wakes ==
  ASSUME NEW i, DOMAIN i = Fields, i.wr_block = "none", NEW order \in Orders
  PROVE  LET j == Wake(i, order)
         IN  \/ j = i
             \/ \E o \in Ops : /\ i.at[o] \in WrWaits
                               /\ Moved([i EXCEPT !.wr_block = o], j, o, Granted[i.at[o]])
<1> DEFINE S == Saved(i, order)
<1>1. CASE S = {}
  BY <1>1 DEF Wake
<1>2. CASE S # {}
  <2>1. S \in SUBSET (1 .. 4) /\ \A k \in S : i.at[order[k]] \in WrWaits
    BY DEF Saved, Orders, AfterRead, AfterWrite, AfterPing, AfterIdle, AfterClose
  <2>2. Min(S) \in S
    BY <1>2, <2>1, LeastOf
  <2> DEFINE o == order[Min(S)]
  <2>3. i.at[o] \in WrWaits
    BY <2>1, <2>2
  <2>4. \A k \in 1 .. 4 : order[k] \in Ops
    BY DEF Orders, AfterRead, AfterWrite, AfterPing, AfterIdle, AfterClose, Ops
  <2>5. o \in Ops
    BY <2>1, <2>2, <2>4
  <2>6. Wake(i, order) = At([i EXCEPT !["wr_block"] = o], o, Granted[i.at[o]])
    BY <1>2, Locks DEF Wake
  <2>7. DOMAIN [i EXCEPT !.wr_block = o] = Fields
    OBVIOUS
  <2> QED BY <2>3, <2>5, <2>6, <2>7, AtMoves
<1> QED BY <1>1, <1>2

LEMMA ToUpcallMoves ==
  ASSUME NEW i, DOMAIN i = Fields, NEW o, NEW ec
  PROVE  Moved(i, ToUpcall(i, o, ec), o, "upcall")
<1>1. Alike(i, [i EXCEPT !.ec[o] = ec])
  BY DEF Alike, Fields
<1> QED BY <1>1, AtMoves, AlikeMoved DEF ToUpcall, Alike

(* check_stop_now: the operation goes on, or ends with what it has.        *)
LEMMA Checked ==
  ASSUME NEW i, DOMAIN i = Fields, NEW o, NEW ec, NEW next
  PROVE  \/ ec = "ok" /\ CheckStop(i, o, ec, next) = next
         \/ Moved(i, CheckStop(i, o, ec, next), o, "upcall")
<1>1. CASE i.timed_out
  <2>1. Alike(i, [i EXCEPT !.timed_out = FALSE])
    BY DEF Alike, Fields
  <2> QED BY <1>1, <2>1, ToUpcallMoves, AlikeMoved DEF CheckStop, Alike
<1>2. CASE ~i.timed_out /\ Stopped(i)
  BY <1>2, ToUpcallMoves DEF CheckStop
<1>3. CASE ~i.timed_out /\ ~Stopped(i) /\ ec = "ok"
  BY <1>3 DEF CheckStop
<1>4. CASE ~i.timed_out /\ ~Stopped(i) /\ ec # "ok" /\ i.ec_delivered
  BY <1>4, ToUpcallMoves DEF CheckStop
<1>5. CASE ~i.timed_out /\ ~Stopped(i) /\ ec # "ok" /\ ~i.ec_delivered
  <2>1. Alike(i, [i EXCEPT !.ec_delivered = TRUE, !.status = "failed"])
    BY DEF Alike, Fields
  <2> QED BY <1>5, <2>1, ToUpcallMoves, AlikeMoved DEF CheckStop, Alike
<1> QED BY <1>1, <1>2, <1>3, <1>4, <1>5

LEMMA EndedMoves ==
  ASSUME NEW i, DOMAIN i = Fields, NEW o, i.wr_block = o, NEW ec, NEW result
  PROVE  Moved(i, Ended(i, o, ec, result), o, "upcall")
<1> DEFINE e == IF ec = "ok" THEN result ELSE ec
           c == Claim(i, "wr_block", i.wr_block = o)
           j == [c EXCEPT !.status = IF e \in {"ok", "closed"} THEN "closed" ELSE "failed",
                          !.timer = FALSE]
<1>1. Alike(i, c)
  BY ClaimAlike
<1> HIDE DEF c
<1>2. Alike(c, j)
  BY <1>1 DEF Alike, Fields
<1>3. Ended(i, o, ec, result) = ToUpcall(j, o, e)
  BY DEF Ended, c
<1> HIDE DEF j, e
<1>4. Moved(j, ToUpcall(j, o, e), o, "upcall")
  BY <1>2, ToUpcallMoves DEF Alike
<1> QED BY <1>1, <1>2, <1>3, <1>4, AlikeTransitive, AlikeMoved

LEMMA Others ==
  ASSUME NEW i, DOMAIN i = Fields
  PROVE  /\ Alike(i, UpdateTimer(i))
         /\ Alike(i, ResetIdle(i))
         /\ Alike(i, TimeOut(i))
         /\ \A n : Alike(i, Consume(i, n))
         /\ \A u : Alike(i, ParseHeader(i, u))
<1>1. Alike(i, UpdateTimer(i))
  BY DEF Alike, Fields, UpdateTimer
<1>2. Alike(i, ResetIdle(i))
  BY DEF Alike, Fields, ResetIdle
<1>3. Alike(i, TimeOut(i))
  BY DEF Alike, Fields, TimeOut
<1>4. ASSUME NEW n PROVE Alike(i, Consume(i, n))
  BY DEF Alike, Fields, Consume
<1>5. ASSUME NEW u PROVE Alike(i, ParseHeader(i, u))
  <2> DEFINE c == Consume(i, 1)
             j == [c EXCEPT !.rd_fin = u.fin]
  <2>1. Alike(i, c)
    BY <1>4
  <2> HIDE DEF c
  <2>2. Alike(i, j)
    BY <2>1 DEF Alike, Fields
  <2>3. ParseHeader(i, u) = IF u.kind \in Data
                            THEN [j EXCEPT !.rd_cont = ~u.fin, !.rd_remain = u.len] ELSE j
    BY DEF ParseHeader, c
  <2> HIDE DEF j
  <2>4. Alike(i, [j EXCEPT !.rd_cont = ~u.fin, !.rd_remain = u.len])
    BY <2>2 DEF Alike, Fields
  <2> QED BY <2>2, <2>3, <2>4
<1> QED BY <1>1, <1>2, <1>3, <1>4, <1>5

------------------------------------------------------------------------------
(* An operation moves to where the mutexes it has, and no others, are its. *)
LEMMA MoveKeeps ==
  ASSUME NEW i, NEW j, NEW o \in Ops, NEW l, LockInv(i), Moved(i, j, o, l), l \in OpLabels(o),
         o = "idle" => (i.at.idle # "off" <=> l # "off"),
         o # "read" => (i.wr_block = o <=> l \notin {"off", "wait_wr"}),
         o = "read" => /\ l \in ReadWrites => i.wr_block = "read"
                       /\ i.wr_block = "read" => l \in ReadWrites \cup {"upcall"}
                       /\ l \in ReadReads => i.rd_block = "read"
                       /\ i.rd_block = "read" => l \in ReadReads \cup {"teardown", "upcall"}
                       /\ l = "wait_rd" => i.rd_block = "close",
         o = "close" => /\ l \in CloseReads => i.rd_block = "close"
                        /\ i.rd_block = "close" => l \in CloseReads \cup {"teardown", "upcall"}
                        /\ l = "wait_rd" => i.rd_block = "read"
  PROVE  LockInv(j)
<1>1. l \in Labels
  BY DEF OpLabels, ReadLabels, CloseLabels, SendLabels, ReadReads, ReadWrites, Labels, Running,
         WrWaits, Granted, Writing, Reading, Ops
<1>2. /\ "read" \in Ops /\ "close" \in Ops /\ "idle" \in Ops
      /\ i.at \in [Ops -> Labels]
      /\ j.at = [i.at EXCEPT ![o] = l]
  BY DEF LockInv, LabelsInv, Moved, Ops
<1>3. j.at[o] = l /\ \A p \in Ops \ {o} : j.at[p] = i.at[p]
  BY <1>2
<1>4. LabelsInv(j.at)
  BY <1>1, <1>2, <1>3 DEF LockInv, LabelsInv
<1>5. WriteInv(j.at, j.wr_block)
  BY <1>2, <1>3 DEF LockInv, WriteInv, Moved
<1>6. ReadInv(j.at, j.rd_block)
  BY <1>2, <1>3 DEF LockInv, ReadInv, Moved
<1>7. j.idle_pinging <=> j.at.idle # "off"
  BY <1>2, <1>3 DEF LockInv, Moved
<1> QED BY <1>4, <1>5, <1>6, <1>7 DEF LockInv, Moved

(* To fail is to keep the mutexes until the upcall.                        *)
LEMMA FailKeeps ==
  ASSUME NEW i, NEW j, NEW o \in Ops, LockInv(i), Moved(i, j, o, "upcall"),
         i.at[o] \notin {"off", "wait_wr"}
  PROVE  LockInv(j)
<1>1. "upcall" \in OpLabels(o)
  BY DEF OpLabels, ReadLabels, CloseLabels, SendLabels
<1>2. o # "read" => i.wr_block = o
  BY DEF LockInv, WriteInv
<1>3. o = "idle" => i.at.idle # "off"
  OBVIOUS
<1> QED BY <1>1, <1>2, <1>3, MoveKeeps DEF ReadReads, ReadWrites, CloseReads

(* A mutex that is free is taken by one that does not wait for the other.  *)
LEMMA TakeWriteKeeps ==
  ASSUME NEW i, NEW j, NEW o \in Ops, NEW l, LockInv(i), i.wr_block = "none",
         Moved([i EXCEPT !.wr_block = o], j, o, l), l \in OpLabels(o),
         l \notin {"off", "wait_wr"},
         o = "idle" => i.at.idle # "off",
         o = "read" => /\ l \in ReadWrites
                       /\ l \in ReadReads => i.rd_block = "read"
                       /\ i.rd_block = "read" => l \in ReadReads \cup {"teardown", "upcall"},
         o = "close" => l \in {"begin", "got_wr"} /\ i.at.close \in {"off", "wait_wr"}
  PROVE  LockInv(j)
<1>1. l \in Labels
  BY DEF OpLabels, ReadLabels, CloseLabels, SendLabels, ReadReads, ReadWrites, Labels, Running,
         WrWaits, Granted, Writing, Reading, Ops
<1>2. /\ "read" \in Ops /\ "close" \in Ops /\ "idle" \in Ops /\ "none" \notin Ops
      /\ i.at \in [Ops -> Labels]
      /\ DOMAIN i = Fields
      /\ DOMAIN j = Fields
      /\ j.at = [i.at EXCEPT ![o] = l]
      /\ j.wr_block = o /\ j.rd_block = i.rd_block /\ j.idle_pinging = i.idle_pinging
      /\ j.failed \cap LockClaims = i.failed \cap LockClaims
  BY DEF LockInv, LabelsInv, Moved, Ops, Fields
<1>3. j.at[o] = l /\ \A p \in Ops \ {o} : j.at[p] = i.at[p]
  BY <1>2
<1>4. LabelsInv(j.at)
  BY <1>1, <1>2, <1>3 DEF LockInv, LabelsInv
<1>5. WriteInv(j.at, j.wr_block)
  BY <1>2, <1>3 DEF LockInv, WriteInv
<1>6. ReadInv(j.at, j.rd_block)
  <2>1. i.at.close \in {"off", "wait_wr"} => i.rd_block # "close"
    BY DEF LockInv, ReadInv, CloseReads
  <2> QED BY <1>2, <1>3, <2>1 DEF LockInv, ReadInv, ReadWrites, CloseReads
<1>7. j.idle_pinging <=> j.at.idle # "off"
  BY <1>2, <1>3 DEF LockInv
<1> QED BY <1>2, <1>4, <1>5, <1>6, <1>7 DEF LockInv

(* wr_block is given up by one that no longer needs it.                    *)
LEMMA GiveWriteKeeps ==
  ASSUME NEW i, NEW j, NEW o \in Ops, NEW l, LockInv(i), i.wr_block = o,
         DOMAIN j = Fields,
         j.at = [i.at EXCEPT ![o] = l],
         j.wr_block = "none",
         j.rd_block = i.rd_block,
         j.failed \cap LockClaims = i.failed \cap LockClaims,
         l \in {"off", "wait_wr", "acquire"} \cap OpLabels(o),
         o = "idle" => l = "off" /\ j.idle_pinging = FALSE,
         o # "idle" => j.idle_pinging = i.idle_pinging,
         o \in {"read", "close"} => i.rd_block # o
  PROVE  LockInv(j)
<1>1. l \in Labels
  BY DEF Labels, Running, WrWaits, Granted
<1>2. /\ "read" \in Ops /\ "close" \in Ops /\ "idle" \in Ops /\ "none" \notin Ops
      /\ i.at \in [Ops -> Labels]
  BY DEF LockInv, LabelsInv, Ops
<1>3. j.at[o] = l /\ \A p \in Ops \ {o} : j.at[p] = i.at[p]
  BY <1>2
<1>4. LabelsInv(j.at)
  BY <1>1, <1>2, <1>3 DEF LockInv, LabelsInv
<1>5. WriteInv(j.at, j.wr_block)
  <2>1. o # "read" => l \in {"off", "wait_wr"}
    BY DEF OpLabels, CloseLabels, SendLabels
  <2>2. o = "read" => l \in {"off", "acquire"}
    BY DEF OpLabels, ReadLabels, ReadReads, ReadWrites
  <2> QED BY <1>2, <1>3, <2>1, <2>2 DEF LockInv, WriteInv, ReadWrites
<1>6. ReadInv(j.at, j.rd_block)
  BY <1>2, <1>3 DEF LockInv, ReadInv, ReadReads, CloseReads
<1>7. j.idle_pinging <=> j.at.idle # "off"
  BY <1>2, <1>3 DEF LockInv
<1> QED BY <1>4, <1>5, <1>6, <1>7 DEF LockInv

(* The next one has it before its handler runs: m is k with o at l, and j  *)
(* is m with another one resumed.                                          *)
LEMMA WakeKeeps ==
  ASSUME NEW k, NEW m, NEW j, NEW o \in Ops, NEW l, NEW order \in Orders,
         DOMAIN k = Fields, k.at \in [Ops -> Labels], k.wr_block = "none",
         k.at[o] \notin WrWaits,
         Moved(k, m, o, l), LockInv(m),
         Moved(Wake(k, order), j, o, l)
  PROVE  LockInv(j)
<1> DEFINE w == Wake(k, order)
<1>1. \/ w = k
      \/ \E p \in Ops : /\ k.at[p] \in WrWaits
                        /\ Moved([k EXCEPT !.wr_block = p], w, p, Granted[k.at[p]])
  BY Wakes
<1> HIDE DEF w
<1>2. Moved(w, j, o, l)
  BY DEF w
<1>3. CASE w = k
  <2>1. Alike(m, j)
    BY <1>2, <1>3 DEF Moved, Alike
  <2> QED BY <2>1, AlikeKeeps
<1>4. ASSUME NEW p \in Ops, k.at[p] \in WrWaits,
             Moved([k EXCEPT !.wr_block = p], w, p, Granted[k.at[p]])
      PROVE  LockInv(j)
  <2> DEFINE g == Granted[k.at[p]]
  <2>1. p # o
    BY <1>4
  <2>2. m.at[p] = k.at[p] /\ m.wr_block = "none" /\ m.at[p] \in OpLabels(p)
    BY <2>1 DEF Moved, LockInv, LabelsInv
  <2>3. /\ m.at[p] \in {"wait_wr", "pong_wait", "fail_wait"}
        /\ m.at[p] = "wait_wr" => g = "got_wr"
        /\ m.at[p] = "pong_wait" => g = "pong_got"
        /\ m.at[p] = "fail_wait" => g = "fail_got"
    BY <1>4, <2>2 DEF WrWaits, Granted
  <2>4. /\ p = "read" => m.at[p] \in {"pong_wait", "fail_wait"}
        /\ p # "read" => m.at[p] = "wait_wr"
    BY <2>2, <2>3 DEF OpLabels, ReadLabels, ReadReads, ReadWrites, CloseLabels, SendLabels
  <2>5. Moved([m EXCEPT !.wr_block = p], j, p, g)
    <3>1. /\ j.at = [[k.at EXCEPT ![p] = g] EXCEPT ![o] = l]
          /\ m.at = [k.at EXCEPT ![o] = l]
      BY <1>2, <1>4 DEF Moved, Fields
    <3>2. j.at = [m.at EXCEPT ![p] = g]
      BY <2>1, <3>1
    <3> HIDE DEF g
    <3> QED BY <1>2, <1>4, <3>2 DEF Moved, LockInv, Fields
  <2>6. g \in OpLabels(p) /\ g \notin {"off", "wait_wr"}
    BY <2>3, <2>4 DEF OpLabels, ReadLabels, ReadReads, ReadWrites, CloseLabels, SendLabels
  <2>7. p = "read" => /\ g \in ReadWrites
                      /\ g \in ReadReads => m.rd_block = "read"
                      /\ m.rd_block = "read" => g \in ReadReads \cup {"teardown", "upcall"}
    BY <2>3, <2>4 DEF LockInv, ReadInv, ReadReads, ReadWrites
  <2>8. p = "close" => g \in {"begin", "got_wr"} /\ m.at.close \in {"off", "wait_wr"}
    BY <2>3, <2>4
  <2>9. p = "idle" => m.at.idle # "off"
    BY <2>4
  <2> HIDE DEF g
  <2> QED BY <2>2, <2>5, <2>6, <2>7, <2>8, <2>9, TakeWriteKeeps
<1> QED BY <1>1, <1>3, <1>4

(* rd_block changes hands between the read and the close, of which the one *)
(* at "wait_rd" is resumed; who gives it up is where it needs none.        *)
LEMMA GiveReadKeeps ==
  ASSUME NEW i, NEW k, NEW w, NEW j, LockInv(i), NEW o \in {"read", "close"}, NEW p, NEW l,
         p = IF o = "read" THEN "close" ELSE "read",
         i.rd_block = o, Alike([i EXCEPT !.rd_block = "none"], k), w = WakeReader(k, p),
         Moved(w, j, o, l), l \in OpLabels(o),
         o = "read" => /\ l \notin ReadReads
                       /\ l \in ReadWrites <=> i.at.read \in ReadWrites
                       /\ l = "upcall" \/ i.wr_block # "read"
                       /\ l = "wait_rd" => w.rd_block = "close",
         o = "close" => l = "upcall" /\ i.at.close = "upcall"
  PROVE  LockInv(j) /\ w.rd_block # o /\ DOMAIN w = Fields
<1>0. p \in {"read", "close"} /\ p # o
  OBVIOUS
<1>1. /\ "read" \in Ops /\ "close" \in Ops /\ "idle" \in Ops /\ "none" \notin Ops
      /\ i.at \in [Ops -> Labels] /\ DOMAIN i = Fields
  BY DEF LockInv, LabelsInv, Ops
<1>2. /\ DOMAIN k = Fields /\ k.at = i.at /\ k.rd_block = "none" /\ k.wr_block = i.wr_block
      /\ k.idle_pinging = i.idle_pinging /\ k.failed \cap LockClaims = i.failed \cap LockClaims
  BY <1>1 DEF Alike, Fields
<1>3. l \in Labels
  BY DEF OpLabels, ReadLabels, CloseLabels, SendLabels, ReadReads, ReadWrites, Labels, Running,
         WrWaits, Granted, Writing, Reading, Ops
<1>4. \/ k.at[p] # "wait_rd" /\ w = k
      \/ k.at[p] = "wait_rd" /\ Moved([k EXCEPT !.rd_block = p], w, p, "got_rd")
  BY <1>2, WakesReader
<1>5. CASE k.at[p] # "wait_rd" /\ w = k
  <2>1. /\ j.at = [i.at EXCEPT ![o] = l] /\ j.rd_block = "none" /\ j.wr_block = i.wr_block
        /\ j.idle_pinging = i.idle_pinging /\ j.failed \cap LockClaims = i.failed \cap LockClaims
        /\ DOMAIN j = Fields
    BY <1>2, <1>5 DEF Moved
  <2>2. j.at[o] = l /\ \A q \in Ops \ {o} : j.at[q] = i.at[q]
    BY <1>1, <2>1
  <2>3. LabelsInv(j.at)
    BY <1>1, <1>3, <2>1, <2>2 DEF LockInv, LabelsInv
  <2>4. WriteInv(j.at, j.wr_block)
    BY <1>1, <2>1, <2>2 DEF LockInv, WriteInv
  <2>5. ReadInv(j.at, j.rd_block)
    BY <1>0, <1>1, <1>2, <1>5, <2>1, <2>2 DEF LockInv, ReadInv, CloseReads, ReadReads
  <2>6. j.idle_pinging <=> j.at.idle # "off"
    BY <1>1, <2>1, <2>2 DEF LockInv
  <2> QED BY <1>2, <1>5, <2>1, <2>3, <2>4, <2>5, <2>6 DEF LockInv
<1>6. CASE k.at[p] = "wait_rd" /\ Moved([k EXCEPT !.rd_block = p], w, p, "got_rd")
  <2>1. /\ w.at = [i.at EXCEPT ![p] = "got_rd"]
        /\ j.at = [w.at EXCEPT ![o] = l] /\ j.rd_block = p /\ j.wr_block = i.wr_block
        /\ j.idle_pinging = i.idle_pinging /\ j.failed \cap LockClaims = i.failed \cap LockClaims
        /\ DOMAIN j = Fields /\ DOMAIN w = Fields /\ w.rd_block = p
    BY <1>2, <1>6 DEF Moved, Fields
  <2>2. j.at[o] = l /\ j.at[p] = "got_rd" /\ \A q \in Ops \ {o, p} : j.at[q] = i.at[q]
    BY <1>0, <1>1, <2>1
  <2>3. "got_rd" \in Labels /\ "got_rd" \in OpLabels(p)
    BY <1>0 DEF Labels, OpLabels, ReadLabels, ReadReads, CloseLabels
  <2>4. LabelsInv(j.at)
    BY <1>0, <1>1, <1>3, <2>1, <2>2, <2>3 DEF LockInv, LabelsInv
  <2>5. WriteInv(j.at, j.wr_block)
    BY <1>0, <1>1, <1>2, <1>6, <2>1, <2>2 DEF LockInv, WriteInv, ReadWrites
  <2>6. ReadInv(j.at, j.rd_block)
    BY <1>0, <1>1, <1>2, <1>6, <2>1, <2>2 DEF LockInv, ReadInv, CloseReads, ReadReads
  <2>7. j.idle_pinging <=> j.at.idle # "off"
    BY <1>0, <1>1, <2>1, <2>2 DEF LockInv
  <2> QED BY <1>0, <2>1, <2>4, <2>5, <2>6, <2>7 DEF LockInv
<1> QED BY <1>4, <1>5, <1>6

------------------------------------------------------------------------------
(* The read: from one label under the read block to another.               *)
LEMMA ReadMoves ==
  ASSUME NEW i, NEW j, NEW l \in ReadReads \ ReadWrites, LockInv(i), Moved(i, j, "read", l),
         i.at.read \in ReadReads \ ReadWrites
  PROVE  LockInv(j)
<1>1. i.rd_block = "read" /\ i.wr_block # "read"
  BY DEF LockInv, WriteInv, ReadInv, ReadReads, ReadWrites
<1>2. "read" \in Ops /\ l \in OpLabels("read") /\ l # "wait_rd"
  BY DEF Ops, OpLabels, ReadLabels, ReadReads
<1> QED BY <1>1, <1>2, MoveKeeps

LEMMA ReadStartKeeps ==
  ASSUME IInv, ReadStart
  PROVE  IInv'
<1> DEFINE t == UpdateTimer(impl)
           i == [t EXCEPT !.cont = FALSE, !.frame = "none"]
<1>1. LockInv(impl) /\ DOMAIN impl = Fields
  BY DEF IInv, LockInv
<1>2. Alike(impl, t)
  BY <1>1, Others
<1>3. impl.at.read = "off" /\ impl' = At(i, "read", "acquire")
  BY DEF ReadStart
<1> HIDE DEF t
<1>4. Alike(t, i)
  BY <1>2 DEF Alike, Fields
<1> HIDE DEF i
<1>5. Moved(impl, impl', "read", "acquire")
  BY <1>2, <1>3, <1>4, AtMoves, AlikeTransitive, AlikeMoved DEF Alike
<1>6. impl.rd_block # "read" /\ impl.wr_block # "read"
  BY <1>1, <1>3 DEF LockInv, WriteInv, ReadInv, ReadReads, ReadWrites
<1>7. "read" \in Ops /\ "acquire" \in OpLabels("read")
  BY DEF Ops, OpLabels, ReadLabels
<1> QED BY <1>1, <1>5, <1>6, <1>7, MoveKeeps DEF IInv, ReadReads, ReadWrites

LEMMA AcquireReadKeeps ==
  ASSUME IInv, AcquireRead
  PROVE  IInv'
<1> DEFINE i == TryLock(impl, "rd_block", "read", "loop", "wait_rd")
<1>1. LockInv(impl) /\ DOMAIN impl = Fields /\ impl.at.read = "acquire"
  BY DEF IInv, LockInv, AcquireRead
<1>2. impl.rd_block # "read" /\ impl.wr_block # "read" /\ impl.rd_block \in {"none", "close"}
  BY <1>1 DEF LockInv, WriteInv, ReadInv, ReadReads, ReadWrites
<1>3. impl' = IF i.at.read = "loop" /\ Stopped(i) THEN ToUpcall(i, "read", "aborted") ELSE i
  BY DEF AcquireRead
<1>4. \/ impl.rd_block = "none" /\ Moved([impl EXCEPT !.rd_block = "read"], i, "read", "loop")
      \/ impl.rd_block # "none" /\ Moved(impl, i, "read", "wait_rd")
  BY <1>1, <1>2, TriesRead
<1>5. "read" \in Ops /\ {"loop", "wait_rd"} \subseteq OpLabels("read") /\ {"loop", "wait_rd"} \subseteq Labels
  BY DEF Ops, OpLabels, ReadLabels, ReadReads, Labels, Running
<1> HIDE DEF i
<1>6. CASE impl.rd_block # "none" /\ Moved(impl, i, "read", "wait_rd")
  <2>1. LockInv(i)
    BY <1>1, <1>2, <1>5, <1>6, MoveKeeps DEF ReadReads, ReadWrites
  <2>2. i.at.read # "loop"
    BY <1>1, <1>5, <1>6 DEF Moved, LockInv, LabelsInv
  <2> QED BY <1>3, <2>1, <2>2 DEF IInv
<1>7. CASE impl.rd_block = "none" /\ Moved([impl EXCEPT !.rd_block = "read"], i, "read", "loop")
  <2>1. LockInv(i) /\ i.at.read = "loop"
    <3>1. /\ i.at = [impl.at EXCEPT !["read"] = "loop"] /\ i.rd_block = "read" /\ i.wr_block = impl.wr_block
          /\ DOMAIN i = Fields /\ i.idle_pinging = impl.idle_pinging
          /\ i.failed \cap LockClaims = impl.failed \cap LockClaims
      BY <1>1, <1>7 DEF Moved, Fields
    <3>2. impl.at \in [Ops -> Labels] /\ "close" \in Ops /\ "idle" \in Ops
      BY <1>1 DEF LockInv, LabelsInv, Ops
    <3>3. i.at.read = "loop" /\ \A q \in Ops \ {"read"} : i.at[q] = impl.at[q]
      BY <1>5, <3>1, <3>2
    <3>4. LabelsInv(i.at)
      BY <1>1, <1>5, <3>1, <3>2, <3>3 DEF LockInv, LabelsInv
    <3>5. WriteInv(i.at, i.wr_block)
      BY <1>1, <1>2, <1>5, <3>1, <3>2, <3>3 DEF LockInv, WriteInv, ReadWrites
    <3>6. ReadInv(i.at, i.rd_block)
      BY <1>1, <1>7, <3>1, <3>2, <3>3 DEF LockInv, ReadInv, ReadReads, CloseReads
    <3>7. i.idle_pinging <=> i.at.idle # "off"
      BY <1>1, <3>1, <3>2, <3>3 DEF LockInv
    <3> QED BY <1>1, <3>1, <3>3, <3>4, <3>5, <3>6, <3>7 DEF LockInv
  <2>2. DOMAIN i = Fields
    BY <2>1 DEF LockInv
  <2>3. Moved(i, ToUpcall(i, "read", "aborted"), "read", "upcall")
    BY <2>2, ToUpcallMoves
  <2>4. LockInv(ToUpcall(i, "read", "aborted"))
    BY <1>5, <2>1, <2>3, FailKeeps
  <2> QED BY <1>3, <2>1, <2>4 DEF IInv
<1> QED BY <1>4, <1>6, <1>7

LEMMA ReadGrantedKeeps ==
  ASSUME IInv, ReadGranted
  PROVE  IInv'
<1> DEFINE c == [impl EXCEPT !.cont = TRUE]
           i == Claim(c, "rd_block", impl.rd_block = "read")
           d == Claim(i, "wr_close", i.wr_close /\ i.status # "open")
           n == ToUpcall(d, "read", "aborted")
           j == CheckStop(i, "read", "ok", n)
<1>1. LockInv(impl) /\ DOMAIN impl = Fields /\ impl.at.read = "got_rd" /\ "read" \in Ops
  BY DEF IInv, LockInv, ReadGranted, Ops
<1>2. impl' = Claim(j, "aborted", j.ec.read = "aborted")
  BY DEF ReadGranted
<1>3. Alike(impl, c)
  BY <1>1 DEF Alike, Fields
<1>4. impl.rd_block = "read"
  BY <1>1 DEF LockInv, ReadInv, ReadReads
<1> HIDE DEF c
<1>5. Alike(impl, i) /\ DOMAIN i = Fields
  <2>1. DOMAIN c = Fields
    BY <1>3 DEF Alike
  <2>2. Alike(c, i)
    BY <1>4, <2>1, ClaimAlike
  <2>3. Alike(impl, i)
    BY <1>3, <2>2, AlikeTransitive
  <2> QED BY <2>3 DEF Alike
<1> HIDE DEF i
<1>6. Alike(i, d) /\ DOMAIN d = Fields
  BY <1>5, ClaimAlike DEF LockClaims, Alike
<1> HIDE DEF d
<1>7. Moved(impl, n, "read", "upcall")
  BY <1>5, <1>6, ToUpcallMoves, AlikeMoved
<1> HIDE DEF n
<1>8. Moved(impl, j, "read", "upcall")
  BY <1>5, <1>7, Checked, AlikeMoved
<1> HIDE DEF j
<1>9. Alike(j, impl')
  BY <1>2, <1>8, ClaimAlike DEF LockClaims, Moved
<1>10. LockInv(j)
  BY <1>1, <1>8, FailKeeps
<1> QED BY <1>9, <1>10, AlikeKeeps DEF IInv

LEMMA ReadLoopKeeps ==
  ASSUME IInv, ReadLoop
  PROVE  IInv'
<1> DEFINE i == Claim(impl, "rd_block", impl.rd_block = "read")
           u == i.rd_buf[1]
           j == ParseHeader(i, u)
           c == [j EXCEPT !.rd_fin = FALSE, !.frame = u.kind, !.pong = u.id]
           d == [j EXCEPT !.rd_done = FALSE]
           e == [i EXCEPT !.frame = HeaderError(i, u)]
<1>1. LockInv(impl) /\ DOMAIN impl = Fields /\ impl.at.read = "loop"
  BY DEF IInv, LockInv, ReadLoop
<1>2. impl.rd_block = "read"
  BY <1>1 DEF LockInv, ReadInv, ReadReads
<1>3. \/ impl' = At(i, "read", "payload")
      \/ impl' = At(i, "read", "header")
      \/ impl' = At(e, "read", "fail")
      \/ impl' = At(c, "read", "control")
      \/ impl' = j
      \/ impl' = At(d, "read", "payload")
  BY DEF ReadLoop
<1>4. Alike(impl, i) /\ DOMAIN i = Fields
  <2>1. Alike(impl, i)
    BY <1>1, <1>2, ClaimAlike
  <2> QED BY <2>1 DEF Alike
<1> HIDE DEF i
<1>5. Alike(impl, j) /\ DOMAIN j = Fields
  BY <1>4, Others, AlikeTransitive DEF Alike
<1>6. Alike(impl, e)
  BY <1>4 DEF Alike, Fields
<1> HIDE DEF j, u
<1>7. Alike(impl, c) /\ Alike(impl, d)
  BY <1>5 DEF Alike, Fields
<1> HIDE DEF c, d, e
<1>8. \A k, l : Alike(impl, k) => Moved(impl, At(k, "read", l), "read", l)
  BY AtMoves, AlikeMoved DEF Alike
<1>9. /\ {"payload", "header", "fail", "control"} \subseteq ReadReads \ ReadWrites
      /\ "loop" \in ReadReads \ ReadWrites
  BY DEF ReadReads, ReadWrites
<1>10. CASE impl' = j
  BY <1>1, <1>5, <1>10, AlikeKeeps DEF IInv
<1>11. ASSUME NEW k, NEW l \in {"payload", "header", "fail", "control"}, Alike(impl, k),
              impl' = At(k, "read", l)
       PROVE  IInv'
  BY <1>1, <1>8, <1>9, <1>11, ReadMoves DEF IInv
<1> QED BY <1>3, <1>4, <1>6, <1>7, <1>10, <1>11

(* A handler that checks whether to stop.                                  *)
LEMMA CheckedKeeps ==
  ASSUME NEW i, NEW o \in Ops, NEW ec, NEW next, LockInv(i), i.at[o] \notin {"off", "wait_wr"},
         ec = "ok" => LockInv(next)
  PROVE  LockInv(CheckStop(i, o, ec, next))
<1> DEFINE j == CheckStop(i, o, ec, next)
<1>1. (ec = "ok" /\ j = next) \/ Moved(i, j, o, "upcall")
  BY Checked DEF LockInv
<1> HIDE DEF j
<1>2. Moved(i, j, o, "upcall") => LockInv(j)
  BY FailKeeps
<1>3. LockInv(j)
  BY <1>1, <1>2
<1> QED BY <1>3 DEF j

(* Bytes that have come, or not.                                           *)
LEMMA Arrived ==
  ASSUME DOMAIN impl = Fields, NEW n
  PROVE  /\ Alike(impl, Commit(n))
         /\ Alike(impl, [Commit(n) EXCEPT !.cont = TRUE])
         /\ Alike(impl, [impl EXCEPT !.cont = TRUE])
<1>1. Alike(impl, Commit(n))
  BY DEF Alike, Fields, Commit
<1>2. Alike(impl, [impl EXCEPT !.cont = TRUE])
  BY DEF Alike, Fields
<1> DEFINE c == Commit(n)
<1> HIDE DEF c
<1>3. Alike(impl, c)
  BY <1>1 DEF c
<1>4. Alike(impl, [c EXCEPT !.cont = TRUE])
  BY <1>3 DEF Alike, Fields
<1> QED BY <1>1, <1>2, <1>4 DEF c

LEMMA ReadHeaderKeeps ==
  ASSUME IInv, ReadHeader
  PROVE  IInv'
<1>1. LockInv(impl) /\ DOMAIN impl = Fields /\ impl.at.read = "header" /\ "read" \in Ops
  BY DEF IInv, LockInv, ReadHeader, Ops
<1>2. CASE \E ec \in Errors :
             impl' = CheckStop([impl EXCEPT !.cont = TRUE], "read", ec, impl)
  <2> DEFINE c == [impl EXCEPT !.cont = TRUE]
  <2>1. LockInv(c) /\ c.at.read = "header"
    BY <1>1, Arrived, AlikeKeeps DEF Alike
  <2> HIDE DEF c
  <2>2. PICK ec \in Errors : impl' = CheckStop(c, "read", ec, impl)
    BY <1>2 DEF c
  <2> QED BY <1>1, <2>1, <2>2, CheckedKeeps DEF IInv
<1>3. ASSUME NEW n \in 1 .. Len(net.in),
             impl' = LET i == [Commit(n) EXCEPT !.cont = TRUE]
                         j == WakeReader(Unlock(ResetIdle(i), "rd_block", "read"), "close")
                     IN  CheckStop(i, "read", "ok",
                           IF j.rd_block = "close" THEN At(j, "read", "wait_rd")
                           ELSE At(Lock(j, "rd_block", "read"), "read", "loop"))
      PROVE  IInv'
  <2> DEFINE i == [Commit(n) EXCEPT !.cont = TRUE]
             r == ResetIdle(i)
             k == Unlock(r, "rd_block", "read")
             w == WakeReader(k, "close")
             s == At(w, "read", "wait_rd")
             b == Lock(w, "rd_block", "read")
             a == At(b, "read", "loop")
  <2>1. impl' = CheckStop(i, "read", "ok", IF w.rd_block = "close" THEN s ELSE a)
    BY <1>3
  <2>2. LockInv(i) /\ i.at.read = "header" /\ DOMAIN i = Fields
    BY <1>1, Arrived, AlikeKeeps DEF Alike
  <2> HIDE DEF i
  <2>3. i.rd_block = "read" /\ i.wr_block # "read" /\ i.at \in [Ops -> Labels]
    BY <2>2 DEF LockInv, LabelsInv, ReadInv, WriteInv, ReadReads, ReadWrites
  <2>4. Alike(i, r)
    BY <2>2, Others
  <2> HIDE DEF r
  <2>5. k = [r EXCEPT !["rd_block"] = "none"]
    BY <2>3, <2>4, Unlocks DEF Alike
  <2>6. Alike([i EXCEPT !.rd_block = "none"], k) /\ DOMAIN k = Fields
    BY <2>2, <2>4, <2>5 DEF Alike, Fields
  <2>7. k.rd_block = "none" /\ k.at = i.at
    BY <2>2, <2>6 DEF Alike, Fields
  <2> HIDE DEF k
  <2>8. \/ k.at.close # "wait_rd" /\ w = k
        \/ k.at.close = "wait_rd" /\ Moved([k EXCEPT !.rd_block = "close"], w, "close", "got_rd")
    BY <2>6, <2>7, WakesReader
  <2>9. CASE w.rd_block = "close"
    <3>1. DOMAIN w = Fields
      BY <2>6, <2>8 DEF Moved
    <3>2. "wait_rd" \in OpLabels("read") /\ "wait_rd" \notin ReadReads \cup ReadWrites
      BY DEF OpLabels, ReadLabels, ReadReads, ReadWrites
    <3>3. i.at.read \notin ReadWrites
      BY <2>2 DEF ReadWrites
    <3> DEFINE v == w
    <3>4. v = WakeReader(k, "close") /\ v.rd_block = "close" /\ DOMAIN v = Fields
      BY <2>9, <3>1
    <3> HIDE DEF v
    <3>5. Moved(v, At(v, "read", "wait_rd"), "read", "wait_rd")
      BY <3>4, AtMoves
    <3>6. LockInv(At(v, "read", "wait_rd"))
      BY <2>2, <2>3, <2>6, <3>2, <3>3, <3>4, <3>5, GiveReadKeeps
    <3>7. LockInv(s)
      BY <3>6 DEF v
    <3> HIDE DEF s, w
    <3> QED BY <1>1, <2>1, <2>2, <2>9, <3>7, CheckedKeeps DEF IInv
  <2>10. CASE w.rd_block # "close"
    <3>1. w = k
      BY <2>6, <2>8, <2>10 DEF Moved, Fields
    <3>2. b = [k EXCEPT !["rd_block"] = "read"]
      BY <2>6, <2>7, <3>1, Locks
    <3>3. Alike(i, b)
      BY <2>2, <2>3, <2>6, <3>2 DEF Alike, Fields
    <3> HIDE DEF b
    <3>4. Moved(i, a, "read", "loop")
      BY <3>3, AtMoves, AlikeMoved DEF Alike
    <3> HIDE DEF a, w
    <3>5. LockInv(a)
      BY <2>2, <3>4, ReadMoves DEF ReadReads, ReadWrites
    <3> QED BY <1>1, <2>1, <2>2, <2>10, <3>5, CheckedKeeps DEF IInv
  <2> QED BY <2>9, <2>10
<1> QED BY <1>2, <1>3 DEF ReadHeader

LEMMA ReadPostedKeeps ==
  ASSUME IInv, ReadPosted
  PROVE  IInv'
<1> DEFINE c == [impl EXCEPT !.cont = TRUE]
<1>1. LockInv(impl) /\ impl.at.read = "posted" /\ impl' = At(c, "read", "control")
  BY DEF IInv, ReadPosted
<1>2. Alike(impl, c)
  BY <1>1, Arrived DEF LockInv
<1> HIDE DEF c
<1>3. Moved(impl, impl', "read", "control")
  BY <1>1, <1>2, AtMoves, AlikeMoved DEF Alike
<1> QED BY <1>1, <1>3, ReadMoves DEF IInv, ReadReads, ReadWrites

LEMMA ReadControlKeeps ==
  ASSUME IInv, ReadControl
  PROVE  IInv'
<1> DEFINE k == Unlock(impl, "rd_block", "read")
           w == WakeReader(k, "close")
           c == Claim(impl, "rd_close", ~impl.rd_close)
           i == [c EXCEPT !.rd_close = TRUE]
           f == IF i.frame = "close" /\ i.status = "closing"
                THEN Claim(i, "wr_close", i.wr_close) ELSE i
<1>1. LockInv(impl) /\ DOMAIN impl = Fields /\ impl.at.read = "control"
  BY DEF IInv, LockInv, ReadControl
<1>2. \/ impl' = At(impl, "read", "posted")
      \/ impl' = At(impl, "read", "loop")
      \/ impl' = TryLock(w, "wr_block", "read", "pong_send", "pong_wait")
      \/ impl' = At(f, "read", "fail")
  BY DEF ReadControl
<1>3. {"control", "posted", "loop", "fail"} \subseteq ReadReads \ ReadWrites
  BY DEF ReadReads, ReadWrites
<1>4. ASSUME NEW l \in {"posted", "loop", "fail"}, NEW a, Alike(impl, a), impl' = At(a, "read", l)
      PROVE  IInv'
  <2>1. Moved(impl, impl', "read", l)
    BY <1>4, AtMoves, AlikeMoved DEF Alike
  <2> QED BY <1>1, <1>3, <2>1, ReadMoves DEF IInv
<1>5. Alike(impl, impl)
  BY <1>1 DEF Alike
<1>6. Alike(impl, f)
  <2>1. Alike(impl, c)
    BY <1>1, ClaimAlike DEF LockClaims
  <2> HIDE DEF c
  <2>2. Alike(impl, i)
    BY <2>1 DEF Alike, Fields
  <2> HIDE DEF i
  <2>3. DOMAIN i = Fields
    BY <2>2 DEF Alike
  <2>4. Alike(i, Claim(i, "wr_close", i.wr_close))
    BY <2>3, ClaimAlike DEF LockClaims
  <2> QED BY <2>2, <2>4, AlikeTransitive
<1>7. CASE impl' = TryLock(w, "wr_block", "read", "pong_send", "pong_wait")
  <2>1. impl.rd_block = "read" /\ impl.wr_block # "read" /\ impl.at \in [Ops -> Labels]
    BY <1>1 DEF LockInv, LabelsInv, ReadInv, WriteInv, ReadReads, ReadWrites
  <2>2. k = [impl EXCEPT !["rd_block"] = "none"]
    BY <1>1, <2>1, Unlocks
  <2>3. Alike([impl EXCEPT !.rd_block = "none"], k) /\ DOMAIN k = Fields
    BY <1>1, <2>2 DEF Alike, Fields
  <2>4. k.rd_block = "none" /\ k.at = impl.at /\ k.wr_block = impl.wr_block
    BY <1>1, <2>2 DEF Fields
  <2> HIDE DEF k
  <2>5. \/ k.at.close # "wait_rd" /\ w = k
        \/ k.at.close = "wait_rd" /\ Moved([k EXCEPT !.rd_block = "close"], w, "close", "got_rd")
    BY <2>3, <2>4, WakesReader
  <2>6. DOMAIN w = Fields /\ w.wr_block = impl.wr_block
    BY <2>3, <2>4, <2>5 DEF Moved, Fields
  <2>7. w.at \in [Ops -> Labels]
    <3>1. "got_rd" \in Labels /\ "close" \in Ops
      BY DEF Labels, Ops
    <3> QED BY <2>1, <2>3, <2>4, <2>5, <3>1 DEF Moved, Fields
  <2> DEFINE v == w
             s == At(v, "read", "pong_wait")
  <2>8. /\ v = WakeReader(k, "close") /\ DOMAIN v = Fields /\ v.wr_block = impl.wr_block
        /\ v.at \in [Ops -> Labels]
        /\ impl' = TryLock(v, "wr_block", "read", "pong_send", "pong_wait")
    BY <1>7, <2>6, <2>7
  <2> HIDE DEF v
  <2>9. Moved(v, s, "read", "pong_wait")
    BY <2>8, AtMoves
  <2>10. "pong_wait" \in OpLabels("read") /\ "pong_wait" \notin ReadReads \cup ReadWrites
    BY DEF OpLabels, ReadLabels, ReadReads, ReadWrites
  <2>11. impl.at.read \notin ReadWrites
    BY <1>1 DEF ReadWrites
  <2> HIDE DEF s
  <2>12. LockInv(s) /\ v.rd_block # "read"
    BY <1>1, <2>1, <2>3, <2>8, <2>9, <2>10, <2>11, GiveReadKeeps
  <2>13. \/ /\ v.wr_block = "none"
            /\ Moved([v EXCEPT !.wr_block = "read"], impl', "read", "pong_send")
         \/ v.wr_block # "none" /\ Moved(v, impl', "read", "pong_wait")
    BY <2>1, <2>8, TriesWrite
  <2>14. CASE v.wr_block # "none" /\ Moved(v, impl', "read", "pong_wait")
    <3>1. Alike(s, impl')
      BY <2>9, <2>14 DEF Moved, Alike
    <3> QED BY <2>12, <3>1, AlikeKeeps DEF IInv
  <2>15. CASE /\ v.wr_block = "none"
              /\ Moved([v EXCEPT !.wr_block = "read"], impl', "read", "pong_send")
    <3>1. /\ impl'.at = [v.at EXCEPT !["read"] = "pong_send"]
          /\ s.at = [v.at EXCEPT !["read"] = "pong_wait"]
          /\ DOMAIN s = Fields
      BY <2>8, <2>9, <2>15 DEF Moved, Fields
    <3>2. impl'.at = [s.at EXCEPT !["read"] = "pong_send"]
      BY <2>8, <3>1
    <3>3. Moved([s EXCEPT !.wr_block = "read"], impl', "read", "pong_send")
      BY <2>8, <2>9, <2>15, <3>1, <3>2 DEF Moved, Fields
    <3>4. s.wr_block = "none" /\ s.rd_block # "read"
      BY <2>9, <2>12, <2>15 DEF Moved
    <3>5. "read" \in Ops /\ "pong_send" \in OpLabels("read") /\ "pong_send" \in ReadWrites \ ReadReads
      BY DEF Ops, OpLabels, ReadLabels, ReadReads, ReadWrites
    <3> QED BY <2>12, <3>3, <3>4, <3>5, TakeWriteKeeps DEF IInv
  <2> QED BY <2>13, <2>14, <2>15
<1> QED BY <1>2, <1>4, <1>5, <1>6, <1>7

LEMMA PongGrantedKeeps ==
  ASSUME IInv, PongGranted
  PROVE  IInv'
<1> DEFINE c == [impl EXCEPT !.cont = TRUE]
           i == Claim(c, "wr_block", impl.wr_block = "read")
           n == At(i, "read", "pong_send")
<1>1. LockInv(impl) /\ impl.at.read = "pong_got" /\ impl' = CheckStop(i, "read", "ok", n)
  BY DEF IInv, PongGranted
<1>2. impl.wr_block = "read" /\ impl.rd_block # "read" /\ "read" \in Ops
  BY <1>1 DEF LockInv, WriteInv, ReadInv, ReadReads, ReadWrites, Ops
<1>3. LockInv(c) /\ c.at.read = "pong_got" /\ c.wr_block = "read" /\ c.rd_block # "read"
  BY <1>1, <1>2, Arrived, AlikeKeeps DEF Alike, LockInv
<1> HIDE DEF c
<1>4. Alike(c, i)
  BY <1>2, <1>3, ClaimAlike DEF LockInv
<1> HIDE DEF i
<1>5. /\ LockInv(i) /\ i.at.read = "pong_got" /\ i.wr_block = "read" /\ i.rd_block # "read"
      /\ DOMAIN i = Fields
  BY <1>3, <1>4, AlikeKeeps DEF Alike
<1>6. Moved(i, n, "read", "pong_send")
  BY <1>5, AtMoves
<1> HIDE DEF n
<1>7. "pong_send" \in OpLabels("read") /\ "pong_send" \in ReadWrites \ ReadReads
  BY DEF OpLabels, ReadLabels, ReadReads, ReadWrites
<1>8. LockInv(n)
  BY <1>2, <1>5, <1>6, <1>7, MoveKeeps
<1> QED BY <1>1, <1>2, <1>5, <1>8, CheckedKeeps DEF IInv

(* wr_block is given up, and who waits for it gets it.                     *)
LEMMA GiveWriteWakes ==
  ASSUME NEW i, NEW k, NEW o \in Ops, NEW l, NEW order \in Orders, LockInv(i), i.wr_block = o,
         i.at[o] \notin WrWaits,
         DOMAIN k = Fields, k.at = i.at, k.wr_block = "none", k.rd_block = i.rd_block,
         k.failed \cap LockClaims = i.failed \cap LockClaims,
         k.idle_pinging = IF o = "idle" THEN FALSE ELSE i.idle_pinging,
         l \in {"off", "wait_wr", "acquire"} \cap OpLabels(o),
         o = "idle" => l = "off",
         o \in {"read", "close"} => i.rd_block # o
  PROVE  /\ LockInv(At(Wake(k, order), o, l))
         /\ DOMAIN Wake(k, order) = Fields
         /\ Wake(k, order).wr_block = "none" => Wake(k, order) = k
<1> DEFINE w == Wake(k, order)
           m == At(k, o, l)
           j == At(w, o, l)
<1>1. i.at \in [Ops -> Labels] /\ "none" \notin Ops
  BY DEF LockInv, LabelsInv, Ops
<1>2. Moved(k, m, o, l)
  BY AtMoves
<1> HIDE DEF m
<1>3. LockInv(m)
  BY <1>2, GiveWriteKeeps DEF Moved
<1>4. \/ w = k
      \/ \E p \in Ops : Moved([k EXCEPT !.wr_block = p], w, p, Granted[k.at[p]])
  BY Wakes
<1> HIDE DEF w
<1>5. DOMAIN w = Fields /\ (w.wr_block = "none" => w = k)
  BY <1>1, <1>4, ZenonT(60) DEF Moved, Fields
<1>6. Moved(w, j, o, l)
  BY <1>5, AtMoves
<1> HIDE DEF j
<1>7. Moved(Wake(k, order), j, o, l)
  BY <1>6 DEF w
<1>8. LockInv(j)
  BY <1>1, <1>2, <1>3, <1>7, WakeKeeps
<1> QED BY <1>5, <1>8 DEF w, j

LEMMA PongSentKeeps ==
  ASSUME IInv, PongSent
  PROVE  IInv'
<1> DEFINE c == [impl EXCEPT !.cont = TRUE]
           i == Claim(c, "wr_block", impl.wr_block = "read")
           k == Unlock(i, "wr_block", "read")
           n == At(Wake(k, AfterRead), "read", "acquire")
<1>1. LockInv(impl) /\ impl.at.read = "pong_send"
  BY DEF IInv, PongSent
<1>2. PICK ec : impl' = CheckStop(i, "read", ec, n)
  BY DEF PongSent
<1>3. impl.wr_block = "read" /\ impl.rd_block # "read" /\ "read" \in Ops
  BY <1>1 DEF LockInv, WriteInv, ReadInv, ReadReads, ReadWrites, Ops
<1>4. LockInv(c) /\ c.at.read = "pong_send" /\ c.wr_block = "read" /\ c.rd_block # "read"
  BY <1>1, <1>3, Arrived, AlikeKeeps DEF Alike, LockInv
<1> HIDE DEF c
<1>5. Alike(c, i)
  BY <1>3, <1>4, ClaimAlike DEF LockInv
<1> HIDE DEF i
<1>6. /\ LockInv(i) /\ i.at.read = "pong_send" /\ i.wr_block = "read" /\ i.rd_block # "read"
      /\ DOMAIN i = Fields
  BY <1>4, <1>5, AlikeKeeps DEF Alike
<1>7. k = [i EXCEPT !["wr_block"] = "none"]
  BY <1>6, Unlocks
<1>8. /\ DOMAIN k = Fields /\ k.at = i.at /\ k.wr_block = "none" /\ k.rd_block = i.rd_block
      /\ k.failed = i.failed /\ k.idle_pinging = i.idle_pinging
  BY <1>6, <1>7 DEF Fields
<1> HIDE DEF k
<1>9. "acquire" \in OpLabels("read") /\ AfterRead \in Orders /\ i.at.read \notin WrWaits
  BY <1>6 DEF OpLabels, ReadLabels, Orders, WrWaits, Granted
<1>10. LockInv(n)
  BY <1>3, <1>6, <1>8, <1>9, GiveWriteWakes
<1> HIDE DEF n
<1> QED BY <1>2, <1>3, <1>6, <1>10, CheckedKeeps DEF IInv

LEMMA ReadPayloadKeeps ==
  ASSUME IInv, ReadPayload
  PROVE  IInv'
<1> DEFINE n == Copied(impl)
           i == [impl EXCEPT !.rd_remain = @ - n]
           x == Consume(i, n)
           y == [x EXCEPT !.rd_done = i.rd_remain = 0 /\ i.rd_fin]
           z == Claim(y, "rd_done", ~impl.rd_done)
           b == [i EXCEPT !.frame = "bad_payload"]
<1>1. LockInv(impl) /\ DOMAIN impl = Fields /\ impl.at.read = "payload" /\ "read" \in Ops
  BY DEF IInv, LockInv, ReadPayload, Ops
<1>2. \/ impl' = At(impl, "read", "fill")
      \/ impl' = At(b, "read", "fail")
      \/ impl' = ToUpcall(z, "read", "ok")
  BY DEF ReadPayload
<1> HIDE DEF n
<1>3. Alike(impl, i)
  BY <1>1 DEF Alike, Fields
<1> HIDE DEF i
<1>4. Alike(i, b) /\ Alike(i, x)
  BY <1>3, Others DEF Alike, Fields
<1> HIDE DEF x
<1>5. Alike(x, y)
  BY <1>4 DEF Alike, Fields
<1> HIDE DEF y
<1>6. Alike(y, z)
  BY <1>5, ClaimAlike DEF Alike, LockClaims
<1> HIDE DEF z, b
<1>7. Alike(impl, b) /\ Alike(impl, z)
  BY <1>3, <1>4, <1>5, <1>6, AlikeTransitive
<1>8. {"payload", "fill", "fail"} \subseteq ReadReads \ ReadWrites
  BY DEF ReadReads, ReadWrites
<1>9. CASE impl' = At(impl, "read", "fill")
  BY <1>1, <1>8, <1>9, AtMoves, ReadMoves DEF IInv
<1>10. CASE impl' = At(b, "read", "fail")
  <2>1. Moved(impl, impl', "read", "fail")
    BY <1>7, <1>10, AtMoves, AlikeMoved DEF Alike
  <2> QED BY <1>1, <1>8, <2>1, ReadMoves DEF IInv
<1>11. CASE impl' = ToUpcall(z, "read", "ok")
  <2>1. Moved(impl, impl', "read", "upcall")
    BY <1>7, <1>11, ToUpcallMoves, AlikeMoved DEF Alike
  <2> QED BY <1>1, <2>1, FailKeeps DEF IInv
<1> QED BY <1>2, <1>9, <1>10, <1>11

LEMMA ReadFillKeeps ==
  ASSUME IInv, ReadFill
  PROVE  IInv'
<1>1. LockInv(impl) /\ DOMAIN impl = Fields /\ impl.at.read = "fill" /\ "read" \in Ops
  BY DEF IInv, LockInv, ReadFill, Ops
<1>2. CASE \E ec \in Errors :
             impl' = CheckStop([impl EXCEPT !.cont = TRUE], "read", ec, impl)
  <2> DEFINE c == [impl EXCEPT !.cont = TRUE]
  <2>1. LockInv(c) /\ c.at.read = "fill"
    BY <1>1, Arrived, AlikeKeeps DEF Alike
  <2> HIDE DEF c
  <2>2. PICK ec \in Errors : impl' = CheckStop(c, "read", ec, impl)
    BY <1>2 DEF c
  <2> QED BY <1>1, <2>1, <2>2, CheckedKeeps DEF IInv
<1>3. ASSUME NEW n \in 1 .. Len(net.in),
             impl' = LET i == [Commit(n) EXCEPT !.cont = TRUE]
                     IN  CheckStop(i, "read", "ok", At(ResetIdle(i), "read", "payload"))
      PROVE  IInv'
  <2> DEFINE i == [Commit(n) EXCEPT !.cont = TRUE]
             r == ResetIdle(i)
             a == At(r, "read", "payload")
  <2>1. impl' = CheckStop(i, "read", "ok", a)
    BY <1>3
  <2>2. LockInv(i) /\ i.at.read = "fill" /\ DOMAIN i = Fields
    BY <1>1, Arrived, AlikeKeeps DEF Alike
  <2> HIDE DEF i
  <2>3. Alike(i, r)
    BY <2>2, Others
  <2> HIDE DEF r
  <2>4. Moved(i, a, "read", "payload")
    BY <2>3, AtMoves, AlikeMoved DEF Alike
  <2> HIDE DEF a
  <2>5. LockInv(a)
    BY <2>2, <2>4, ReadMoves DEF ReadReads, ReadWrites
  <2> QED BY <1>1, <2>1, <2>2, <2>5, CheckedKeeps DEF IInv
<1> QED BY <1>2, <1>3 DEF ReadFill

LEMMA ReadFailKeeps ==
  ASSUME IInv, ReadFail
  PROVE  IInv'
<1>1. /\ LockInv(impl) /\ DOMAIN impl = Fields /\ impl.at.read = "fail" /\ "read" \in Ops
      /\ impl' = TryLock(impl, "wr_block", "read", "closing", "fail_wait")
  BY DEF IInv, LockInv, ReadFail, Ops
<1>2. impl.rd_block = "read" /\ impl.wr_block # "read"
  BY <1>1 DEF LockInv, WriteInv, ReadInv, ReadReads, ReadWrites
<1>3. \/ /\ impl.wr_block = "none"
         /\ Moved([impl EXCEPT !.wr_block = "read"], impl', "read", "closing")
      \/ Moved(impl, impl', "read", "fail_wait")
  BY <1>1, <1>2, TriesWrite
<1>4. /\ "closing" \in OpLabels("read") /\ "closing" \in ReadReads \cap ReadWrites
      /\ {"fail", "fail_wait"} \subseteq ReadReads \ ReadWrites
  BY DEF OpLabels, ReadLabels, ReadReads, ReadWrites
<1>5. CASE Moved(impl, impl', "read", "fail_wait")
  BY <1>1, <1>4, <1>5, ReadMoves DEF IInv
<1>6. CASE /\ impl.wr_block = "none"
           /\ Moved([impl EXCEPT !.wr_block = "read"], impl', "read", "closing")
  BY <1>1, <1>2, <1>4, <1>6, TakeWriteKeeps DEF IInv
<1> QED BY <1>3, <1>5, <1>6

(* From one step of the closing of a failed read to the next.              *)
LEMMA ClosingMoves ==
  ASSUME NEW i, NEW j, NEW l \in {"closing", "close_send", "teardown"}, LockInv(i),
         Moved(i, j, "read", l), i.at.read \in {"fail_got", "closing", "close_send"}
  PROVE  LockInv(j)
<1>1. i.wr_block = "read" /\ i.rd_block = "read"
  BY DEF LockInv, WriteInv, ReadInv, ReadReads, ReadWrites
<1>2. /\ "read" \in Ops /\ l \in OpLabels("read") /\ l \in ReadWrites
      /\ l \in ReadReads \cup {"teardown", "upcall"}
  BY DEF Ops, OpLabels, ReadLabels, ReadReads, ReadWrites
<1> QED BY <1>1, <1>2, MoveKeeps

LEMMA FailGrantedKeeps ==
  ASSUME IInv, FailGranted
  PROVE  IInv'
<1> DEFINE c == [impl EXCEPT !.cont = TRUE]
           i == Claim(c, "wr_block", impl.wr_block = "read")
           n == At(i, "read", "closing")
<1>1. LockInv(impl) /\ impl.at.read = "fail_got" /\ impl' = CheckStop(i, "read", "ok", n)
  BY DEF IInv, FailGranted
<1>2. impl.wr_block = "read" /\ "read" \in Ops
  BY <1>1 DEF LockInv, WriteInv, ReadWrites, Ops
<1>3. LockInv(c) /\ c.at.read = "fail_got"
  BY <1>1, Arrived, AlikeKeeps DEF Alike, LockInv
<1> HIDE DEF c
<1>4. Alike(c, i)
  BY <1>2, <1>3, ClaimAlike DEF LockInv
<1> HIDE DEF i
<1>5. LockInv(i) /\ i.at.read = "fail_got" /\ DOMAIN i = Fields
  BY <1>3, <1>4, AlikeKeeps DEF Alike
<1>6. Moved(i, n, "read", "closing")
  BY <1>5, AtMoves
<1> HIDE DEF n
<1>7. LockInv(n)
  BY <1>5, <1>6, ClosingMoves
<1> QED BY <1>1, <1>2, <1>5, <1>7, CheckedKeeps DEF IInv

LEMMA ReadClosingKeeps ==
  ASSUME IInv, ReadClosing
  PROVE  IInv'
<1>1. LockInv(impl) /\ DOMAIN impl = Fields /\ impl.at.read = "closing"
  BY DEF IInv, LockInv, ReadClosing
<1>2. PICK l \in {"teardown", "close_send"} :
        impl' = [At(impl, "read", l) EXCEPT !.status = "closing", !.wr_close = TRUE]
  BY DEF ReadClosing
<1> DEFINE a == At(impl, "read", l)
<1>3. Moved(impl, a, "read", l)
  BY <1>1, AtMoves
<1>4. impl' = [a EXCEPT !.status = "closing", !.wr_close = TRUE]
  BY <1>2
<1> HIDE DEF a
<1>5. Moved(impl, impl', "read", l)
  BY <1>3, <1>4 DEF Moved, Fields
<1> QED BY <1>1, <1>5, ClosingMoves DEF IInv

LEMMA CloseSentKeeps ==
  ASSUME IInv, CloseSent
  PROVE  IInv'
<1> DEFINE i == Claim(impl, "wr_block", impl.wr_block = "read")
           n == At(i, "read", "teardown")
<1>1. LockInv(impl) /\ impl.at.read = "close_send" /\ DOMAIN impl = Fields /\ "read" \in Ops
  BY DEF IInv, LockInv, CloseSent, Ops
<1>2. PICK ec : impl' = CheckStop(i, "read", ec, n)
  BY DEF CloseSent
<1>3. impl.wr_block = "read"
  BY <1>1 DEF LockInv, WriteInv, ReadWrites
<1>4. Alike(impl, i)
  BY <1>1, <1>3, ClaimAlike
<1> HIDE DEF i
<1>5. LockInv(i) /\ i.at.read = "close_send" /\ DOMAIN i = Fields
  BY <1>1, <1>4, AlikeKeeps DEF Alike
<1>6. Moved(i, n, "read", "teardown")
  BY <1>5, AtMoves
<1> HIDE DEF n
<1>7. LockInv(n)
  BY <1>5, <1>6, ClosingMoves
<1> QED BY <1>1, <1>2, <1>5, <1>7, CheckedKeeps DEF IInv

LEMMA ReadTornDownKeeps ==
  ASSUME IInv, ReadTornDown
  PROVE  IInv'
<1>1. /\ LockInv(impl) /\ impl.at.read = "teardown" /\ DOMAIN impl = Fields /\ "read" \in Ops
  BY DEF IInv, LockInv, ReadTornDown, Ops
<1>2. PICK ec, result : impl' = Ended(impl, "read", ec, result)
  BY DEF ReadTornDown
<1>3. impl.wr_block = "read"
  BY <1>1 DEF LockInv, WriteInv, ReadWrites
<1>4. Moved(impl, impl', "read", "upcall")
  BY <1>1, <1>2, <1>3, EndedMoves
<1> QED BY <1>1, <1>4, FailKeeps DEF IInv

------------------------------------------------------------------------------
(* An operation begins with the write block, or waits for it.              *)
LEMMA StartKeeps ==
  ASSUME NEW i, NEW j, NEW o \in {"close", "write", "ping"}, LockInv(i), i.at[o] = "off",
         j = TryLock(i, "wr_block", o, "begin", "wait_wr")
  PROVE  LockInv(j)
<1>1. /\ DOMAIN i = Fields /\ o \in Ops /\ {"begin", "wait_wr"} \subseteq OpLabels(o)
      /\ i.wr_block # o
  BY DEF LockInv, WriteInv, Ops, OpLabels, CloseLabels, SendLabels
<1>2. \/ i.wr_block = "none" /\ Moved([i EXCEPT !.wr_block = o], j, o, "begin")
      \/ Moved(i, j, o, "wait_wr")
  BY <1>1, TriesWrite
<1>3. o = "close" => i.rd_block # "close"
  BY DEF LockInv, ReadInv, CloseReads
<1>4. CASE Moved(i, j, o, "wait_wr")
  BY <1>1, <1>3, <1>4, MoveKeeps DEF CloseReads
<1>5. CASE i.wr_block = "none" /\ Moved([i EXCEPT !.wr_block = o], j, o, "begin")
  BY <1>1, <1>3, <1>5, TakeWriteKeeps
<1> QED BY <1>2, <1>4, <1>5

LEMMA CloseStartKeeps ==
  ASSUME IInv, CloseStart
  PROVE  IInv'
BY StartKeeps DEF IInv, CloseStart

LEMMA CloseBeginKeeps ==
  ASSUME IInv, CloseBegin
  PROVE  IInv'
<1> DEFINE c == Claim(impl, "wr_close", ~impl.wr_close)
           i == [c EXCEPT !.wr_close = TRUE, !.status = "closing"]
           u == UpdateTimer(i)
           n == At(u, "close", "send")
<1>1. /\ LockInv(impl) /\ DOMAIN impl = Fields /\ impl.at.close \in {"begin", "got_wr"}
      /\ "close" \in Ops
      /\ impl' = CheckStop(impl, "close", "ok", n)
  BY DEF IInv, LockInv, CloseBegin, Ops
<1>2. impl.wr_block = "close" /\ impl.rd_block # "close"
  BY <1>1 DEF LockInv, WriteInv, ReadInv, CloseReads
<1>3. Alike(impl, c)
  BY <1>1, ClaimAlike DEF LockClaims
<1> HIDE DEF c
<1>4. Alike(impl, i)
  BY <1>3 DEF Alike, Fields
<1> HIDE DEF i
<1>5. Alike(impl, u)
  BY <1>4, Others, AlikeTransitive DEF Alike
<1> HIDE DEF u
<1>6. Moved(impl, n, "close", "send")
  BY <1>5, AtMoves, AlikeMoved DEF Alike
<1> HIDE DEF n
<1>7. "send" \in OpLabels("close") /\ "send" \notin CloseReads
  BY DEF OpLabels, CloseLabels, SendLabels, CloseReads
<1>8. LockInv(n)
  BY <1>1, <1>2, <1>6, <1>7, MoveKeeps
<1> QED BY <1>1, <1>8, CheckedKeeps DEF IInv

LEMMA CloseFrameSentKeeps ==
  ASSUME IInv, CloseFrameSent
  PROVE  IInv'
<1> DEFINE a == At(impl, "close", "teardown")
           j == TryLock(impl, "rd_block", "close", "discard", "wait_rd")
<1>1. /\ LockInv(impl) /\ DOMAIN impl = Fields /\ impl.at.close = "send" /\ "close" \in Ops
  BY DEF IInv, LockInv, CloseFrameSent, Ops
<1>2. PICK ec : impl' = CheckStop(impl, "close", ec, IF impl.rd_close THEN a ELSE j)
  BY DEF CloseFrameSent
<1>3. impl.wr_block = "close" /\ impl.rd_block # "close" /\ impl.rd_block \in {"none", "read"}
  BY <1>1 DEF LockInv, WriteInv, ReadInv, CloseReads
<1>4. {"teardown", "discard", "wait_rd"} \subseteq OpLabels("close") /\ {"discard", "wait_rd"} \subseteq Labels
  BY DEF OpLabels, CloseLabels, Labels, Running
<1>5. LockInv(a)
  <2>1. Moved(impl, a, "close", "teardown")
    BY <1>1, AtMoves
  <2> HIDE DEF a
  <2> QED BY <1>1, <1>3, <1>4, <2>1, MoveKeeps DEF CloseReads
<1>6. LockInv(j)
  <2>1. \/ impl.rd_block = "none" /\ Moved([impl EXCEPT !.rd_block = "close"], j, "close", "discard")
        \/ impl.rd_block # "none" /\ Moved(impl, j, "close", "wait_rd")
    BY <1>1, <1>3, TriesRead
  <2> HIDE DEF j
  <2>2. CASE impl.rd_block # "none" /\ Moved(impl, j, "close", "wait_rd")
    BY <1>1, <1>3, <1>4, <2>2, MoveKeeps DEF CloseReads
  <2>3. CASE impl.rd_block = "none" /\ Moved([impl EXCEPT !.rd_block = "close"], j, "close", "discard")
    <3>1. /\ j.at = [impl.at EXCEPT !["close"] = "discard"] /\ j.rd_block = "close"
          /\ j.wr_block = impl.wr_block /\ DOMAIN j = Fields /\ j.idle_pinging = impl.idle_pinging
          /\ j.failed \cap LockClaims = impl.failed \cap LockClaims
      BY <1>1, <2>3 DEF Moved, Fields
    <3>2. impl.at \in [Ops -> Labels] /\ "read" \in Ops /\ "idle" \in Ops
      BY <1>1 DEF LockInv, LabelsInv, Ops
    <3>3. j.at.close = "discard" /\ \A q \in Ops \ {"close"} : j.at[q] = impl.at[q]
      BY <1>1, <1>4, <3>1, <3>2
    <3>4. LabelsInv(j.at)
      BY <1>1, <1>4, <3>1, <3>2, <3>3 DEF LockInv, LabelsInv
    <3>5. WriteInv(j.at, j.wr_block)
      BY <1>1, <1>3, <1>4, <3>1, <3>2, <3>3 DEF LockInv, WriteInv
    <3>6. ReadInv(j.at, j.rd_block)
      BY <1>1, <2>3, <3>1, <3>2, <3>3 DEF LockInv, ReadInv, CloseReads
    <3>7. j.idle_pinging <=> j.at.idle # "off"
      BY <1>1, <3>1, <3>2, <3>3 DEF LockInv
    <3> QED BY <1>1, <3>1, <3>4, <3>5, <3>6, <3>7 DEF LockInv
  <2> QED BY <2>1, <2>2, <2>3
<1> HIDE DEF a, j
<1>7. LockInv(IF impl.rd_close THEN a ELSE j)
  BY <1>5, <1>6
<1> QED BY <1>1, <1>2, <1>7, CheckedKeeps DEF IInv

(* A close that reads on, or ends to read.                                 *)
LEMMA CloseMoves ==
  ASSUME NEW i, NEW j, NEW l \in {"discard", "more", "teardown"}, LockInv(i),
         Moved(i, j, "close", l), i.at.close \in CloseReads
  PROVE  LockInv(j)
<1>1. i.wr_block = "close" /\ i.rd_block = "close"
  BY DEF LockInv, WriteInv, ReadInv, CloseReads, Ops
<1>2. "close" \in Ops /\ l \in OpLabels("close") /\ l \in CloseReads \cup {"teardown"}
  BY DEF Ops, OpLabels, CloseLabels, CloseReads
<1> QED BY <1>1, <1>2, MoveKeeps

LEMMA CloseGrantedReadKeeps ==
  ASSUME IInv, CloseGrantedRead
  PROVE  IInv'
<1> DEFINE i == Claim(impl, "rd_block", impl.rd_block = "close")
           d == Claim(i, "rd_close", ~i.rd_close)
           n == At(d, "close", "discard")
<1>1. /\ LockInv(impl) /\ DOMAIN impl = Fields /\ impl.at.close = "got_rd" /\ "close" \in Ops
      /\ impl' = CheckStop(i, "close", "ok", n)
  BY DEF IInv, LockInv, CloseGrantedRead, Ops
<1>2. impl.rd_block = "close"
  BY <1>1 DEF LockInv, ReadInv, CloseReads
<1>3. Alike(impl, i)
  BY <1>1, <1>2, ClaimAlike
<1> HIDE DEF i
<1>4. LockInv(i) /\ i.at.close = "got_rd" /\ DOMAIN i = Fields
  BY <1>1, <1>3, AlikeKeeps DEF Alike
<1>5. Alike(i, d)
  BY <1>4, ClaimAlike DEF LockClaims
<1> HIDE DEF d
<1>6. Moved(i, n, "close", "discard")
  BY <1>5, AtMoves, AlikeMoved DEF Alike
<1> HIDE DEF n
<1>7. LockInv(n)
  BY <1>4, <1>6, CloseMoves DEF CloseReads
<1> QED BY <1>1, <1>4, <1>7, CheckedKeeps DEF IInv

LEMMA CloseDiscardKeeps ==
  ASSUME IInv, CloseDiscard
  PROVE  IInv'
<1> DEFINE u == impl.rd_buf[1]
           n == TheLesser(impl.rd_remain, Len(impl.rd_buf))
           i == ParseHeader(impl, u)
           x == Consume(impl, n)
           y == [x EXCEPT !.rd_remain = @ - n]
           c == Claim(i, "rd_close", ~i.rd_close)
           d == [c EXCEPT !.rd_close = TRUE]
<1>1. LockInv(impl) /\ DOMAIN impl = Fields /\ impl.at.close = "discard"
  BY DEF IInv, LockInv, CloseDiscard
<1>2. \/ impl' = At(y, "close", "more")
      \/ impl' = At(y, "close", "discard")
      \/ impl' = At(impl, "close", "more")
      \/ \E ec : impl' = ToTeardown(impl, ec)
      \/ \E ec : impl' = ToTeardown(d, ec)
      \/ impl' = i
  BY DEF CloseDiscard
<1> HIDE DEF n, u
<1>3. Alike(impl, i) /\ Alike(impl, x) /\ Alike(impl, impl)
  BY <1>1, Others DEF Alike
<1> HIDE DEF i, x
<1>4. Alike(impl, y)
  BY <1>3 DEF Alike, Fields
<1> HIDE DEF y
<1>5. Alike(i, c)
  BY <1>3, ClaimAlike DEF Alike, LockClaims
<1> HIDE DEF c
<1>6. Alike(impl, d)
  BY <1>3, <1>5 DEF Alike, Fields
<1> HIDE DEF d
<1>7. ASSUME NEW k, Alike(impl, k), NEW l \in {"discard", "more", "teardown"},
             impl' = At(k, "close", l)
      PROVE  IInv'
  <2>1. Moved(impl, impl', "close", l)
    BY <1>7, AtMoves, AlikeMoved DEF Alike
  <2> QED BY <1>1, <2>1, CloseMoves DEF IInv, CloseReads
<1>8. ASSUME NEW k, Alike(impl, k), NEW ec, impl' = ToTeardown(k, ec)
      PROVE  IInv'
  <2> DEFINE e == [k EXCEPT !.ec.close = ec]
  <2>1. Alike(impl, e)
    BY <1>8 DEF Alike, Fields
  <2>2. impl' = At(e, "close", "teardown")
    BY <1>8 DEF ToTeardown
  <2> HIDE DEF e
  <2> QED BY <1>7, <2>1, <2>2
<1>9. CASE impl' = i
  BY <1>1, <1>3, <1>9, AlikeKeeps DEF IInv
<1> QED BY <1>2, <1>3, <1>4, <1>6, <1>7, <1>8, <1>9

LEMMA CloseMoreKeeps ==
  ASSUME IInv, CloseMore
  PROVE  IInv'
<1>1. LockInv(impl) /\ DOMAIN impl = Fields /\ impl.at.close = "more" /\ "close" \in Ops
  BY DEF IInv, LockInv, CloseMore, Ops
<1>2. CASE \E ec \in Errors : impl' = CheckStop(impl, "close", ec, impl)
  BY <1>1, <1>2, CheckedKeeps DEF IInv
<1>3. ASSUME NEW n \in 1 .. Len(net.in),
             impl' = LET i == Commit(n)
                     IN  CheckStop(i, "close", "ok", At(i, "close", "discard"))
      PROVE  IInv'
  <2> DEFINE i == Commit(n)
             a == At(i, "close", "discard")
  <2>1. impl' = CheckStop(i, "close", "ok", a)
    BY <1>3
  <2>2. LockInv(i) /\ i.at.close = "more" /\ DOMAIN i = Fields
    BY <1>1, Arrived, AlikeKeeps DEF Alike
  <2> HIDE DEF i
  <2>3. Moved(i, a, "close", "discard")
    BY <2>2, AtMoves
  <2> HIDE DEF a
  <2>4. LockInv(a)
    BY <2>2, <2>3, CloseMoves DEF CloseReads
  <2> QED BY <1>1, <2>1, <2>2, <2>4, CheckedKeeps DEF IInv
<1> QED BY <1>2, <1>3 DEF CloseMore

LEMMA CloseTornDownKeeps ==
  ASSUME IInv, CloseTornDown
  PROVE  IInv'
<1>1. LockInv(impl) /\ impl.at.close = "teardown" /\ DOMAIN impl = Fields /\ "close" \in Ops
  BY DEF IInv, LockInv, CloseTornDown, Ops
<1>2. PICK ec, result : impl' = Ended(impl, "close", ec, result)
  BY DEF CloseTornDown
<1>3. impl.wr_block = "close"
  BY <1>1 DEF LockInv, WriteInv
<1>4. Moved(impl, impl', "close", "upcall")
  BY <1>1, <1>2, <1>3, EndedMoves
<1> QED BY <1>1, <1>4, FailKeeps DEF IInv

------------------------------------------------------------------------------
(* The writes and the pings.                                               *)
LEMMA WriteStartKeeps ==
  ASSUME IInv, WriteStart
  PROVE  IInv'
<1> DEFINE i == [impl EXCEPT !.left = Head(hist.writes).pieces, !.how = Head(hist.writes).how,
                             !.fin = Head(hist.writes).fin,
                             !.op = IF impl.wr_cont THEN "cont" ELSE "text"]
<1>1. /\ LockInv(impl) /\ DOMAIN impl = Fields /\ impl.at.write = "off"
      /\ impl' = TryLock(i, "wr_block", "write", "begin", "wait_wr")
  BY DEF IInv, LockInv, WriteStart
<1>2. Alike(impl, i)
  BY <1>1 DEF Alike, Fields
<1> HIDE DEF i
<1>3. LockInv(i) /\ i.at.write = "off"
  BY <1>1, <1>2, AlikeKeeps DEF Alike
<1> QED BY <1>1, <1>3, StartKeeps DEF IInv

LEMMA PingStartKeeps ==
  ASSUME IInv, PingStart
  PROVE  IInv'
BY StartKeeps DEF IInv, PingStart

(* Under the write block.                                                  *)
LEMMA SendMoves ==
  ASSUME NEW i, NEW j, NEW o \in {"write", "ping", "idle"}, LockInv(i), Moved(i, j, o, "send"),
         i.at[o] \notin {"off", "wait_wr"}
  PROVE  LockInv(j)
<1>1. o \in Ops /\ "send" \in OpLabels(o)
  BY DEF Ops, OpLabels, SendLabels
<1>2. i.wr_block = o
  BY <1>1 DEF LockInv, WriteInv
<1> QED BY <1>1, <1>2, MoveKeeps

LEMMA SendBeginKeeps ==
  ASSUME IInv, NEW o \in {"write", "ping", "idle"}, SendBegin(o)
  PROVE  IInv'
<1> DEFINE i == Claim(impl, "wr_block", impl.wr_block = o)
           j == IF o = "write" THEN [i EXCEPT !.wr_cont = ~i.fin] ELSE i
           n == At(j, o, "send")
<1>1. LockInv(impl) /\ DOMAIN impl = Fields /\ o \in Ops
  BY DEF IInv, LockInv, Ops
<1>2. impl.at[o] \in {"begin", "got_wr"} /\ impl' = CheckStop(i, o, "ok", n)
  BY DEF SendBegin
<1>3. impl.wr_block = o
  BY <1>1, <1>2 DEF LockInv, WriteInv
<1>4. Alike(impl, i)
  BY <1>1, <1>3, ClaimAlike
<1> HIDE DEF i
<1>5. LockInv(i) /\ i.at[o] \in {"begin", "got_wr"} /\ DOMAIN i = Fields
  BY <1>1, <1>2, <1>4, AlikeKeeps DEF Alike
<1>6. Alike(i, j)
  BY <1>5 DEF Alike, Fields
<1> HIDE DEF j
<1>7. Moved(i, n, o, "send")
  BY <1>6, AtMoves, AlikeMoved DEF Alike
<1> HIDE DEF n
<1>8. LockInv(n)
  BY <1>5, <1>7, SendMoves
<1> QED BY <1>1, <1>2, <1>5, <1>8, CheckedKeeps DEF IInv

LEMMA ControlSentKeeps ==
  ASSUME IInv, NEW o \in {"ping", "idle"}, ControlSent(o)
  PROVE  IInv'
<1> DEFINE n == ToUpcall(impl, o, "ok")
<1>1. /\ LockInv(impl) /\ DOMAIN impl = Fields /\ impl.at[o] = "send" /\ o \in Ops
  BY DEF IInv, LockInv, ControlSent, Ops
<1>2. PICK ec : impl' = CheckStop(impl, o, ec, n)
  BY DEF ControlSent
<1>3. Moved(impl, n, o, "upcall")
  BY <1>1, ToUpcallMoves
<1> HIDE DEF n
<1>4. LockInv(n)
  BY <1>1, <1>3, FailKeeps
<1> QED BY <1>1, <1>2, <1>4, CheckedKeeps DEF IInv

LEMMA BetweenFramesKeeps ==
  ASSUME NEW i, LockInv(i), i.at.write = "send"
  PROVE  LockInv(BetweenFrames(i))
<1> DEFINE e == [i EXCEPT !.op = "cont"]
           k == Unlock(e, "wr_block", "write")
           w == Wake(k, AfterWrite)
           b == Lock(w, "wr_block", "write")
<1>1. BetweenFrames(i) = IF w.wr_block # "none" THEN At(w, "write", "wait_wr")
                         ELSE At(b, "write", "send")
  BY DEF BetweenFrames
<1>2. "write" \in Ops /\ i.wr_block = "write" /\ DOMAIN i = Fields
  BY DEF LockInv, WriteInv, Ops
<1>3. Alike(i, e)
  BY <1>2 DEF Alike, Fields
<1> HIDE DEF e
<1>4. k = [e EXCEPT !["wr_block"] = "none"]
  BY <1>2, <1>3, Unlocks DEF Alike
<1>5. /\ DOMAIN k = Fields /\ k.at = i.at /\ k.wr_block = "none" /\ k.rd_block = i.rd_block
      /\ k.failed \cap LockClaims = i.failed \cap LockClaims /\ k.idle_pinging = i.idle_pinging
  BY <1>3, <1>4 DEF Alike, Fields
<1> HIDE DEF k
<1>6. "wait_wr" \in OpLabels("write") /\ AfterWrite \in Orders /\ i.at.write \notin WrWaits
  BY DEF OpLabels, SendLabels, Orders, WrWaits, Granted
<1>7. LockInv(At(w, "write", "wait_wr")) /\ (w.wr_block = "none" => w = k)
  <2>1. k.idle_pinging = IF "write" = "idle" THEN FALSE ELSE i.idle_pinging
    BY <1>5
  <2>2. "wait_wr" \in {"off", "wait_wr", "acquire"} \cap OpLabels("write")
    BY <1>6
  <2>3. "write" \in {"read", "close"} => i.rd_block # "write"
    OBVIOUS
  <2>4. LockInv(At(Wake(k, AfterWrite), "write", "wait_wr"))
    BY <1>2, <1>5, <1>6, <2>1, <2>2, <2>3, GiveWriteWakes
  <2> DEFINE v == Wake(k, AfterWrite)
  <2>5. \/ v = k
        \/ \E p \in Ops : Moved([k EXCEPT !.wr_block = p], v, p, Granted[k.at[p]])
    BY <1>5, <1>6, Wakes
  <2> HIDE DEF v
  <2>6. v.wr_block = "none" => v = k
    BY <1>5, <2>5 DEF Moved, Fields, Ops
  <2> QED BY <2>4, <2>6 DEF v
<1> HIDE DEF w
<1>8. ASSUME w = k
      PROVE  LockInv(At(b, "write", "send"))
  <2>1. b = [k EXCEPT !["wr_block"] = "write"]
    BY <1>5, <1>8, Locks
  <2>2. Alike(i, b)
    BY <1>2, <1>5, <2>1 DEF Alike, Fields
  <2> HIDE DEF b
  <2> DEFINE a == At(b, "write", "send")
  <2>3. Moved(i, a, "write", "send")
    BY <2>2, AtMoves, AlikeMoved DEF Alike
  <2> HIDE DEF a
  <2>4. LockInv(a)
    BY <2>3, SendMoves
  <2> QED BY <2>4 DEF a
<1> QED BY <1>1, <1>7, <1>8

LEMMA PieceSentKeeps ==
  ASSUME IInv, PieceSent
  PROVE  IInv'
<1> DEFINE i == [impl EXCEPT !.left = @ - 1]
           u == ToUpcall(i, "write", "ok")
           f == BetweenFrames(i)
           e == [i EXCEPT !.op = "more"]
           a == At(e, "write", "send")
           n == CASE i.left = 0 -> u
                  [] i.left > 0 /\ i.how = "frames" -> f
                  [] OTHER -> a
<1>1. LockInv(impl) /\ DOMAIN impl = Fields /\ impl.at.write = "send" /\ "write" \in Ops
  BY DEF IInv, LockInv, PieceSent, Ops
<1>2. PICK ec : impl' = CheckStop(i, "write", ec, n)
  BY DEF PieceSent
<1>3. Alike(impl, i)
  BY <1>1 DEF Alike, Fields
<1> HIDE DEF i
<1>4. LockInv(i) /\ i.at.write = "send" /\ DOMAIN i = Fields
  BY <1>1, <1>3, AlikeKeeps DEF Alike
<1>5. LockInv(f)
  BY <1>4, BetweenFramesKeeps
<1>6. LockInv(u)
  <2>1. Moved(i, u, "write", "upcall")
    BY <1>4, ToUpcallMoves
  <2> HIDE DEF u
  <2> QED BY <1>1, <1>4, <2>1, FailKeeps
<1>7. LockInv(a)
  <2>1. Alike(i, e)
    BY <1>4 DEF Alike, Fields
  <2> HIDE DEF e
  <2>2. Moved(i, a, "write", "send")
    BY <2>1, AtMoves, AlikeMoved DEF Alike
  <2> HIDE DEF a
  <2> QED BY <1>4, <2>2, SendMoves
<1> HIDE DEF u, f, a
<1>8. LockInv(n)
  <2>1. n \in {u, f, a}
    OBVIOUS
  <2> HIDE DEF n
  <2> QED BY <1>5, <1>6, <1>7, <2>1
<1> HIDE DEF n
<1> QED BY <1>1, <1>2, <1>4, <1>8, CheckedKeeps DEF IInv

------------------------------------------------------------------------------
(* upcall: the read block goes to the one that waits for it.               *)
LEMMA GiveReadWakes ==
  ASSUME NEW i, NEW o \in {"read", "close"}, NEW p, p = IF o = "read" THEN "close" ELSE "read",
         LockInv(i), i.at[o] = "upcall", i.rd_block = o,
         NEW k, Alike([i EXCEPT !.rd_block = "none"], k)
  PROVE  LET w == WakeReader(k, p)
         IN  LockInv(w) /\ w.at[o] = "upcall" /\ w.rd_block # o /\ w.wr_block = i.wr_block
<1> DEFINE w == WakeReader(k, p)
           s == At(w, o, "upcall")
<1>1. /\ DOMAIN i = Fields /\ i.at \in [Ops -> Labels] /\ o \in Ops /\ p \in Ops /\ p # o
      /\ "got_rd" \in Labels
  BY DEF LockInv, LabelsInv, Ops, Labels
<1>2. /\ DOMAIN k = Fields /\ k.at = i.at /\ k.rd_block = "none" /\ k.wr_block = i.wr_block
  BY <1>1 DEF Alike, Fields
<1>3. \/ w = k
      \/ Moved([k EXCEPT !.rd_block = p], w, p, "got_rd")
  BY <1>2, WakesReader
<1>4. w = WakeReader(k, p)
  OBVIOUS
<1> HIDE DEF w
<1>5. /\ DOMAIN w = Fields /\ w.wr_block = i.wr_block /\ w.at \in [Ops -> Labels]
      /\ w.at[o] = "upcall"
  BY <1>1, <1>2, <1>3 DEF Moved, Fields
<1>6. Moved(w, s, o, "upcall")
  BY <1>5, AtMoves
<1> HIDE DEF s
<1>7. "upcall" \in OpLabels(o) /\ "upcall" \notin ReadReads \cup ReadWrites
  BY DEF OpLabels, ReadLabels, CloseLabels, SendLabels, ReadReads, ReadWrites
<1>8. o = "read" => i.at.read \notin ReadWrites
  BY <1>7
<1>9. LockInv(s) /\ w.rd_block # o
  BY <1>4, <1>6, <1>7, <1>8, GiveReadKeeps
<1>10. s.at = w.at
  BY <1>1, <1>5, <1>6 DEF Moved
<1>11. Alike(s, w)
  BY <1>5, <1>6, <1>10 DEF Moved, Alike
<1>12. LockInv(w)
  BY <1>9, <1>11, AlikeKeeps
<1> QED BY <1>5, <1>9, <1>12 DEF w

LEMMA ReadReleased ==
  ASSUME LockInv(impl), impl.at.read = "upcall"
  PROVE  LockInv(At(Released("read"), "read", "off"))
<1> DEFINE i == IF impl.rd_block = "read" THEN Unlock(impl, "rd_block", "read") ELSE impl
           j == WakeReader(i, "close")
           k == Unlock(j, "wr_block", "read")
           r == IF j.wr_block = "read" THEN Wake(k, AfterRead) ELSE j
<1>1. Released("read") = r
  BY DEF Released
<1>2. DOMAIN impl = Fields /\ "read" \in Ops
  BY DEF LockInv, Ops
<1>3. LockInv(j) /\ j.at.read = "upcall" /\ j.rd_block # "read"
  <2>1. CASE impl.rd_block = "read"
    <3>1. i = [impl EXCEPT !["rd_block"] = "none"]
      BY <1>2, <2>1, Unlocks
    <3>2. Alike([impl EXCEPT !.rd_block = "none"], i)
      BY <1>2, <3>1 DEF Alike, Fields
    <3> HIDE DEF i
    <3> QED BY <2>1, <3>2, GiveReadWakes
  <2>2. CASE impl.rd_block # "read"
    <3>1. impl.at.close # "wait_rd"
      BY <2>2 DEF LockInv, ReadInv
    <3>2. j = impl
      BY <2>2, <3>1 DEF WakeReader
    <3> HIDE DEF j
    <3> QED BY <2>2, <3>2
  <2> QED BY <2>1, <2>2
<1> HIDE DEF j
<1>4. DOMAIN j = Fields
  BY <1>3 DEF LockInv
<1>5. "off" \in OpLabels("read") /\ AfterRead \in Orders /\ j.at.read \notin WrWaits
  BY <1>3 DEF OpLabels, ReadLabels, Orders, WrWaits, Granted
<1>6. CASE j.wr_block = "read"
  <2>1. k = [j EXCEPT !["wr_block"] = "none"]
    BY <1>4, <1>6, Unlocks
  <2>2. /\ DOMAIN k = Fields /\ k.at = j.at /\ k.wr_block = "none" /\ k.rd_block = j.rd_block
        /\ k.failed = j.failed /\ k.idle_pinging = j.idle_pinging
    BY <1>4, <2>1 DEF Fields
  <2> HIDE DEF k
  <2>3. LockInv(At(Wake(k, AfterRead), "read", "off"))
    BY <1>2, <1>3, <1>5, <1>6, <2>2, GiveWriteWakes
  <2> QED BY <1>1, <1>6, <2>3
<1>7. CASE j.wr_block # "read"
  <2> DEFINE a == At(j, "read", "off")
  <2>1. Moved(j, a, "read", "off")
    BY <1>4, AtMoves
  <2> HIDE DEF a
  <2>2. LockInv(a)
    BY <1>2, <1>3, <1>5, <1>7, <2>1, MoveKeeps DEF ReadReads, ReadWrites
  <2> QED BY <1>1, <1>7, <2>2 DEF a
<1> QED BY <1>6, <1>7

LEMMA CloseReleased ==
  ASSUME LockInv(impl), impl.at.close = "upcall"
  PROVE  LockInv(At(Released("close"), "close", "off"))
<1> DEFINE i == Unlock(impl, "wr_block", "close")
           u == Unlock(i, "rd_block", "close")
           j == IF i.rd_block = "close" THEN WakeReader(u, "read") ELSE i
           v == Unlock(impl, "rd_block", "close")
           p == IF impl.rd_block = "close" THEN WakeReader(v, "read") ELSE impl
<1>1. Released("close") = Wake(j, AfterClose)
  BY DEF Released
<1>2. DOMAIN impl = Fields /\ "close" \in Ops /\ impl.wr_block = "close"
  BY DEF LockInv, WriteInv, Ops
<1>3. LockInv(p) /\ p.at.close = "upcall" /\ p.rd_block # "close" /\ p.wr_block = "close"
  <2>1. CASE impl.rd_block = "close"
    <3>1. v = [impl EXCEPT !["rd_block"] = "none"]
      BY <1>2, <2>1, Unlocks
    <3>2. Alike([impl EXCEPT !.rd_block = "none"], v)
      BY <1>2, <3>1 DEF Alike, Fields
    <3> HIDE DEF v
    <3>3. /\ LockInv(WakeReader(v, "read")) /\ WakeReader(v, "read").at.close = "upcall"
          /\ WakeReader(v, "read").rd_block # "close"
          /\ WakeReader(v, "read").wr_block = impl.wr_block
      BY <2>1, <3>2, GiveReadWakes
    <3> QED BY <1>2, <2>1, <3>3
  <2>2. CASE impl.rd_block # "close"
    BY <1>2, <2>2
  <2> QED BY <2>1, <2>2
<1>4. i = [impl EXCEPT !["wr_block"] = "none"]
  BY <1>2, Unlocks
<1>5. DOMAIN i = Fields /\ i.wr_block = "none" /\ i.rd_block = impl.rd_block
  BY <1>2, <1>4 DEF Fields
<1>6. /\ DOMAIN j = Fields /\ j.at = p.at /\ j.wr_block = "none" /\ j.rd_block = p.rd_block
      /\ j.failed = p.failed /\ j.idle_pinging = p.idle_pinging
  <2>1. CASE impl.rd_block # "close"
    BY <1>2, <1>4, <1>5, <2>1 DEF Fields
  <2>2. CASE impl.rd_block = "close"
    <3>1. u = [i EXCEPT !["rd_block"] = "none"]
      BY <1>5, <2>2, Unlocks
    <3>2. v = [impl EXCEPT !["rd_block"] = "none"]
      BY <1>2, <2>2, Unlocks
    <3>3. u = [v EXCEPT !.wr_block = "none"] /\ DOMAIN v = Fields /\ v.rd_block = "none"
      BY <1>2, <1>4, <3>1, <3>2 DEF Fields
    <3>4. u.rd_block = "none" /\ DOMAIN u = Fields /\ u.at = v.at
      BY <3>3 DEF Fields
    <3>5. j = WakeReader(u, "read") /\ p = WakeReader(v, "read")
      BY <1>5, <2>2
    <3> HIDE DEF i, j, u, v, p
    <3>6. CASE v.at.read # "wait_rd"
      <4>1. j = u /\ p = v
        BY <3>4, <3>5, <3>6 DEF WakeReader
      <4> QED BY <3>3, <4>1 DEF Fields
    <3>7. CASE v.at.read = "wait_rd"
      <4>1. j = At([u EXCEPT !["rd_block"] = "read"], "read", "got_rd")
        BY <3>4, <3>5, <3>7, Locks DEF WakeReader
      <4>2. p = At([v EXCEPT !["rd_block"] = "read"], "read", "got_rd")
        BY <3>3, <3>5, <3>7, Locks DEF WakeReader
      <4> QED BY <3>3, <4>1, <4>2 DEF Fields, At
    <3> QED BY <3>6, <3>7
  <2> QED BY <2>1, <2>2
<1> HIDE DEF j, p
<1>7. "off" \in OpLabels("close") /\ AfterClose \in Orders /\ p.at.close \notin WrWaits
  BY <1>3 DEF OpLabels, CloseLabels, SendLabels, Orders, WrWaits, Granted
<1>8. LockInv(At(Wake(j, AfterClose), "close", "off"))
  BY <1>2, <1>3, <1>6, <1>7, GiveWriteWakes
<1> QED BY <1>1, <1>8

LEMMA SendReleased ==
  ASSUME LockInv(impl), NEW o \in {"write", "ping", "idle"}, impl.at[o] = "upcall"
  PROVE  LockInv(At(Released(o), o, "off"))
<1>1. /\ DOMAIN impl = Fields /\ o \in Ops /\ impl.wr_block = o
      /\ impl.failed \cap LockClaims = {}
      /\ (o = "idle" => impl.idle_pinging)
  BY DEF LockInv, WriteInv, Ops
<1>2. "off" \in OpLabels(o) /\ impl.at[o] \notin WrWaits
  BY DEF OpLabels, SendLabels, WrWaits, Granted
<1>3. CASE o # "idle"
  <2> DEFINE k == Unlock(impl, "wr_block", o)
  <2>1. k = [impl EXCEPT !["wr_block"] = "none"]
    BY <1>1, Unlocks
  <2>2. /\ DOMAIN k = Fields /\ k.at = impl.at /\ k.wr_block = "none"
        /\ k.rd_block = impl.rd_block /\ k.failed = impl.failed
        /\ k.idle_pinging = impl.idle_pinging
    BY <1>1, <2>1 DEF Fields
  <2>3. PICK order \in Orders : Released(o) = Wake(k, order)
    BY <1>3 DEF Released, Orders
  <2> HIDE DEF k
  <2>4. LockInv(At(Wake(k, order), o, "off"))
    BY <1>1, <1>2, <1>3, <2>2, GiveWriteWakes
  <2> QED BY <2>3, <2>4
<1>4. CASE o = "idle"
  <2> DEFINE c == Claim(impl, "idle_pinging", impl.idle_pinging)
             d == [c EXCEPT !.idle_pinging = FALSE]
             k == Unlock(d, "wr_block", o)
  <2>1. Alike(impl, c)
    BY <1>1, ClaimAlike DEF LockClaims
  <2> HIDE DEF c
  <2>2. DOMAIN d = Fields /\ d.wr_block = o
    BY <1>1, <2>1 DEF Alike, Fields
  <2>3. k = [d EXCEPT !["wr_block"] = "none"]
    BY <2>2, Unlocks
  <2>4. /\ DOMAIN k = Fields /\ k.at = impl.at /\ k.wr_block = "none"
        /\ k.rd_block = impl.rd_block
        /\ k.failed \cap LockClaims = impl.failed \cap LockClaims
        /\ k.idle_pinging = FALSE
    BY <1>1, <2>1, <2>2, <2>3, ZenonT(60) DEF Alike, Fields
  <2>5. Released(o) = Wake(k, AfterIdle) /\ AfterIdle \in Orders
    BY <1>4 DEF Released, Orders, c
  <2> HIDE DEF d, k
  <2>6. LockInv(At(Wake(k, AfterIdle), o, "off"))
    BY <1>1, <1>2, <1>4, <2>4, <2>5, GiveWriteWakes
  <2> QED BY <2>5, <2>6
<1> QED BY <1>3, <1>4

LEMMA UpcallKeeps ==
  ASSUME IInv, NEW o \in Ops, Upcall(o)
  PROVE  IInv'
<1> DEFINE a == At(Released(o), o, "off")
<1>1. LockInv(impl) /\ impl.at[o] = "upcall" /\ impl' = [a EXCEPT !.ec[o] = "ok"]
  BY DEF IInv, Upcall
<1>2. LockInv(a)
  BY <1>1, ReadReleased, CloseReleased, SendReleased DEF Ops
<1> HIDE DEF a
<1>3. Alike(a, impl')
  BY <1>1, <1>2 DEF Alike, LockInv, Fields
<1> QED BY <1>2, <1>3, AlikeKeeps DEF IInv

------------------------------------------------------------------------------
(* The timer: the ping of an idle connection begins like any other, except *)
(* that idle_pinging says so.                                              *)
LEMMA StartIdlePingKeeps ==
  ASSUME NEW i, LockInv(i)
  PROVE  LockInv(StartIdlePing(i))
<1> DEFINE d == [i EXCEPT !.idle_pinging = TRUE]
           j == TryLock(d, "wr_block", "idle", "begin", "wait_wr")
<1>1. StartIdlePing(i) = IF i.idle_pinging THEN i ELSE j
  BY DEF StartIdlePing
<1>2. CASE i.idle_pinging
  BY <1>1, <1>2
<1>3. CASE ~i.idle_pinging
  <2>1. /\ DOMAIN i = Fields /\ i.at \in [Ops -> Labels] /\ i.at.idle = "off" /\ i.wr_block # "idle"
        /\ {"idle", "read", "close"} \subseteq Ops /\ "none" \notin Ops
        /\ {"begin", "wait_wr"} \subseteq OpLabels("idle") \cap Labels
    BY <1>3 DEF LockInv, LabelsInv, WriteInv, Ops, OpLabels, SendLabels, Labels, Running, WrWaits, Granted
  <2>2. /\ DOMAIN d = Fields /\ d.at = i.at /\ d.wr_block = i.wr_block /\ d.rd_block = i.rd_block
        /\ d.failed = i.failed /\ d.idle_pinging = TRUE
    BY <2>1 DEF Fields
  <2> HIDE DEF d
  <2>3. \/ d.wr_block = "none" /\ Moved([d EXCEPT !.wr_block = "idle"], j, "idle", "begin")
        \/ d.wr_block # "none" /\ Moved(d, j, "idle", "wait_wr")
    BY <2>1, <2>2, TriesWrite
  <2> HIDE DEF j
  <2>4. PICK l \in {"begin", "wait_wr"} :
          /\ j.at = [i.at EXCEPT !["idle"] = l]
          /\ j.rd_block = i.rd_block /\ DOMAIN j = Fields /\ j.idle_pinging = TRUE
          /\ j.failed \cap LockClaims = i.failed \cap LockClaims
          /\ l = "begin" => i.wr_block = "none" /\ j.wr_block = "idle"
          /\ l = "wait_wr" => j.wr_block = i.wr_block
    BY <2>2, <2>3 DEF Moved, Fields
  <2>5. j.at.idle = l /\ \A p \in Ops \ {"idle"} : j.at[p] = i.at[p]
    BY <2>1, <2>4
  <2>6. LabelsInv(j.at)
    BY <2>1, <2>4, <2>5 DEF LockInv, LabelsInv
  <2>7. WriteInv(j.at, j.wr_block)
    BY <2>1, <2>4, <2>5 DEF LockInv, WriteInv
  <2>8. ReadInv(j.at, j.rd_block)
    BY <2>1, <2>4, <2>5 DEF LockInv, ReadInv
  <2>9. LockInv(j)
    BY <2>4, <2>5, <2>6, <2>7, <2>8 DEF LockInv
  <2> QED BY <1>1, <1>3, <2>9
<1> QED BY <1>2, <1>3

LEMMA TimeoutHandlerKeeps ==
  ASSUME IInv, TimeoutHandler
  PROVE  IInv'
<1> DEFINE i == [impl EXCEPT !.fired = FALSE]
           s == StartIdlePing(i)
           t == [s EXCEPT !.idle_counter = @ + 1, !.timer = TRUE]
           u == TimeOut(i)
<1>1. impl' = i \/ impl' = t \/ impl' = u
  BY DEF TimeoutHandler
<1>2. LockInv(impl) /\ DOMAIN impl = Fields
  BY DEF IInv, LockInv
<1>3. Alike(impl, i)
  BY <1>2 DEF Alike, Fields
<1> HIDE DEF i
<1>4. LockInv(i)
  BY <1>2, <1>3, AlikeKeeps
<1>5. LockInv(s)
  BY <1>4, StartIdlePingKeeps
<1> HIDE DEF s
<1>6. Alike(s, t)
  BY <1>5 DEF Alike, LockInv, Fields
<1> HIDE DEF t
<1>7. LockInv(t)
  BY <1>5, <1>6, AlikeKeeps
<1>8. Alike(i, u)
  BY <1>4, Others DEF LockInv
<1> HIDE DEF u
<1>9. LockInv(u)
  BY <1>4, <1>8, AlikeKeeps
<1> QED BY <1>1, <1>4, <1>7, <1>9 DEF IInv

LEMMA ExpireKeeps ==
  ASSUME IInv, Expire
  PROVE  IInv'
<1>1. Alike(impl, impl')
  BY DEF IInv, LockInv, Expire, Alike, Fields
<1> QED BY <1>1, AlikeKeeps DEF IInv

------------------------------------------------------------------------------
LEMMA InitHolds ==
  ASSUME Init
  PROVE  IInv
<1>1. /\ DOMAIN impl = Fields
      /\ impl.at = [o \in Ops |-> "off"]
      /\ impl.wr_block = "none" /\ impl.rd_block = "none"
      /\ impl.idle_pinging = FALSE /\ impl.failed = {}
  BY DEF Init, Fields
<1>2. {"read", "close", "idle"} \subseteq Ops /\ "none" \notin Ops /\ "off" \in Labels
  BY DEF Ops, Labels
<1>3. \A o \in Ops : "off" \in OpLabels(o)
  BY DEF OpLabels, ReadLabels, CloseLabels, SendLabels
<1>4. LabelsInv(impl.at)
  BY <1>1, <1>2, <1>3 DEF LabelsInv
<1>5. WriteInv(impl.at, impl.wr_block)
  BY <1>1, <1>2 DEF WriteInv, ReadWrites
<1>6. ReadInv(impl.at, impl.rd_block)
  BY <1>1, <1>2 DEF ReadInv, ReadReads, CloseReads
<1> QED BY <1>1, <1>2, <1>4, <1>5, <1>6 DEF IInv, LockInv

LEMMA NextKeeps ==
  ASSUME IInv, [Next]_vars
  PROVE  IInv'
<1>1. CASE Start
  BY <1>1, ReadStartKeeps, CloseStartKeeps, WriteStartKeeps, PingStartKeeps DEF Start
<1>2. CASE Read
  <2>1. CASE AcquireRead \/ ReadGranted \/ ReadLoop \/ ReadHeader \/ ReadControl \/ ReadPosted
    BY <2>1, AcquireReadKeeps, ReadGrantedKeeps, ReadLoopKeeps, ReadHeaderKeeps, ReadControlKeeps,
       ReadPostedKeeps
  <2>2. CASE PongGranted \/ PongSent \/ ReadPayload \/ ReadFill
    BY <2>2, PongGrantedKeeps, PongSentKeeps, ReadPayloadKeeps, ReadFillKeeps
  <2>3. CASE ReadFail \/ FailGranted \/ ReadClosing \/ CloseSent \/ ReadTornDown
    BY <2>3, ReadFailKeeps, FailGrantedKeeps, ReadClosingKeeps, CloseSentKeeps, ReadTornDownKeeps
  <2>4. CASE Upcall("read")
    BY <2>4, UpcallKeeps DEF Ops
  <2> QED BY <1>2, <2>1, <2>2, <2>3, <2>4 DEF Read
<1>3. CASE Close
  <2>1. CASE Upcall("close")
    BY <2>1, UpcallKeeps DEF Ops
  <2> QED BY <1>3, <2>1, CloseBeginKeeps, CloseFrameSentKeeps, CloseGrantedReadKeeps,
             CloseDiscardKeeps, CloseMoreKeeps, CloseTornDownKeeps DEF Close
<1>4. CASE Write
  <2>1. CASE Upcall("write")
    BY <2>1, UpcallKeeps DEF Ops
  <2>2. CASE SendBegin("write")
    BY <2>2, SendBeginKeeps
  <2> QED BY <1>4, <2>1, <2>2, PieceSentKeeps DEF Write
<1>5. CASE Ping
  <2>1. PICK o \in {"ping", "idle"} : SendBegin(o) \/ ControlSent(o) \/ Upcall(o)
    BY <1>5 DEF Ping
  <2> QED BY <2>1, SendBeginKeeps, ControlSentKeeps, UpcallKeeps DEF Ops
<1>6. CASE Expire \/ TimeoutHandler
  BY <1>6, ExpireKeeps, TimeoutHandlerKeeps
<1>7. CASE Break \/ UNCHANGED vars
  BY <1>7 DEF Break, vars, IInv
<1> QED BY <1>1, <1>2, <1>3, <1>4, <1>5, <1>6, <1>7 DEF Next, Progress

(***************************************************************************)
(* Who has wr_block and rd_block, and who waits for which: in every state, *)
(* for any peer, messages, settings and calls.                             *)
(***************************************************************************)
THEOREM LocksInvariant == Spec => []IInv
<1>1. Init => IInv
  BY InitHolds
<1>2. IInv /\ [Next]_vars => IInv'
  BY NextKeeps
<1> QED BY <1>1, <1>2, PTL DEF Spec

(***************************************************************************)
(* A mutex is held by an operation exactly between taking it and giving it *)
(* up; nobody writes or reads without it.                                  *)
(***************************************************************************)
THEOREM MutexesHeld == Spec => []LocksHeld
<1>1. IInv => LocksHeld
  <2> SUFFICES ASSUME IInv, NEW o \in Ops
               PROVE  /\ HoldsWrite(o) /\ impl.at[o] # "upcall" => impl.wr_block = o
                      /\ HoldsRead(o) => impl.rd_block = o
                      /\ impl.wr_block = o => HoldsWrite(o) \/ impl.at[o] = "upcall"
                      /\ impl.rd_block = o => impl.at[o] # "off"
    BY DEF LocksHeld
  <2>1. WriteInv(impl.at, impl.wr_block) /\ ReadInv(impl.at, impl.rd_block)
    BY DEF IInv, LockInv
  <2>2. HoldsWrite(o) /\ impl.at[o] # "upcall" => impl.wr_block = o
    BY <2>1 DEF HoldsWrite, WriteInv, ReadWrites
  <2>3. HoldsRead(o) => impl.rd_block = o
    BY <2>1 DEF HoldsRead, ReadInv, ReadReads, CloseReads
  <2>4. impl.wr_block = o => HoldsWrite(o) \/ impl.at[o] = "upcall"
    BY <2>1 DEF HoldsWrite, WriteInv, ReadWrites
  <2>5. impl.rd_block = o => impl.at[o] # "off"
    BY <2>1 DEF ReadInv, ReadReads, CloseReads, Ops
  <2> QED BY <2>2, <2>3, <2>4, <2>5
<1> QED BY <1>1, LocksInvariant, PTL

(***************************************************************************)
(* The assertions of soft_mutex and of the operations about the mutexes    *)
(* never fail: a mutex is free when it is locked, and who gives it up, or  *)
(* tries to get it, has it, or has it not.                                 *)
(***************************************************************************)
MutexAssertionsHold == impl.failed \cap LockClaims = {}

THEOREM MutexAssertions == Spec => []MutexAssertionsHold
<1>1. IInv => MutexAssertionsHold
  BY DEF IInv, LockInv, MutexAssertionsHold
<1> QED BY <1>1, LocksInvariant, PTL

(***************************************************************************)
(* No two operations write to the connection at once.                      *)
(***************************************************************************)
OneWriter == \A o, p \in Ops : impl.at[o] \in Writing /\ impl.at[p] \in Writing => o = p

LEMMA OneWriterHolds ==
  ASSUME IInv
  PROVE  OneWriter
<1> SUFFICES ASSUME NEW o \in Ops, impl.at[o] \in Writing
             PROVE  impl.wr_block = o
  BY DEF OneWriter
<1>1. WriteInv(impl.at, impl.wr_block) /\ impl.at[o] \in OpLabels(o)
  BY DEF IInv, LockInv, LabelsInv
<1>2. CASE o = "read"
  <2>1. impl.at.read \in ReadWrites
    BY <1>1, <1>2 DEF Writing, OpLabels, ReadLabels, ReadWrites, ReadReads
  <2> QED BY <1>1, <1>2, <2>1 DEF WriteInv
<1>3. CASE o # "read"
  BY <1>1, <1>3 DEF WriteInv, Writing
<1> QED BY <1>2, <1>3

THEOREM WritesAlone == Spec => []OneWriter
<1>1. IInv => OneWriter
  BY OneWriterHolds
<1> QED BY <1>1, LocksInvariant, PTL

------------------------------------------------------------------------------
(* A read with a control callback posts itself before it calls it, and     *)
(* does not look afterwards whether the stream has stopped meanwhile; the  *)
(* rest is about streams without one.                                      *)
NoControlCallback == \A s \in Settings : s.ctrl_cb = FALSE

Failing    == {"fail", "fail_wait", "fail_got", "closing", "close_send", "teardown"}
CloseWrote == {"send", "wait_rd", "got_rd", "discard", "more", "teardown"}
Discarding == {"discard", "more", "teardown"}
Working    == {"loop", "control", "payload", "fail", "closing"}

(* What a stop means for who: a handler works only while the stream has    *)
(* not stopped, the close ends only when it has; a close frame is received *)
(* by the one that then tears down, and sent by the one that does.         *)
StopInv(i) ==
  /\ i.opt.ctrl_cb = FALSE /\ i.at.read # "posted"
  /\ i.timed_out \/ i.ec_delivered => Stopped(i)
  /\ i.at.read \in Working \/ i.at.close = "discard" => ~Stopped(i)
  /\ i.at.close = "upcall" \/ i.at.read = "got_rd" => Stopped(i)
  /\ i.rd_close => i.at.close = "teardown" \/ i.at.read \in Failing \/ Stopped(i)
  /\ i.at.close = "teardown" => i.rd_block = "close" \/ i.at.read = "fail_wait"
  /\ i.wr_close => \/ i.at.close \in CloseWrote \/ Stopped(i)
                   \/ i.at.read \in {"close_send", "teardown"}
  /\ i.status = "closing" => i.wr_close
  /\ i.at.read \in {"payload", "fill"} => ~i.rd_done
  /\ i.rd_remain # 0 => ~i.rd_done \/ i.at.close \in Discarding \/ Stopped(i)
  /\ i.failed \subseteq {"aborted"}
  /\ \A o, p \in Ops : i.at[o] \in Running /\ i.at[p] \in Running => o = p

(* The assertions that are proved already, and the one that may fail.      *)
Harmless == LockClaims \cup {"aborted"}

(* What is not about the mutexes stays, or stays but for a stop.           *)
Kept(i, j) ==
  /\ DOMAIN j = Fields /\ j.opt = i.opt
  /\ j.rd_close = i.rd_close /\ j.wr_close = i.wr_close
  /\ j.rd_done = i.rd_done /\ j.rd_remain = i.rd_remain
  /\ j.failed \subseteq i.failed \cup Harmless

Quiet(i, j) ==
  /\ Kept(i, j)
  /\ j.status = i.status /\ j.timed_out = i.timed_out /\ j.ec_delivered = i.ec_delivered

(* Operations that wait are resumed; the read gets the read block only of  *)
(* a close that has ended, s.                                              *)
Resumes(x, y, p, s) ==
  \/ y = x
  \/ x = "wait_wr" /\ y = "got_wr"
  \/ x = "pong_wait" /\ y = "pong_got"
  \/ x = "fail_wait" /\ y = "fail_got"
  \/ x = "wait_rd" /\ y = "got_rd" /\ (p = "read" => s)

Resumed(i, j, o) ==
  /\ \A p \in Ops \ {o} : Resumes(i.at[p], j.at[p], p, Stopped(i))
  /\ o # "close" /\ i.rd_block = "close" => j.rd_block = "close"

MayRun(i, o) == i.at[o] \in Running \/ \A p \in Ops : i.at[p] \notin Running

(* What the step of o may do to the rest.                                  *)
Legal(i, j, o) ==
  /\ j.opt = i.opt /\ j.failed \subseteq i.failed \cup Harmless
  /\ \/ j.status = i.status \/ Stopped(j)
     \/ ~Stopped(i) /\ j.status = "closing" /\ j.wr_close
  /\ j.timed_out \/ j.ec_delivered => i.timed_out \/ i.ec_delivered \/ Stopped(j)
  /\ i.wr_close => j.wr_close
  /\ j.wr_close => \/ i.wr_close
                   \/ o = "read" /\ j.at.read \in {"close_send", "teardown"}
                   \/ o = "close" /\ j.at.close = "send"
  /\ j.rd_close => \/ i.rd_close
                   \/ o = "read" /\ j.at.read \in Failing
                   \/ o = "close" /\ j.at.close = "teardown"
  /\ j.rd_remain # 0 /\ j.rd_done =>
       \/ i.rd_remain # 0 /\ i.rd_done
       \/ o = "close" /\ j.at.close \in {"discard", "more"}
  /\ o # "read" => j.rd_done = i.rd_done

ReadLegal(i, j) ==
  /\ j.at.read \notin {"posted", "got_rd"} /\ i.at.read # "fail_wait"
  /\ j.at.read \in Working => ~Stopped(j)
  /\ i.at.read \in Failing => j.at.read \in Failing \/ Stopped(j)
  /\ i.at.read \in {"close_send", "teardown"} =>
       j.at.read \in {"close_send", "teardown"} \/ Stopped(j)
  /\ j.at.read \in {"payload", "fill"} => ~j.rd_done

CloseLegal(i, j) ==
  /\ j.at.close = "discard" => ~Stopped(j)
  /\ j.at.close = "upcall" => Stopped(j)
  /\ j.at.close = "teardown" => j.rd_block = "close" \/ j.at.read = "fail_wait"
  /\ i.at.close = "teardown" => j.at.close = "teardown" \/ Stopped(j)
  /\ i.at.close \in CloseWrote => j.at.close \in CloseWrote \/ Stopped(j)
  /\ i.at.close \in Discarding => j.at.close \in Discarding \/ Stopped(j)

LEMMA StepKeepsStop ==
  ASSUME NEW i, NEW j, NEW o \in Ops, LockInv(i), LockInv(j), StopInv(i),
         MayRun(i, o), Resumed(i, j, o), Legal(i, j, o),
         o = "read" => ReadLegal(i, j), o = "close" => CloseLegal(i, j)
  PROVE  StopInv(j)
<1>1. "read" \in Ops /\ "close" \in Ops
  BY DEF Ops
<1>2. /\ o # "read" => Resumes(i.at.read, j.at.read, "read", Stopped(i))
      /\ o # "close" => Resumes(i.at.close, j.at.close, "close", Stopped(i))
  BY <1>1 DEF Resumed
<1>3. Stopped(i) => Stopped(j)
  BY DEF Legal, Stopped
<1>4. \A p \in Ops \ {o} : i.at[p] \notin Running /\ j.at[p] \notin Running
  <2> SUFFICES ASSUME NEW p \in Ops \ {o} PROVE i.at[p] \notin Running /\ j.at[p] \notin Running
    OBVIOUS
  <2>1. i.at[p] \notin Running
    BY DEF MayRun, StopInv
  <2>2. Resumes(i.at[p], j.at[p], p, Stopped(i))
    BY DEF Resumed
  <2> QED BY <2>1, <2>2 DEF Resumes, Running
<1>5. \A p, q \in Ops : j.at[p] \in Running /\ j.at[q] \in Running => p = q
  BY <1>4
<1>6. j.opt.ctrl_cb = FALSE /\ j.at.read # "posted"
  BY <1>2 DEF StopInv, Legal, ReadLegal, Resumes
<1>7. j.timed_out \/ j.ec_delivered => Stopped(j)
  BY <1>3 DEF StopInv, Legal
<1>8. j.at.read \in Working \/ j.at.close = "discard" => ~Stopped(j)
  <2>1. CASE j.at.read \in Working
    BY <1>1, <1>4, <2>1 DEF ReadLegal, Working, Running
  <2>2. CASE j.at.close = "discard"
    BY <1>1, <1>4, <2>2 DEF CloseLegal, Running
  <2> QED BY <2>1, <2>2
<1>9. j.at.close = "upcall" \/ j.at.read = "got_rd" => Stopped(j)
  BY <1>2, <1>3 DEF StopInv, ReadLegal, CloseLegal, Resumes
<1>10. j.rd_close => j.at.close = "teardown" \/ j.at.read \in Failing \/ Stopped(j)
  <2>1. i.at.close = "teardown" => j.at.close = "teardown" \/ Stopped(j)
    BY <1>2 DEF CloseLegal, Resumes
  <2>2. i.at.read \in Failing => j.at.read \in Failing \/ Stopped(j)
    BY <1>2 DEF ReadLegal, Resumes, Failing
  <2> QED BY <1>3, <2>1, <2>2 DEF StopInv, Legal
<1>11. j.at.close = "teardown" => j.rd_block = "close" \/ j.at.read = "fail_wait"
  <2>1. CASE o = "close"
    BY <2>1 DEF CloseLegal
  <2>2. CASE o # "close" /\ j.at.close = "teardown"
    <3>1. i.at.close = "teardown"
      BY <1>2, <2>2 DEF Resumes
    <3>2. CASE i.rd_block = "close"
      BY <2>2, <3>2 DEF Resumed
    <3>3. CASE i.at.read = "fail_wait"
      <4>1. o # "read"
        BY <3>3 DEF ReadLegal
      <4>2. j.at.read \in {"fail_wait", "fail_got"}
        BY <1>2, <3>3, <4>1 DEF Resumes
      <4>3. j.at.read # "fail_got"
        BY <1>1, <2>2 DEF LockInv, WriteInv, ReadWrites
      <4> QED BY <4>2, <4>3
    <3> QED BY <3>1, <3>2, <3>3 DEF StopInv
  <2> QED BY <2>1, <2>2
<1>12. j.wr_close => \/ j.at.close \in CloseWrote \/ Stopped(j)
                     \/ j.at.read \in {"close_send", "teardown"}
  <2>1. i.at.close \in CloseWrote => j.at.close \in CloseWrote \/ Stopped(j)
    BY <1>2 DEF CloseLegal, Resumes, CloseWrote
  <2>2. i.at.read \in {"close_send", "teardown"} =>
          j.at.read \in {"close_send", "teardown"} \/ Stopped(j)
    BY <1>2 DEF ReadLegal, Resumes
  <2> QED BY <1>3, <2>1, <2>2 DEF StopInv, Legal, CloseWrote
<1>13. j.status = "closing" => j.wr_close
  BY DEF StopInv, Legal, Stopped
<1>14. j.at.read \in {"payload", "fill"} => ~j.rd_done
  BY <1>2 DEF StopInv, Legal, ReadLegal, Resumes
<1>15. j.rd_remain # 0 => ~j.rd_done \/ j.at.close \in Discarding \/ Stopped(j)
  <2>1. i.at.close \in Discarding => j.at.close \in Discarding \/ Stopped(j)
    BY <1>2 DEF CloseLegal, Resumes, Discarding
  <2> QED BY <1>3, <2>1 DEF StopInv, Legal, Discarding
<1>16. j.failed \subseteq {"aborted"}
  BY DEF StopInv, Legal, LockInv, Harmless
<1> QED BY <1>5, <1>6, <1>7, <1>8, <1>9, <1>10, <1>11, <1>12, <1>13, <1>14, <1>15, <1>16 DEF StopInv

------------------------------------------------------------------------------
(* What a part of a handler does to the rest.                              *)
LEMMA QuietTransitive ==
  ASSUME NEW i, NEW j, NEW k, Quiet(i, j), Quiet(j, k)
  PROVE  Quiet(i, k)
BY DEF Quiet, Kept

LEMMA QuietKept ==
  ASSUME NEW i, NEW j, NEW k, Quiet(i, j), Kept(j, k)
  PROVE  Kept(i, k)
BY DEF Quiet, Kept

LEMMA AtQuiet ==
  ASSUME NEW i, DOMAIN i = Fields, NEW o, NEW l
  PROVE  LET j == At(i, o, l)
         IN  /\ Quiet(i, j) /\ j.at = [i.at EXCEPT ![o] = l]
             /\ j.rd_block = i.rd_block /\ j.wr_block = i.wr_block
BY DEF Quiet, Kept, At, Fields

LEMMA ClaimQuiet ==
  ASSUME NEW i, DOMAIN i = Fields, NEW name, NEW holds, name \in Harmless \/ holds
  PROVE  LET j == Claim(i, name, holds)
         IN  /\ Quiet(i, j) /\ j.at = i.at
             /\ j.rd_block = i.rd_block /\ j.wr_block = i.wr_block
<1>1. CASE holds
  BY <1>1 DEF Quiet, Kept, Claim
<1>2. CASE ~holds
  <2>1. Claim(i, name, holds) = [i EXCEPT !.failed = @ \cup {name}]
    BY <1>2 DEF Claim
  <2>2. i.failed \cup {name} \subseteq i.failed \cup Harmless
    BY <1>2
  <2> QED BY <2>1, <2>2 DEF Quiet, Kept, Fields
<1> QED BY <1>1, <1>2

(* A mutex is taken or given up.                                           *)
LEMMA LockQuiet ==
  ASSUME NEW i, DOMAIN i = Fields, NEW m \in {"wr_block", "rd_block"}, NEW o
  PROVE  /\ Quiet(i, Lock(i, m, o)) /\ Lock(i, m, o).at = i.at
         /\ m = "wr_block" => Lock(i, m, o).rd_block = i.rd_block
         /\ m = "rd_block" => Lock(i, m, o).wr_block = i.wr_block
         /\ m = "rd_block" => Lock(i, m, o).rd_block = o
         /\ Quiet(i, Unlock(i, m, o)) /\ Unlock(i, m, o).at = i.at
         /\ m = "wr_block" => Unlock(i, m, o).rd_block = i.rd_block
         /\ m = "rd_block" => Unlock(i, m, o).wr_block = i.wr_block
         /\ m = "rd_block" => Unlock(i, m, o).rd_block = "none"
<1> DEFINE c == Claim(i, "lock", i[m] = "none")
           d == Claim(i, "unlock", i[m] = o)
<1>1. Lock(i, m, o) = [c EXCEPT ![m] = o] /\ Unlock(i, m, o) = [d EXCEPT ![m] = "none"]
  BY DEF Lock, Unlock
<1>2. /\ Quiet(i, c) /\ c.at = i.at /\ c.rd_block = i.rd_block /\ c.wr_block = i.wr_block
      /\ Quiet(i, d) /\ d.at = i.at /\ d.rd_block = i.rd_block /\ d.wr_block = i.wr_block
  BY ClaimQuiet DEF Harmless, LockClaims
<1> HIDE DEF c, d
<1>3. CASE m = "wr_block"
  BY <1>1, <1>2, <1>3 DEF Quiet, Kept, Fields
<1>4. CASE m = "rd_block"
  BY <1>1, <1>2, <1>4 DEF Quiet, Kept, Fields
<1> QED BY <1>3, <1>4

LEMMA TryQuiet ==
  ASSUME NEW i, DOMAIN i = Fields, NEW m \in {"wr_block", "rd_block"}, NEW o, NEW got, NEW wait
  PROVE  LET j == TryLock(i, m, o, got, wait)
         IN  /\ Quiet(i, j)
             /\ \/ i[m] = "none" /\ j.at = [i.at EXCEPT ![o] = got]
                \/ i[m] # "none" /\ j.at = [i.at EXCEPT ![o] = wait]
             /\ i.rd_block # "none" => j.rd_block = i.rd_block
             /\ m = "wr_block" => j.rd_block = i.rd_block
             /\ m = "rd_block" /\ i.rd_block = "none" => j.rd_block = o
<1> DEFINE c == Claim(i, "try_lock", i[m] # o)
           k == Lock(i, m, o)
           j == TryLock(i, m, o, got, wait)
<1>1. Quiet(i, c) /\ c.at = i.at /\ c.rd_block = i.rd_block
  BY ClaimQuiet DEF Harmless, LockClaims
<1>2. /\ Quiet(i, k) /\ k.at = i.at
      /\ m = "wr_block" => k.rd_block = i.rd_block
      /\ m = "rd_block" => k.rd_block = o
  BY LockQuiet
<1>3. DOMAIN k = Fields
  BY <1>2 DEF Quiet, Kept
<1>9. DOMAIN c = Fields
  BY <1>1 DEF Quiet, Kept
<1>4. j = IF i[m] = "none" THEN At(k, o, got) ELSE At(c, o, wait)
  BY DEF TryLock
<1> HIDE DEF c, k, j
<1>5. /\ Quiet(k, At(k, o, got)) /\ At(k, o, got).at = [k.at EXCEPT ![o] = got]
      /\ At(k, o, got).rd_block = k.rd_block
  <2>1. LET t == At(k, o, got)
        IN  /\ Quiet(k, t) /\ t.at = [k.at EXCEPT ![o] = got]
            /\ t.rd_block = k.rd_block /\ t.wr_block = k.wr_block
    BY ONLY <1>3, AtQuiet, SMTT(120)
  <2> QED BY <2>1
<1>6. /\ Quiet(c, At(c, o, wait)) /\ At(c, o, wait).at = [c.at EXCEPT ![o] = wait]
      /\ At(c, o, wait).rd_block = c.rd_block
  BY <1>9, AtQuiet
<1>7. CASE i[m] = "none"
  <2>1. j = At(k, o, got)
    BY <1>4, <1>7
  <2>2. Quiet(i, j)
    BY <1>2, <1>5, <2>1, QuietTransitive
  <2>3. m = "rd_block" => i.rd_block = "none"
    BY <1>7
  <2> QED BY <1>2, <1>5, <1>7, <2>1, <2>2, <2>3 DEF j
<1>8. CASE i[m] # "none"
  <2>1. j = At(c, o, wait)
    BY <1>4, <1>8
  <2>2. Quiet(i, j)
    BY <1>1, <1>6, <2>1, QuietTransitive
  <2>3. m = "rd_block" => i.rd_block # "none"
    BY <1>8
  <2> QED BY <1>1, <1>6, <1>8, <2>1, <2>2, <2>3 DEF j
<1> QED BY <1>7, <1>8

LEMMA WakeReaderQuiet ==
  ASSUME NEW i, DOMAIN i = Fields, NEW o
  PROVE  LET j == WakeReader(i, o)
         IN  /\ Quiet(i, j) /\ j.wr_block = i.wr_block
             /\ \/ i.at[o] # "wait_rd" /\ j = i
                \/ /\ i.at[o] = "wait_rd" /\ j.at = [i.at EXCEPT ![o] = "got_rd"]
                   /\ j.rd_block = o
<1>1. CASE i.at[o] # "wait_rd"
  BY <1>1 DEF WakeReader, Quiet, Kept
<1>2. CASE i.at[o] = "wait_rd"
  <2> DEFINE k == Lock(i, "rd_block", o)
  <2>1. WakeReader(i, o) = At(k, o, "got_rd")
    BY <1>2 DEF WakeReader
  <2>2. Quiet(i, k) /\ k.at = i.at /\ k.rd_block = o /\ k.wr_block = i.wr_block
    BY LockQuiet
  <2> HIDE DEF k
  <2>3. DOMAIN k = Fields
    BY <2>2 DEF Quiet, Kept
  <2>4. /\ Quiet(k, At(k, o, "got_rd")) /\ At(k, o, "got_rd").at = [k.at EXCEPT ![o] = "got_rd"]
        /\ At(k, o, "got_rd").rd_block = k.rd_block /\ At(k, o, "got_rd").wr_block = k.wr_block
    BY <2>3, AtQuiet
  <2> QED BY <1>2, <2>1, <2>2, <2>4, QuietTransitive
<1> QED BY <1>1, <1>2

Woken(i, j) ==
  /\ Quiet(i, j) /\ j.rd_block = i.rd_block
  /\ j.at \in [Ops -> Labels]
  /\ \A p \in Ops : Resumes(i.at[p], j.at[p], p, FALSE)
  /\ \A p \in Ops : i.at[p] \notin WrWaits => j.at[p] = i.at[p]

LEMMA WakeQuiet ==
  ASSUME NEW i, DOMAIN i = Fields, i.at \in [Ops -> Labels], NEW order \in Orders
  PROVE  Woken(i, Wake(i, order))
<1> DEFINE S == Saved(i, order)
           j == Wake(i, order)
<1>1. CASE S = {}
  BY <1>1 DEF Wake, Quiet, Kept, Resumes, Woken
<1>2. CASE S # {}
  <2>1. S \in SUBSET (1 .. 4) /\ \A k \in S : i.at[order[k]] \in WrWaits
    BY DEF Saved, Orders, AfterRead, AfterWrite, AfterPing, AfterIdle, AfterClose
  <2>2. Min(S) \in S
    BY <1>2, <2>1, LeastOf
  <2> DEFINE o == order[Min(S)]
             k == Lock(i, "wr_block", o)
             l == Granted[i.at[o]]
  <2>3. i.at[o] \in WrWaits
    BY <2>1, <2>2
  <2>4. \A n \in 1 .. 4 : order[n] \in Ops
    BY DEF Orders, AfterRead, AfterWrite, AfterPing, AfterIdle, AfterClose, Ops
  <2>5. o \in Ops
    BY <2>1, <2>2, <2>4
  <2>6. j = At(k, o, l)
    BY <1>2 DEF Wake
  <2>7. \/ i.at[o] = "wait_wr" /\ l = "got_wr"
        \/ i.at[o] = "pong_wait" /\ l = "pong_got"
        \/ i.at[o] = "fail_wait" /\ l = "fail_got"
    BY <2>3 DEF WrWaits, Granted
  <2>8. Quiet(i, k) /\ k.at = i.at /\ k.rd_block = i.rd_block
    BY LockQuiet
  <2> HIDE DEF S, o, k, l, j
  <2>9. DOMAIN k = Fields
    BY <2>8 DEF Quiet, Kept
  <2>10. Quiet(k, j) /\ j.at = [k.at EXCEPT ![o] = l] /\ j.rd_block = k.rd_block
    BY <2>6, <2>9, AtQuiet
  <2>11. Quiet(i, j) /\ j.rd_block = i.rd_block
    BY <2>8, <2>10, QuietTransitive
  <2>12. l \in Labels
    BY <2>7 DEF Labels
  <2>13. j.at \in [Ops -> Labels] /\ j.at[o] = l /\ \A p \in Ops \ {o} : j.at[p] = i.at[p]
    BY <2>5, <2>8, <2>10, <2>12
  <2>14. \A p \in Ops : Resumes(i.at[p], j.at[p], p, FALSE)
    BY <2>5, <2>7, <2>13 DEF Resumes
  <2>15. \A p \in Ops : i.at[p] \notin WrWaits => j.at[p] = i.at[p]
    BY <2>3, <2>13
  <2> QED BY <2>11, <2>13, <2>14, <2>15 DEF j, Woken
<1> QED BY <1>1, <1>2

LEMMA ToUpcallQuiet ==
  ASSUME NEW i, DOMAIN i = Fields, NEW o, NEW ec
  PROVE  LET j == ToUpcall(i, o, ec)
         IN  /\ Quiet(i, j) /\ j.at = [i.at EXCEPT ![o] = "upcall"]
             /\ j.rd_block = i.rd_block
<1> DEFINE k == [i EXCEPT !.ec[o] = ec]
<1>1. Quiet(i, k) /\ k.at = i.at /\ k.rd_block = i.rd_block /\ DOMAIN k = Fields
  BY DEF Quiet, Kept, Fields
<1>2. ToUpcall(i, o, ec) = At(k, o, "upcall")
  BY DEF ToUpcall
<1> HIDE DEF k
<1> QED BY <1>1, <1>2, AtQuiet, QuietTransitive

(* check_stop_now: the handler goes on if the stream has not stopped.      *)
Ends(i, j, o) ==
  /\ Kept(i, j) /\ Stopped(j) /\ j.at = [i.at EXCEPT ![o] = "upcall"]
  /\ j.rd_block = i.rd_block

LEMMA Stops ==
  ASSUME NEW i, DOMAIN i = Fields, i.timed_out \/ i.ec_delivered => Stopped(i),
         NEW o, NEW ec, NEW next
  PROVE  \/ ec = "ok" /\ ~Stopped(i) /\ CheckStop(i, o, ec, next) = next
         \/ Ends(i, CheckStop(i, o, ec, next), o)
<1>0. ASSUME NEW k, NEW e, Kept(i, k), Stopped(k), k.at = i.at, k.rd_block = i.rd_block,
             CheckStop(i, o, ec, next) = ToUpcall(k, o, e)
      PROVE  Ends(i, CheckStop(i, o, ec, next), o)
  <2>1. LET j == ToUpcall(k, o, e)
        IN  /\ Quiet(k, j) /\ j.at = [k.at EXCEPT ![o] = "upcall"] /\ j.rd_block = k.rd_block
    BY <1>0, ToUpcallQuiet DEF Kept
  <2> QED BY <1>0, <2>1 DEF Ends, Kept, Quiet, Stopped
<1>1. CASE i.timed_out
  <2> DEFINE k == [i EXCEPT !.timed_out = FALSE]
  <2>1. Kept(i, k) /\ Stopped(k) /\ k.at = i.at /\ k.rd_block = i.rd_block
    BY <1>1 DEF Kept, Fields, Stopped
  <2>2. CheckStop(i, o, ec, next) = ToUpcall(k, o, "timeout")
    BY <1>1 DEF CheckStop
  <2> HIDE DEF k
  <2> QED BY <1>0, <2>1, <2>2
<1>2. CASE ~i.timed_out /\ Stopped(i)
  <2>1. Kept(i, i)
    BY DEF Kept
  <2> QED BY <1>0, <1>2, <2>1 DEF CheckStop
<1>3. CASE ~i.timed_out /\ ~Stopped(i) /\ ec = "ok"
  BY <1>3 DEF CheckStop
<1>4. CASE ~i.timed_out /\ ~Stopped(i) /\ ec # "ok"
  <2> DEFINE k == [i EXCEPT !.ec_delivered = TRUE, !.status = "failed"]
  <2>1. Kept(i, k) /\ Stopped(k) /\ k.at = i.at /\ k.rd_block = i.rd_block
    BY DEF Kept, Fields, Stopped
  <2>2. CheckStop(i, o, ec, next) = ToUpcall(k, o, ec)
    BY <1>4 DEF CheckStop
  <2> HIDE DEF k
  <2> QED BY <1>0, <2>1, <2>2
<1> QED BY <1>1, <1>2, <1>3, <1>4


LEMMA QuietLegal ==
  ASSUME NEW i, NEW j, NEW o, Quiet(i, j)
  PROVE  Legal(i, j, o)
BY DEF Quiet, Kept, Legal

LEMMA EndsLegal ==
  ASSUME NEW i, NEW j, NEW o, Ends(i, j, o)
  PROVE  Legal(i, j, o)
BY DEF Ends, Kept, Legal

(* Only o moves.                                                           *)
LEMMA AloneResumed ==
  ASSUME NEW i, NEW j, NEW o \in Ops, NEW l, LockInv(i), j.at = [i.at EXCEPT ![o] = l],
         o # "close" /\ i.rd_block = "close" => j.rd_block = "close"
  PROVE  Resumed(i, j, o) /\ j.at[o] = l
BY DEF Resumed, Resumes, LockInv, LabelsInv

LEMMA EndsResumed ==
  ASSUME NEW i, NEW j, NEW o \in Ops, LockInv(i), Ends(i, j, o)
  PROVE  Resumed(i, j, o) /\ j.at[o] = "upcall"
BY AloneResumed DEF Ends

(* A handler that ends at check_stop_now().                                *)
LEMMA EndKeepsStop ==
  ASSUME NEW i, NEW j, NEW o \in Ops, LockInv(i), LockInv(j), StopInv(i), MayRun(i, o),
         o = "read" => i.at.read # "fail_wait", Ends(i, j, o)
  PROVE  StopInv(j)
<1>4. Legal(i, j, o) /\ Stopped(j)
  BY EndsLegal DEF Ends
<1>5. Resumed(i, j, o) /\ j.at[o] = "upcall"
  BY EndsResumed
<1>1. Legal(i, j, o) /\ Resumed(i, j, o) /\ j.at[o] = "upcall" /\ Stopped(j)
  BY <1>4, <1>5
<1>2. o = "read" => ReadLegal(i, j)
  BY <1>1 DEF ReadLegal, Working
<1>3. o = "close" => CloseLegal(i, j)
  BY <1>1 DEF CloseLegal
<1> QED BY <1>1, <1>2, <1>3, StepKeepsStop

(* A write or a ping that leaves all but the mutexes alone.                *)
Sends == {"write", "ping", "idle"}

LEMMA SendKeepsStop ==
  ASSUME NEW i, NEW j, NEW o \in Sends, LockInv(i), LockInv(j), StopInv(i), MayRun(i, o),
         Resumed(i, j, o), Quiet(i, j)
  PROVE  StopInv(j)
<1>1. o \in Ops /\ o # "read" /\ o # "close"
  BY DEF Sends, Ops
<1> QED BY <1>1, QuietLegal, StepKeepsStop


(* check_stop_now() in a handler: what is left to show is that the handler *)
(* may go on.                                                              *)
LEMMA CheckKeepsStop ==
  ASSUME NEW i, NEW k, NEW o \in Ops, LockInv(i), StopInv(i), MayRun(i, o),
         Quiet(i, k), k.at = i.at, k.rd_block = i.rd_block,
         o = "read" => i.at.read # "fail_wait",
         NEW ec, NEW next, NEW j, j = CheckStop(k, o, ec, next), LockInv(j),
         ec = "ok" /\ ~Stopped(i) /\ j = next => StopInv(j)
  PROVE  StopInv(j)
<1>1. DOMAIN k = Fields /\ (Stopped(k) <=> Stopped(i))
  BY DEF Quiet, Kept, Stopped
<1>2. k.timed_out \/ k.ec_delivered => Stopped(k)
  BY <1>1 DEF Quiet, StopInv
<1>3. \/ ec = "ok" /\ ~Stopped(k) /\ j = next
      \/ Ends(k, j, o)
  BY <1>1, <1>2, Stops
<1>4. CASE Ends(k, j, o)
  <2>1. Ends(i, j, o)
    BY <1>4, QuietKept DEF Ends
  <2> QED BY <2>1, EndKeepsStop
<1> QED BY <1>1, <1>3, <1>4

LEMMA Runs ==
  ASSUME NEW o \in Ops, Idle \/ impl.at[o] \in Running
  PROVE  MayRun(impl, o)
BY DEF Idle, MayRun

LEMMA InFields ==
  ASSUME IInv PROVE DOMAIN impl = Fields
BY DEF IInv, LockInv

(* The write, the pings.                                                   *)
LEMMA SendTries ==
  ASSUME NEW i, NEW k, NEW o \in Sends, LockInv(i), StopInv(i), MayRun(i, o),
         Quiet(i, k), k.at = i.at, k.rd_block = i.rd_block,
         NEW got, NEW wait, NEW j, j = TryLock(k, "wr_block", o, got, wait), LockInv(j)
  PROVE  StopInv(j)
<1>1. DOMAIN k = Fields
  BY DEF Quiet, Kept
<1>2. /\ Quiet(k, j)
      /\ j.at = [k.at EXCEPT ![o] = got] \/ j.at = [k.at EXCEPT ![o] = wait]
      /\ j.rd_block = k.rd_block
  BY <1>1, TryQuiet
<1>3. Quiet(i, j)
  BY <1>2, QuietTransitive
<1>4. o \in Ops
  BY DEF Sends, Ops
<1>5. Resumed(i, j, o)
  BY <1>2, <1>4, AloneResumed
<1> QED BY <1>3, <1>5, SendKeepsStop

LEMMA WriteStartStop ==
  ASSUME IInv, IInv', StopInv(impl), WriteStart
  PROVE  StopInv(impl')
<1> DEFINE w == Head(hist.writes)
           k == [impl EXCEPT !.left = w.pieces, !.how = w.how, !.fin = w.fin,
                             !.op = IF impl.wr_cont THEN "cont" ELSE "text"]
<1>1. impl' = TryLock(k, "wr_block", "write", "begin", "wait_wr")
  BY DEF WriteStart
<1>2. Quiet(impl, k) /\ k.at = impl.at /\ k.rd_block = impl.rd_block
  BY InFields DEF Quiet, Kept, Fields
<1> HIDE DEF k
<1>3. MayRun(impl, "write") /\ "write" \in Sends
  BY Runs DEF WriteStart, Ops, Sends
<1> QED BY <1>1, <1>2, <1>3, SendTries DEF IInv

LEMMA PingStartStop ==
  ASSUME IInv, IInv', StopInv(impl), PingStart
  PROVE  StopInv(impl')
<1>1. impl' = TryLock(impl, "wr_block", "ping", "begin", "wait_wr")
  BY DEF PingStart
<1>2. Quiet(impl, impl)
  BY InFields DEF Quiet, Kept
<1>3. MayRun(impl, "ping") /\ "ping" \in Sends
  BY Runs DEF PingStart, Ops, Sends
<1> QED BY <1>1, <1>2, <1>3, SendTries DEF IInv

LEMMA SendBeginStop ==
  ASSUME IInv, IInv', StopInv(impl), NEW o \in Sends, SendBegin(o)
  PROVE  StopInv(impl')
<1> DEFINE i == Claim(impl, "wr_block", impl.wr_block = o)
           n == IF o = "write" THEN [i EXCEPT !.wr_cont = ~i.fin] ELSE i
           l == At(n, o, "send")
<1>1. impl' = CheckStop(i, o, "ok", l)
  BY DEF SendBegin
<1>2. o \in Ops /\ o # "read"
  BY DEF Sends, Ops
<1>3. MayRun(impl, o)
  BY <1>2, Runs DEF SendBegin, Running
<1>4. Quiet(impl, i) /\ i.at = impl.at /\ i.rd_block = impl.rd_block
  BY InFields, ClaimQuiet DEF Harmless, LockClaims
<1> HIDE DEF i
<1>5. Quiet(i, n) /\ n.at = i.at /\ n.rd_block = i.rd_block /\ DOMAIN n = Fields
  BY <1>4 DEF Quiet, Kept, Fields
<1> HIDE DEF n
<1>6. Quiet(n, l) /\ l.at = [n.at EXCEPT ![o] = "send"] /\ l.rd_block = n.rd_block
  BY <1>5, AtQuiet
<1> HIDE DEF l
<1>7. Quiet(impl, l)
  BY <1>4, <1>5, <1>6, QuietTransitive
<1>8. Resumed(impl, l, o)
  BY <1>2, <1>4, <1>5, <1>6, AloneResumed DEF IInv
<1>9. LockInv(impl) /\ LockInv(impl')
  BY DEF IInv
<1>10. impl' = l => StopInv(impl')
  BY <1>3, <1>7, <1>8, <1>9, SendKeepsStop
<1> QED BY <1>1, <1>2, <1>3, <1>4, <1>9, <1>10, CheckKeepsStop

LEMMA ControlSentStop ==
  ASSUME IInv, IInv', StopInv(impl), NEW o \in Sends, ControlSent(o)
  PROVE  StopInv(impl')
<1> DEFINE l == ToUpcall(impl, o, "ok")
<1>1. PICK ec : impl' = CheckStop(impl, o, ec, l)
  BY DEF ControlSent
<1>2. o \in Ops /\ o # "read"
  BY DEF Sends, Ops
<1>3. MayRun(impl, o)
  BY <1>2, Runs DEF ControlSent
<1>4. Quiet(impl, impl)
  BY InFields DEF Quiet, Kept
<1>5. Quiet(impl, l) /\ l.at = [impl.at EXCEPT ![o] = "upcall"] /\ l.rd_block = impl.rd_block
  BY InFields, ToUpcallQuiet
<1> HIDE DEF l
<1>6. LockInv(impl) /\ LockInv(impl')
  BY DEF IInv
<1>7. Resumed(impl, l, o)
  BY <1>2, <1>5, <1>6, AloneResumed
<1>8. impl' = l => StopInv(impl')
  BY <1>3, <1>5, <1>6, <1>7, SendKeepsStop
<1> QED BY <1>1, <1>2, <1>3, <1>4, <1>6, <1>8, CheckKeepsStop

(* The write goes on to the next frame, or another operation goes first.   *)
LEMMA BetweenFramesQuiet ==
  ASSUME NEW i, LockInv(i), i.at.write = "send"
  PROVE  LET j == BetweenFrames(i)
         IN  Quiet(i, j) /\ Resumed(i, j, "write")
<1> DEFINE a == [i EXCEPT !.op = "cont"]
           b == Unlock(a, "wr_block", "write")
           c == Wake(b, AfterWrite)
           d == Lock(c, "wr_block", "write")
           j == BetweenFrames(i)
<1>1. i.at \in [Ops -> Labels] /\ DOMAIN i = Fields
  BY DEF LockInv, LabelsInv
<1>2. Quiet(i, a) /\ a.at = i.at /\ a.rd_block = i.rd_block /\ DOMAIN a = Fields
  BY <1>1 DEF Quiet, Kept, Fields
<1>3. Quiet(a, b) /\ b.at = a.at /\ b.rd_block = a.rd_block
  BY <1>2, LockQuiet, ZenonT(60)
<1> HIDE DEF a
<1>4. DOMAIN b = Fields /\ b.at = i.at
  BY <1>2, <1>3 DEF Quiet, Kept
<1>5. j = IF c.wr_block # "none" THEN At(c, "write", "wait_wr") ELSE At(d, "write", "send")
  BY DEF BetweenFrames, a
<1> HIDE DEF b
<1>17. Woken(b, c)
  BY <1>1, <1>4, WakeQuiet DEF Orders
<1>6. /\ Quiet(b, c) /\ c.rd_block = b.rd_block /\ c.at \in [Ops -> Labels]
      /\ \A p \in Ops : Resumes(b.at[p], c.at[p], p, FALSE)
  BY <1>17 DEF Woken
<1> HIDE DEF c
<1>7. DOMAIN c = Fields
  BY <1>6 DEF Quiet, Kept
<1>8. Quiet(c, d) /\ d.at = c.at /\ d.rd_block = c.rd_block
  BY <1>7, LockQuiet
<1> HIDE DEF d
<1>9. DOMAIN d = Fields
  BY <1>8 DEF Quiet, Kept
<1>10. Quiet(i, c) /\ Quiet(i, d)
  BY <1>2, <1>3, <1>6, <1>8, QuietTransitive
<1>11. /\ Quiet(c, At(c, "write", "wait_wr"))
       /\ At(c, "write", "wait_wr").at = [c.at EXCEPT !["write"] = "wait_wr"]
       /\ At(c, "write", "wait_wr").rd_block = c.rd_block
  BY <1>7, AtQuiet
<1>12. /\ Quiet(d, At(d, "write", "send"))
       /\ At(d, "write", "send").at = [d.at EXCEPT !["write"] = "send"]
       /\ At(d, "write", "send").rd_block = d.rd_block
  BY <1>9, AtQuiet
<1>13. Quiet(i, j)
  <2>1. Quiet(i, At(c, "write", "wait_wr")) /\ Quiet(i, At(d, "write", "send"))
    BY <1>10, <1>11, <1>12, QuietTransitive
  <2> QED BY <1>5, <2>1
<1>14. /\ j.rd_block = i.rd_block
       /\ \A p \in Ops \ {"write"} : j.at[p] = c.at[p]
  BY <1>2, <1>3, <1>5, <1>6, <1>8, <1>11, <1>12
<1>15. \A p \in Ops \ {"write"} : Resumes(i.at[p], j.at[p], p, Stopped(i))
  BY <1>4, <1>6, <1>14 DEF Resumes
<1> HIDE DEF j
<1>16. Resumed(i, j, "write")
  BY <1>14, <1>15 DEF Resumed
<1> QED BY <1>13, <1>16 DEF j


LEMMA PieceSentStop ==
  ASSUME IInv, IInv', StopInv(impl), PieceSent
  PROVE  StopInv(impl')
<1> DEFINE i == [impl EXCEPT !.left = @ - 1]
           m == [i EXCEPT !.op = "more"]
           l == CASE i.left = 0 -> ToUpcall(i, "write", "ok")
                  [] i.left > 0 /\ i.how = "frames" -> BetweenFrames(i)
                  [] OTHER -> At(m, "write", "send")
<1>1. PICK ec : impl' = CheckStop(i, "write", ec, l)
  BY DEF PieceSent
<1>2. "write" \in Ops /\ "write" \in Sends /\ MayRun(impl, "write") /\ impl.at.write = "send"
  BY Runs DEF PieceSent, Ops, Sends
<1>3. Quiet(impl, i) /\ i.at = impl.at /\ i.rd_block = impl.rd_block /\ DOMAIN i = Fields
  BY InFields DEF Quiet, Kept, Fields
<1>4. Quiet(i, m) /\ m.at = i.at /\ m.rd_block = i.rd_block /\ DOMAIN m = Fields
  BY <1>3 DEF Quiet, Kept, Fields
<1>5. Alike(impl, i)
  BY InFields DEF Alike, Fields
<1> HIDE DEF i, m
<1>6. LockInv(impl) /\ LockInv(impl')
  BY DEF IInv
<1>7. LockInv(i)
  BY <1>5, <1>6, AlikeKeeps
<1>8. /\ Quiet(i, ToUpcall(i, "write", "ok"))
      /\ ToUpcall(i, "write", "ok").at = [i.at EXCEPT !["write"] = "upcall"]
      /\ ToUpcall(i, "write", "ok").rd_block = i.rd_block
  BY <1>3, ToUpcallQuiet
<1>9. /\ Quiet(m, At(m, "write", "send"))
      /\ At(m, "write", "send").at = [m.at EXCEPT !["write"] = "send"]
      /\ At(m, "write", "send").rd_block = m.rd_block
  BY <1>4, AtQuiet
<1>10. Quiet(i, BetweenFrames(i)) /\ Resumed(i, BetweenFrames(i), "write")
  BY <1>2, <1>3, <1>7, BetweenFramesQuiet
<1>11. Quiet(impl, l) /\ Resumed(impl, l, "write")
  <2>1. CASE l = ToUpcall(i, "write", "ok")
    <3>1. Quiet(impl, l)
      BY <1>3, <1>8, <2>1, QuietTransitive
    <3>2. Resumed(impl, l, "write")
      BY <1>2, <1>3, <1>6, <1>8, <2>1, AloneResumed
    <3> QED BY <3>1, <3>2
  <2>2. CASE l = BetweenFrames(i)
    <3>1. Quiet(impl, l)
      BY <1>3, <1>10, <2>2, QuietTransitive
    <3>2. Resumed(impl, l, "write")
      BY <1>3, <1>10, <2>2 DEF Resumed, Quiet, Stopped
    <3> QED BY <3>1, <3>2
  <2>3. CASE l = At(m, "write", "send")
    <3>1. Quiet(impl, l)
      BY <1>3, <1>4, <1>9, <2>3, QuietTransitive
    <3>2. Resumed(impl, l, "write")
      BY <1>2, <1>3, <1>4, <1>6, <1>9, <2>3, AloneResumed
    <3> QED BY <3>1, <3>2
  <2> QED BY <2>1, <2>2, <2>3
<1> HIDE DEF l
<1>12. impl' = l => StopInv(impl')
  BY <1>2, <1>6, <1>11, SendKeepsStop
<1> QED BY <1>1, <1>2, <1>3, <1>6, <1>12, CheckKeepsStop

(* The write block is given up.                                            *)
LEMMA WokenQuiet ==
  ASSUME NEW i, NEW k, LockInv(i), Quiet(i, k), k.at = i.at, k.rd_block = i.rd_block,
         NEW o, NEW order \in Orders
  PROVE  Woken(i, Wake(Unlock(k, "wr_block", o), order))
<1> DEFINE u == Unlock(k, "wr_block", o)
           j == Wake(u, order)
<1>1. DOMAIN k = Fields /\ i.at \in [Ops -> Labels]
  BY DEF Quiet, Kept, LockInv, LabelsInv
<1>2. Quiet(k, u) /\ u.at = k.at /\ u.rd_block = k.rd_block
  BY <1>1, LockQuiet
<1> HIDE DEF u
<1>3. DOMAIN u = Fields /\ u.at \in [Ops -> Labels]
  BY <1>1, <1>2 DEF Quiet, Kept
<1>4. Woken(u, j)
  BY <1>3, WakeQuiet
<1> HIDE DEF j
<1>5. Quiet(i, j)
  BY <1>2, <1>4, QuietTransitive DEF Woken
<1>6. Woken(i, j)
  BY <1>2, <1>4, <1>5 DEF Woken
<1> QED BY <1>6 DEF j, u

LEMMA OffQuiet ==
  ASSUME NEW r, DOMAIN r = Fields, NEW o
  PROVE  LET j == [At(r, o, "off") EXCEPT !.ec[o] = "ok"]
         IN  Quiet(r, j) /\ j.at = [r.at EXCEPT ![o] = "off"] /\ j.rd_block = r.rd_block
<1> DEFINE a == At(r, o, "off")
<1>1. Quiet(r, a) /\ a.at = [r.at EXCEPT ![o] = "off"] /\ a.rd_block = r.rd_block
  BY AtQuiet
<1> HIDE DEF a
<1>2. DOMAIN a = Fields
  BY <1>1 DEF Quiet, Kept
<1>3. LET j == [a EXCEPT !.ec[o] = "ok"]
      IN  Quiet(a, j) /\ j.at = a.at /\ j.rd_block = a.rd_block
  BY <1>2 DEF Quiet, Kept, Fields
<1> HIDE DEF Quiet
<1> QED BY <1>1, <1>3, QuietTransitive DEF a

LEMMA SendUpcallStop ==
  ASSUME IInv, IInv', StopInv(impl), NEW o \in Sends, Upcall(o)
  PROVE  StopInv(impl')
<1> DEFINE c == Claim(impl, "idle_pinging", impl.idle_pinging)
           k == IF o = "idle" THEN [c EXCEPT !.idle_pinging = FALSE] ELSE impl
           order == CASE o = "ping" -> AfterPing [] o = "write" -> AfterWrite
                      [] OTHER -> AfterIdle
           r == Wake(Unlock(k, "wr_block", o), order)
<1>1. Released(o) = r
  BY DEF Released, Sends
<1>2. /\ o \in Ops /\ o # "close" /\ MayRun(impl, o) /\ order \in Orders
      /\ LockInv(impl) /\ LockInv(impl') /\ DOMAIN impl = Fields
  BY Runs, InFields DEF Sends, Ops, Upcall, Running, Orders, IInv
<1>3. impl' = [At(r, o, "off") EXCEPT !.ec[o] = "ok"]
  BY <1>1 DEF Upcall
<1>4. o = "idle" => impl.idle_pinging
  BY <1>2 DEF LockInv, Upcall
<1>5. o = "idle" => Quiet(impl, c) /\ c.at = impl.at /\ c.rd_block = impl.rd_block
  BY <1>2, <1>4, ClaimQuiet
<1>6. Quiet(impl, k) /\ k.at = impl.at /\ k.rd_block = impl.rd_block
  <2>1. CASE o = "idle"
    <3>1. DOMAIN c = Fields
      BY <1>5, <2>1 DEF Quiet, Kept
    <3> HIDE DEF c
    <3>2. Quiet(c, k) /\ k.at = c.at /\ k.rd_block = c.rd_block
      BY <2>1, <3>1 DEF Quiet, Kept, Fields
    <3> HIDE DEF k
    <3> QED BY <1>5, <2>1, <3>2, QuietTransitive
  <2>2. CASE o # "idle"
    BY <1>2, <2>2 DEF Quiet, Kept
  <2> QED BY <2>1, <2>2
<1> HIDE DEF k, order
<1>12. LockInv(impl) /\ order \in Orders
  BY <1>2
<1>13. Woken(impl, r)
  BY <1>6, <1>12, WokenQuiet
<1>7. /\ Quiet(impl, r) /\ r.rd_block = impl.rd_block
      /\ \A p \in Ops : Resumes(impl.at[p], r.at[p], p, FALSE)
  BY <1>13 DEF Woken
<1> HIDE DEF r
<1>8. DOMAIN r = Fields
  BY <1>7 DEF Quiet, Kept
<1>9. Quiet(r, impl') /\ impl'.at = [r.at EXCEPT ![o] = "off"] /\ impl'.rd_block = r.rd_block
  BY <1>3, <1>8, OffQuiet
<1>10. Quiet(impl, impl')
  BY <1>7, <1>9, QuietTransitive
<1>11. Resumed(impl, impl', o)
  BY <1>7, <1>9 DEF Resumed, Resumes
<1> QED BY <1>2, <1>10, <1>11, SendKeepsStop


(* The timer.                                                              *)
LEMMA StillKeepsStop ==
  ASSUME NEW i, NEW j, LockInv(i), LockInv(j), StopInv(i), Quiet(i, j), j.at = i.at,
         j.rd_block = i.rd_block
  PROVE  StopInv(j)
<1>1. /\ i.failed \subseteq {"aborted"} => j.failed \subseteq {"aborted"}
      /\ Stopped(j) <=> Stopped(i)
  BY DEF Quiet, Kept, LockInv, Harmless, Stopped
<1> QED BY <1>1 DEF StopInv, Quiet, Kept

LEMMA ExpireStop ==
  ASSUME IInv, IInv', StopInv(impl), Expire
  PROVE  StopInv(impl')
<1>1. Quiet(impl, impl') /\ impl'.at = impl.at /\ impl'.rd_block = impl.rd_block
  BY InFields DEF Expire, Quiet, Kept, Fields
<1> QED BY <1>1, StillKeepsStop DEF IInv

LEMMA StartIdlePingQuiet ==
  ASSUME NEW i, LockInv(i)
  PROVE  Quiet(i, StartIdlePing(i)) /\ Resumed(i, StartIdlePing(i), "idle")
<1>1. DOMAIN i = Fields /\ "idle" \in Ops
  BY DEF LockInv, Ops
<1>2. CASE i.idle_pinging
  BY <1>1, <1>2 DEF StartIdlePing, Quiet, Kept, Resumed, Resumes
<1>3. CASE ~i.idle_pinging
  <2> DEFINE k == [i EXCEPT !.idle_pinging = TRUE]
             j == TryLock(k, "wr_block", "idle", "begin", "wait_wr")
  <2>1. StartIdlePing(i) = j
    BY <1>3 DEF StartIdlePing
  <2>2. Quiet(i, k) /\ k.at = i.at /\ k.rd_block = i.rd_block /\ DOMAIN k = Fields
    BY <1>1 DEF Quiet, Kept, Fields
  <2> HIDE DEF k
  <2>3. /\ Quiet(k, j)
        /\ j.at = [k.at EXCEPT !["idle"] = "begin"] \/ j.at = [k.at EXCEPT !["idle"] = "wait_wr"]
        /\ j.rd_block = k.rd_block
    BY <2>2, TryQuiet
  <2> HIDE DEF j
  <2>4. Quiet(i, j)
    BY <2>2, <2>3, QuietTransitive
  <2>5. Resumed(i, j, "idle")
    BY <1>1, <2>2, <2>3, AloneResumed
  <2> QED BY <2>1, <2>4, <2>5
<1> QED BY <1>2, <1>3

LEMMA TimeoutHandlerStop ==
  ASSUME IInv, IInv', StopInv(impl), TimeoutHandler
  PROVE  StopInv(impl')
<1> DEFINE i == [impl EXCEPT !.fired = FALSE]
           p == StartIdlePing(i)
<1>1. \/ impl' = i
      \/ impl' = [p EXCEPT !.idle_counter = @ + 1, !.timer = TRUE]
      \/ impl' = TimeOut(i)
  BY DEF TimeoutHandler
<1>2. Quiet(impl, i) /\ i.at = impl.at /\ i.rd_block = impl.rd_block /\ Alike(impl, i)
  BY InFields DEF Quiet, Kept, Fields, Alike
<1> HIDE DEF i
<1>3. LockInv(impl) /\ LockInv(impl') /\ MayRun(impl, "idle") /\ "idle" \in Ops
      /\ "idle" \in Sends
  BY Runs DEF IInv, TimeoutHandler, Ops, Sends
<1>4. LockInv(i)
  BY <1>2, <1>3, AlikeKeeps
<1>5. CASE impl' = i
  BY <1>2, <1>3, <1>5, StillKeepsStop
<1>6. CASE impl' = [p EXCEPT !.idle_counter = @ + 1, !.timer = TRUE]
  <2>1. Quiet(i, p) /\ Resumed(i, p, "idle")
    BY <1>4, StartIdlePingQuiet
  <2> HIDE DEF p
  <2>2. Quiet(p, impl') /\ impl'.at = p.at /\ impl'.rd_block = p.rd_block
    BY <1>6, <2>1 DEF Quiet, Kept, Fields
  <2>3. Quiet(impl, impl')
    BY <1>2, <2>1, <2>2, QuietTransitive
  <2>4. Resumed(impl, impl', "idle")
    BY <1>2, <2>1, <2>2 DEF Resumed, Quiet, Stopped
  <2> QED BY <1>3, <2>3, <2>4, SendKeepsStop
<1>7. CASE impl' = TimeOut(i)
  <2>1. /\ Kept(i, impl') /\ Stopped(impl') /\ impl'.at = i.at /\ impl'.rd_block = i.rd_block
    BY <1>2, <1>7 DEF TimeOut, Quiet, Kept, Fields, Stopped
  <2>2. Kept(impl, impl')
    BY <1>2, <2>1, QuietKept
  <2>3. Legal(impl, impl', "idle")
    BY <2>1, <2>2 DEF Legal, Kept
  <2>4. Resumed(impl, impl', "idle")
    BY <1>2, <2>1 DEF Resumed, Resumes
  <2> QED BY <1>3, <2>3, <2>4, StepKeepsStop
<1> QED BY <1>1, <1>5, <1>6, <1>7


------------------------------------------------------------------------------
(* The close.                                                              *)
LEMMA OthersQuiet ==
  ASSUME NEW i, DOMAIN i = Fields
  PROVE  /\ Quiet(i, i)
         /\ LET j == UpdateTimer(i) IN Quiet(i, j) /\ j.at = i.at /\ j.rd_block = i.rd_block
         /\ LET j == ResetIdle(i) IN Quiet(i, j) /\ j.at = i.at /\ j.rd_block = i.rd_block
         /\ \A n : LET j == Consume(i, n)
                   IN  Quiet(i, j) /\ j.at = i.at /\ j.rd_block = i.rd_block
<1>1. Quiet(i, i)
  BY DEF Quiet, Kept
<1>2. LET j == UpdateTimer(i) IN Quiet(i, j) /\ j.at = i.at /\ j.rd_block = i.rd_block
  BY DEF Quiet, Kept, Fields, UpdateTimer
<1>3. LET j == ResetIdle(i) IN Quiet(i, j) /\ j.at = i.at /\ j.rd_block = i.rd_block
  BY DEF Quiet, Kept, Fields, ResetIdle
<1>4. \A n : LET j == Consume(i, n)
             IN  Quiet(i, j) /\ j.at = i.at /\ j.rd_block = i.rd_block
  BY DEF Quiet, Kept, Fields, Consume
<1> QED BY <1>1, <1>2, <1>3, <1>4

LEMMA CommitQuiet ==
  ASSUME IInv, NEW n
  PROVE  LET j == Commit(n) IN Quiet(impl, j) /\ j.at = impl.at /\ j.rd_block = impl.rd_block
BY InFields DEF Quiet, Kept, Fields, Commit

(* A header that is taken: the size of the payload, and nothing else.      *)
LEMMA ParseKept ==
  ASSUME NEW i, DOMAIN i = Fields, NEW u
  PROVE  LET j == ParseHeader(i, u)
         IN  /\ j.at = i.at /\ j.rd_block = i.rd_block /\ DOMAIN j = Fields /\ j.opt = i.opt
             /\ j.rd_close = i.rd_close /\ j.wr_close = i.wr_close /\ j.rd_done = i.rd_done
             /\ j.failed = i.failed /\ j.status = i.status /\ j.timed_out = i.timed_out
             /\ j.ec_delivered = i.ec_delivered
             /\ j.rd_remain = IF u.kind \in Data THEN u.len ELSE i.rd_remain
<1> DEFINE c == Consume(i, 1)
           d == [c EXCEPT !.rd_fin = u.fin]
<1>1. /\ c.at = i.at /\ c.rd_block = i.rd_block /\ DOMAIN c = Fields /\ c.opt = i.opt
      /\ c.rd_close = i.rd_close /\ c.wr_close = i.wr_close /\ c.rd_done = i.rd_done
      /\ c.failed = i.failed /\ c.status = i.status /\ c.timed_out = i.timed_out
      /\ c.ec_delivered = i.ec_delivered /\ c.rd_remain = i.rd_remain
  BY DEF Fields, Consume
<1> HIDE DEF c
<1>2. /\ d.at = c.at /\ d.rd_block = c.rd_block /\ DOMAIN d = Fields /\ d.opt = c.opt
      /\ d.rd_close = c.rd_close /\ d.wr_close = c.wr_close /\ d.rd_done = c.rd_done
      /\ d.failed = c.failed /\ d.status = c.status /\ d.timed_out = c.timed_out
      /\ d.ec_delivered = c.ec_delivered /\ d.rd_remain = c.rd_remain
  BY <1>1 DEF Fields
<1>3. ParseHeader(i, u) = IF u.kind \in Data
                          THEN [d EXCEPT !.rd_cont = ~u.fin, !.rd_remain = u.len] ELSE d
  BY DEF ParseHeader, c
<1> HIDE DEF d
<1>4. CASE u.kind \in Data
  BY <1>1, <1>2, <1>3, <1>4 DEF Fields
<1>5. CASE u.kind \notin Data
  BY <1>1, <1>2, <1>3, <1>5
<1> QED BY <1>4, <1>5

LEMMA EndedEnds ==
  ASSUME NEW i, DOMAIN i = Fields, NEW o, NEW ec, NEW result
  PROVE  Ends(i, Ended(i, o, ec, result), o)
<1> DEFINE e == IF ec = "ok" THEN result ELSE ec
           c == Claim(i, "wr_block", i.wr_block = o)
           d == [c EXCEPT !.status = IF e \in {"ok", "closed"} THEN "closed" ELSE "failed",
                          !.timer = FALSE]
           j == ToUpcall(d, o, e)
<1>1. Quiet(i, c) /\ c.at = i.at /\ c.rd_block = i.rd_block
  BY ClaimQuiet DEF Harmless, LockClaims
<1>2. Ended(i, o, ec, result) = j
  BY DEF Ended
<1> HIDE DEF c
<1>3. Kept(c, d) /\ Stopped(d) /\ d.at = c.at /\ d.rd_block = c.rd_block /\ DOMAIN d = Fields
  BY <1>1 DEF Quiet, Kept, Fields, Stopped
<1> HIDE DEF d
<1>4. Quiet(d, j) /\ j.at = [d.at EXCEPT ![o] = "upcall"] /\ j.rd_block = d.rd_block
  BY <1>3, ToUpcallQuiet
<1> HIDE DEF j
<1>5. Kept(i, j)
  BY <1>1, <1>3, <1>4 DEF Quiet, Kept
<1>6. Stopped(j)
  BY <1>3, <1>4 DEF Quiet, Stopped
<1>7. j.at = [i.at EXCEPT ![o] = "upcall"] /\ j.rd_block = i.rd_block
  BY <1>1, <1>3, <1>4
<1> QED BY <1>2, <1>5, <1>6, <1>7 DEF Ends

(* While the close works it alone has wr_block, and rd_block to read.      *)
LEMMA CloseAlone ==
  ASSUME NEW i, LockInv(i), StopInv(i), ~Stopped(i)
  PROVE  /\ i.at.close \in {"begin", "got_wr"} => ~i.wr_close
         /\ i.at.close \in {"got_rd", "discard"} => ~i.rd_close
         /\ i.at.close = "send" /\ i.rd_close /\ MayRun(i, "close") => i.at.read = "fail_wait"
<1>1. /\ "close" \in Ops /\ "read" \in Ops
      /\ i.at.close \notin {"off", "wait_wr"} => i.wr_block = "close"
      /\ i.at.read \in ReadWrites => i.wr_block = "read"
      /\ i.at.close \in CloseReads => i.rd_block = "close"
      /\ i.at.read \in ReadReads => i.rd_block = "read"
  BY DEF LockInv, WriteInv, ReadInv, Ops
<1>2. i.at.close \in {"begin", "got_wr"} => ~i.wr_close
  BY <1>1 DEF StopInv, CloseWrote, ReadWrites
<1>3. i.at.close \in {"got_rd", "discard"} => ~i.rd_close
  BY <1>1 DEF StopInv, Failing, ReadWrites, ReadReads, CloseReads
<1>4. ASSUME i.at.close = "send", i.rd_close, MayRun(i, "close")
      PROVE  i.at.read = "fail_wait"
  <2>1. i.at.read \in Failing
    BY <1>4 DEF StopInv
  <2>2. i.at.read \notin Running
    BY <1>1, <1>4 DEF MayRun, Running
  <2>3. i.at.read \notin ReadWrites
    BY <1>1, <1>4
  <2> QED BY <2>1, <2>2, <2>3 DEF Failing, Running, ReadWrites
<1> QED BY <1>2, <1>3, <1>4

LEMMA CloseStep ==
  ASSUME NEW j, IInv, LockInv(j), StopInv(impl), MayRun(impl, "close"), NEW l,
         j.at = [impl.at EXCEPT !["close"] = l], Legal(impl, j, "close"), CloseLegal(impl, j)
  PROVE  StopInv(j)
<1>1. "close" \in Ops /\ LockInv(impl)
  BY DEF Ops, IInv
<1>2. Resumed(impl, j, "close")
  BY <1>1, AloneResumed
<1> QED BY <1>1, <1>2, StepKeepsStop

LEMMA CloseStartStop ==
  ASSUME IInv, IInv', StopInv(impl), CloseStart
  PROVE  StopInv(impl')
<1>1. impl' = TryLock(impl, "wr_block", "close", "begin", "wait_wr")
  BY DEF CloseStart
<1>2. /\ Quiet(impl, impl')
      /\ \/ impl'.at = [impl.at EXCEPT !["close"] = "begin"]
         \/ impl'.at = [impl.at EXCEPT !["close"] = "wait_wr"]
  BY <1>1, InFields, TryQuiet
<1>3. /\ impl.at.close = "off" /\ "close" \in Ops /\ MayRun(impl, "close")
      /\ impl.at \in [Ops -> Labels]
  BY Runs DEF CloseStart, Ops, IInv, LockInv, LabelsInv
<1>4. impl'.at.close \in {"begin", "wait_wr"}
  BY <1>2, <1>3
<1>5. CloseLegal(impl, impl')
  BY <1>3, <1>4 DEF CloseLegal, CloseWrote, Discarding
<1> QED BY <1>2, <1>3, <1>5, QuietLegal, CloseStep DEF IInv

LEMMA CloseBeginStop ==
  ASSUME IInv, IInv', StopInv(impl), CloseBegin
  PROVE  StopInv(impl')
<1> DEFINE i == Claim(impl, "wr_close", ~impl.wr_close)
           k == [i EXCEPT !.wr_close = TRUE, !.status = "closing"]
           m == UpdateTimer(k)
           l == At(m, "close", "send")
<1>1. impl' = CheckStop(impl, "close", "ok", l)
  BY DEF CloseBegin
<1>2. /\ impl.at.close \in {"begin", "got_wr"} /\ "close" \in Ops /\ MayRun(impl, "close")
      /\ LockInv(impl) /\ LockInv(impl') /\ DOMAIN impl = Fields
  BY InFields, Runs DEF CloseBegin, Ops, Running, IInv
<1>3. ASSUME ~Stopped(impl), impl' = l PROVE StopInv(impl')
  <2>1. i = impl
    BY <1>2, <1>3, CloseAlone DEF Claim
  <2>2. /\ k.at = impl.at /\ k.rd_block = impl.rd_block /\ DOMAIN k = Fields
        /\ k.opt = impl.opt /\ k.rd_close = impl.rd_close /\ k.rd_done = impl.rd_done
        /\ k.rd_remain = impl.rd_remain /\ k.failed = impl.failed
        /\ k.timed_out = impl.timed_out /\ k.ec_delivered = impl.ec_delivered
        /\ k.wr_close = TRUE /\ k.status = "closing"
    BY <1>2, <2>1 DEF Fields
  <2> HIDE DEF k
  <2>3. Quiet(k, m) /\ m.at = k.at /\ DOMAIN m = Fields
    BY <2>2, OthersQuiet DEF Quiet, Kept
  <2> HIDE DEF m
  <2>4. Quiet(m, l) /\ l.at = [m.at EXCEPT !["close"] = "send"]
    BY <2>3, AtQuiet
  <2> HIDE DEF l
  <2>5. Quiet(k, l)
    BY <2>3, <2>4, QuietTransitive
  <2>6. l.at = [impl.at EXCEPT !["close"] = "send"]
    BY <2>2, <2>3, <2>4
  <2>7. l.at.close = "send"
    BY <1>2, <2>6 DEF LockInv, LabelsInv
  <2>8. Legal(impl, l, "close")
    BY <1>3, <2>2, <2>5, <2>7 DEF Quiet, Kept, Legal
  <2>9. CloseLegal(impl, l)
    BY <1>2, <2>7 DEF CloseLegal, CloseWrote, Discarding
  <2> QED BY <1>2, <1>3, <2>6, <2>8, <2>9, CloseStep
<1>4. Quiet(impl, impl)
  BY <1>2, OthersQuiet
<1> HIDE DEF l
<1> QED BY <1>1, <1>2, <1>3, <1>4, CheckKeepsStop


LEMMA CloseFrameSentStop ==
  ASSUME IInv, IInv', StopInv(impl), CloseFrameSent
  PROVE  StopInv(impl')
<1> DEFINE t == At(impl, "close", "teardown")
           r == TryLock(impl, "rd_block", "close", "discard", "wait_rd")
           l == IF impl.rd_close THEN t ELSE r
<1>1. PICK ec : impl' = CheckStop(impl, "close", ec, l)
  BY DEF CloseFrameSent
<1>2. /\ impl.at.close = "send" /\ "close" \in Ops /\ "read" \in Ops /\ MayRun(impl, "close")
      /\ LockInv(impl) /\ LockInv(impl') /\ DOMAIN impl = Fields
      /\ impl.at \in [Ops -> Labels]
  BY InFields, Runs DEF CloseFrameSent, Ops, IInv, LockInv, LabelsInv
<1>3. ASSUME ~Stopped(impl), impl' = l PROVE StopInv(impl')
  <2>1. CASE impl.rd_close
    <3>1. impl.at.read = "fail_wait"
      BY <1>2, <1>3, <2>1, CloseAlone
    <3>2. Quiet(impl, t) /\ t.at = [impl.at EXCEPT !["close"] = "teardown"]
      BY <1>2, AtQuiet
    <3> HIDE DEF t
    <3>3. t.at.close = "teardown" /\ t.at.read = "fail_wait"
      BY <1>2, <3>1, <3>2
    <3>4. CloseLegal(impl, t)
      BY <1>2, <3>3 DEF CloseLegal, CloseWrote, Discarding
    <3> QED BY <1>2, <1>3, <2>1, <3>2, <3>4, QuietLegal, CloseStep
  <2>2. CASE ~impl.rd_close
    <3>1. /\ Quiet(impl, r)
          /\ \/ r.at = [impl.at EXCEPT !["close"] = "discard"]
             \/ r.at = [impl.at EXCEPT !["close"] = "wait_rd"]
      BY <1>2, TryQuiet
    <3> HIDE DEF r
    <3>2. r.at.close \in {"discard", "wait_rd"} /\ ~Stopped(r)
      BY <1>2, <1>3, <3>1 DEF Quiet, Stopped
    <3>3. CloseLegal(impl, r)
      BY <1>2, <3>2 DEF CloseLegal, CloseWrote, Discarding
    <3> QED BY <1>2, <1>3, <2>2, <3>1, <3>3, QuietLegal, CloseStep
  <2> QED BY <2>1, <2>2
<1>4. Quiet(impl, impl)
  BY <1>2, OthersQuiet
<1> HIDE DEF l
<1> QED BY <1>1, <1>2, <1>3, <1>4, CheckKeepsStop

LEMMA CloseGrantedReadStop ==
  ASSUME IInv, IInv', StopInv(impl), CloseGrantedRead
  PROVE  StopInv(impl')
<1> DEFINE i == Claim(impl, "rd_block", impl.rd_block = "close")
           l == At(Claim(i, "rd_close", ~i.rd_close), "close", "discard")
<1>1. impl' = CheckStop(i, "close", "ok", l)
  BY DEF CloseGrantedRead
<1>2. /\ impl.at.close = "got_rd" /\ "close" \in Ops /\ MayRun(impl, "close")
      /\ LockInv(impl) /\ LockInv(impl') /\ DOMAIN impl = Fields
      /\ impl.at \in [Ops -> Labels]
  BY InFields, Runs DEF CloseGrantedRead, Ops, IInv, LockInv, LabelsInv
<1>3. impl.rd_block = "close"
  BY <1>2 DEF LockInv, ReadInv, CloseReads
<1>4. i = impl
  BY <1>3 DEF Claim
<1>5. ASSUME ~Stopped(impl), impl' = l PROVE StopInv(impl')
  <2>1. ~impl.rd_close
    BY <1>2, <1>5, CloseAlone
  <2>2. l = At(impl, "close", "discard")
    BY <1>4, <2>1 DEF Claim
  <2> HIDE DEF l
  <2>3. Quiet(impl, l) /\ l.at = [impl.at EXCEPT !["close"] = "discard"]
    BY <1>2, <2>2, AtQuiet
  <2>4. l.at.close = "discard" /\ ~Stopped(l)
    BY <1>2, <1>5, <2>3 DEF Quiet, Stopped
  <2>5. CloseLegal(impl, l)
    BY <1>2, <2>4 DEF CloseLegal, CloseWrote, Discarding
  <2> QED BY <1>2, <1>5, <2>3, <2>5, QuietLegal, CloseStep
<1>6. Quiet(impl, impl)
  BY <1>2, OthersQuiet
<1> HIDE DEF i, l
<1> QED BY <1>1, <1>2, <1>4, <1>5, <1>6, CheckKeepsStop

(* The close goes on at l.                                                 *)
LEMMA DiscardStep ==
  ASSUME NEW j, IInv, LockInv(j), StopInv(impl), impl.at.close = "discard",
         NEW l \in {"discard", "more", "teardown"},
         j.at = [impl.at EXCEPT !["close"] = l], j.rd_block = impl.rd_block,
         j.opt = impl.opt, j.failed \subseteq impl.failed \cup Harmless,
         j.status = impl.status, j.timed_out = impl.timed_out,
         j.ec_delivered = impl.ec_delivered, j.wr_close = impl.wr_close,
         j.rd_done = impl.rd_done, j.rd_close => impl.rd_close \/ l = "teardown",
         l = "teardown" => j.rd_remain = impl.rd_remain
  PROVE  StopInv(j)
<1>1. /\ "close" \in Ops /\ MayRun(impl, "close") /\ impl.at \in [Ops -> Labels]
      /\ impl.rd_block = "close" /\ ~Stopped(impl)
  BY Runs DEF Ops, Running, IInv, LockInv, LabelsInv, ReadInv, CloseReads, StopInv
<1>2. j.at.close = l /\ ~Stopped(j)
  BY <1>1 DEF Stopped
<1>3. Legal(impl, j, "close")
  BY <1>2 DEF Legal
<1>4. CloseLegal(impl, j)
  BY <1>1, <1>2 DEF CloseLegal, CloseWrote, Discarding
<1> QED BY <1>1, <1>3, <1>4, CloseStep

LEMMA ToTeardownKept ==
  ASSUME NEW i, DOMAIN i = Fields, NEW ec
  PROVE  LET j == ToTeardown(i, ec)
         IN  Quiet(i, j) /\ j.at = [i.at EXCEPT !["close"] = "teardown"] /\ j.rd_block = i.rd_block
<1> DEFINE k == [i EXCEPT !.ec.close = ec]
<1>1. Quiet(i, k) /\ k.at = i.at /\ k.rd_block = i.rd_block /\ DOMAIN k = Fields
  BY DEF Quiet, Kept, Fields
<1>2. ToTeardown(i, ec) = At(k, "close", "teardown")
  BY DEF ToTeardown
<1> HIDE DEF k
<1>3. LET j == At(k, "close", "teardown")
      IN  Quiet(k, j) /\ j.at = [k.at EXCEPT !["close"] = "teardown"] /\ j.rd_block = k.rd_block
  BY <1>1, AtQuiet
<1> QED BY <1>1, <1>2, <1>3, QuietTransitive

LEMMA CloseDiscardStop ==
  ASSUME IInv, IInv', StopInv(impl), CloseDiscard
  PROVE  StopInv(impl')
<1> DEFINE u == impl.rd_buf[1]
           n == TheLesser(impl.rd_remain, Len(impl.rd_buf))
           i == ParseHeader(impl, u)
           c == Consume(impl, n)
           d == [c EXCEPT !.rd_remain = @ - n]
           l == IF n < impl.rd_remain THEN "more" ELSE "discard"
           e == Claim(i, "rd_close", ~i.rd_close)
           f == [e EXCEPT !.rd_close = TRUE]
           ec == IF u.kind = "close" THEN "ok" ELSE u.kind
<1>1. \/ impl' = At(d, "close", l)
      \/ impl' = At(impl, "close", "more")
      \/ impl' = ToTeardown(impl, HeaderError(impl, u))
      \/ u.kind \in {"close", "bad_close"} /\ impl' = ToTeardown(f, ec)
      \/ impl' = i
  <2>1. impl' =
       CASE impl.rd_remain > 0 -> At(d, "close", l)
         [] impl.rd_remain = 0 /\ impl.rd_buf = <<>> -> At(impl, "close", "more")
         [] impl.rd_remain = 0 /\ impl.rd_buf # <<>>
            /\ HeaderError(impl, u) # "ok" ->
              ToTeardown(impl, HeaderError(impl, u))
         [] OTHER ->
              CASE u.kind = "close" \/ u.kind = "bad_close" -> ToTeardown(f, ec)
                [] OTHER -> i
    BY DEF CloseDiscard
  <2> HIDE DEF u, n, i, c, d, l, e, f, ec
  <2> QED BY <2>1
<1>2. /\ impl.at.close = "discard" /\ impl.at \in [Ops -> Labels] /\ "close" \in Ops
      /\ LockInv(impl) /\ LockInv(impl') /\ DOMAIN impl = Fields /\ ~Stopped(impl)
  BY InFields DEF CloseDiscard, Ops, IInv, LockInv, LabelsInv, StopInv
<1>3. ~impl.rd_close
  BY <1>2, CloseAlone
<1>4. CASE impl' = At(d, "close", l)
  <2>1. Quiet(impl, c) /\ c.at = impl.at /\ c.rd_block = impl.rd_block
    BY <1>2, OthersQuiet
  <2> HIDE DEF c
  <2>2. /\ d.at = c.at /\ d.rd_block = c.rd_block /\ d.opt = c.opt /\ d.failed = c.failed
        /\ d.status = c.status /\ d.timed_out = c.timed_out /\ d.ec_delivered = c.ec_delivered
        /\ d.wr_close = c.wr_close /\ d.rd_done = c.rd_done /\ d.rd_close = c.rd_close
        /\ DOMAIN d = Fields
    BY <2>1 DEF Quiet, Kept, Fields
  <2>3. l \in {"discard", "more", "teardown"} /\ l # "teardown"
    OBVIOUS
  <2> HIDE DEF d, l
  <2>4. Quiet(d, impl') /\ impl'.at = [d.at EXCEPT !["close"] = l] /\ impl'.rd_block = d.rd_block
    BY <1>4, <2>2, AtQuiet
  <2>5. /\ impl'.opt = impl.opt /\ impl'.failed \subseteq impl.failed \cup Harmless
        /\ impl'.status = impl.status /\ impl'.timed_out = impl.timed_out
        /\ impl'.ec_delivered = impl.ec_delivered /\ impl'.wr_close = impl.wr_close
        /\ impl'.rd_done = impl.rd_done /\ impl'.rd_close = impl.rd_close
    BY <2>1, <2>2, <2>4 DEF Quiet, Kept
  <2>6. impl'.at = [impl.at EXCEPT !["close"] = l] /\ impl'.rd_block = impl.rd_block
    BY <2>1, <2>2, <2>4
  <2> QED BY <1>2, <2>3, <2>5, <2>6, DiscardStep
<1>5. CASE impl' = At(impl, "close", "more")
  <2>1. /\ Quiet(impl, impl') /\ impl'.at = [impl.at EXCEPT !["close"] = "more"]
        /\ impl'.rd_block = impl.rd_block
    BY <1>2, <1>5, AtQuiet
  <2> QED BY <1>2, <2>1, DiscardStep DEF Quiet, Kept
<1>6. CASE impl' = ToTeardown(impl, HeaderError(impl, u))
  <2>1. /\ Quiet(impl, impl') /\ impl'.at = [impl.at EXCEPT !["close"] = "teardown"]
        /\ impl'.rd_block = impl.rd_block
    BY <1>2, <1>6, ToTeardownKept
  <2> QED BY <1>2, <2>1, DiscardStep DEF Quiet, Kept
<1>7. /\ i.at = impl.at /\ i.rd_block = impl.rd_block /\ DOMAIN i = Fields /\ i.opt = impl.opt
      /\ i.rd_close = impl.rd_close /\ i.wr_close = impl.wr_close /\ i.rd_done = impl.rd_done
      /\ i.failed = impl.failed /\ i.status = impl.status /\ i.timed_out = impl.timed_out
      /\ i.ec_delivered = impl.ec_delivered
      /\ u.kind \notin Data => i.rd_remain = impl.rd_remain
  BY <1>2, ParseKept
<1>8. CASE impl' = i
  <2> HIDE DEF i
  <2>1. impl'.at = [impl.at EXCEPT !["close"] = "discard"]
    BY <1>2, <1>7, <1>8
  <2>2. impl'.failed \subseteq impl.failed \cup Harmless
    BY <1>7, <1>8
  <2>3. /\ impl'.rd_block = impl.rd_block /\ impl'.opt = impl.opt
        /\ impl'.status = impl.status /\ impl'.timed_out = impl.timed_out
        /\ impl'.ec_delivered = impl.ec_delivered /\ impl'.wr_close = impl.wr_close
        /\ impl'.rd_done = impl.rd_done /\ impl'.rd_close = impl.rd_close
    BY <1>7, <1>8
  <2> QED BY <1>2, <2>1, <2>2, <2>3, DiscardStep
<1>9. CASE u.kind \in {"close", "bad_close"} /\ impl' = ToTeardown(f, ec)
  <2> HIDE DEF i, u, ec
  <2>1. e = i
    BY <1>3, <1>7 DEF Claim
  <2>2. /\ f.at = i.at /\ f.rd_block = i.rd_block /\ f.opt = i.opt /\ f.failed = i.failed
        /\ f.status = i.status /\ f.timed_out = i.timed_out /\ f.ec_delivered = i.ec_delivered
        /\ f.wr_close = i.wr_close /\ f.rd_done = i.rd_done /\ f.rd_remain = i.rd_remain
        /\ DOMAIN f = Fields
    BY <1>7, <2>1 DEF Fields
  <2> HIDE DEF e, f
  <2>3. /\ Quiet(f, impl') /\ impl'.at = [f.at EXCEPT !["close"] = "teardown"]
        /\ impl'.rd_block = f.rd_block
    BY <1>9, <2>2, ToTeardownKept
  <2>4. i.rd_remain = impl.rd_remain
    BY <1>7, <1>9 DEF Data
  <2>5. /\ impl'.opt = impl.opt /\ impl'.failed \subseteq impl.failed \cup Harmless
        /\ impl'.status = impl.status /\ impl'.timed_out = impl.timed_out
        /\ impl'.ec_delivered = impl.ec_delivered /\ impl'.wr_close = impl.wr_close
        /\ impl'.rd_done = impl.rd_done /\ impl'.rd_remain = impl.rd_remain
    BY <1>7, <2>2, <2>3, <2>4 DEF Quiet, Kept
  <2>6. impl'.at = [impl.at EXCEPT !["close"] = "teardown"] /\ impl'.rd_block = impl.rd_block
    BY <1>7, <2>2, <2>3
  <2> QED BY <1>2, <2>5, <2>6, DiscardStep
<1> HIDE DEF u, n, i, c, d, l, e, f, ec
<1> QED BY <1>1, <1>4, <1>5, <1>6, <1>8, <1>9


LEMMA CloseMoreStop ==
  ASSUME IInv, IInv', StopInv(impl), CloseMore
  PROVE  StopInv(impl')
<1>1. /\ impl.at.close = "more" /\ "close" \in Ops /\ MayRun(impl, "close")
      /\ LockInv(impl) /\ LockInv(impl') /\ DOMAIN impl = Fields
      /\ impl.at \in [Ops -> Labels]
  BY InFields, Runs DEF CloseMore, Ops, IInv, LockInv, LabelsInv
<1>2. ASSUME NEW n, impl' = CheckStop(Commit(n), "close", "ok", At(Commit(n), "close", "discard"))
      PROVE  StopInv(impl')
  <2> DEFINE i == Commit(n)
             l == At(i, "close", "discard")
  <2>1. Quiet(impl, i) /\ i.at = impl.at /\ i.rd_block = impl.rd_block
    BY CommitQuiet
  <2>2. impl' = CheckStop(i, "close", "ok", l)
    BY <1>2
  <2> HIDE DEF i
  <2>3. DOMAIN i = Fields
    BY <2>1 DEF Quiet, Kept
  <2>4. Quiet(i, l) /\ l.at = [i.at EXCEPT !["close"] = "discard"]
    BY <2>3, AtQuiet
  <2> HIDE DEF l
  <2>5. Quiet(impl, l)
    BY <2>1, <2>4, QuietTransitive
  <2>6. ASSUME ~Stopped(impl), impl' = l PROVE StopInv(impl')
    <3>1. l.at = [impl.at EXCEPT !["close"] = "discard"]
      BY <2>1, <2>4
    <3>2. l.at.close = "discard" /\ ~Stopped(l)
      BY <1>1, <2>5, <2>6, <3>1 DEF Quiet, Stopped
    <3>3. CloseLegal(impl, l)
      BY <1>1, <3>2 DEF CloseLegal, CloseWrote, Discarding
    <3> QED BY <1>1, <2>5, <2>6, <3>1, <3>3, QuietLegal, CloseStep
  <2> QED BY <1>1, <2>1, <2>2, <2>6, CheckKeepsStop
<1>3. ASSUME NEW ec, ec # "ok", impl' = CheckStop(impl, "close", ec, impl)
      PROVE  StopInv(impl')
  <2>1. Quiet(impl, impl)
    BY <1>1, OthersQuiet
  <2> QED BY <1>1, <1>3, <2>1, CheckKeepsStop
<1>4. \/ \E n : impl' = CheckStop(Commit(n), "close", "ok", At(Commit(n), "close", "discard"))
      \/ \E ec : ec # "ok" /\ impl' = CheckStop(impl, "close", ec, impl)
  BY DEF CloseMore, Errors
<1> QED BY <1>2, <1>3, <1>4

LEMMA CloseTornDownStop ==
  ASSUME IInv, IInv', StopInv(impl), CloseTornDown
  PROVE  StopInv(impl')
<1>1. PICK ec : impl' = Ended(impl, "close", ec, impl.ec.close)
  BY DEF CloseTornDown
<1>2. /\ "close" \in Ops /\ MayRun(impl, "close") /\ DOMAIN impl = Fields
      /\ LockInv(impl) /\ LockInv(impl')
  BY InFields, Runs DEF CloseTornDown, Ops, IInv
<1>3. Ends(impl, impl', "close")
  BY <1>1, <1>2, EndedEnds
<1> QED BY <1>2, <1>3, EndKeepsStop

(* A stream whose close ends has stopped: a read that is resumed then goes *)
(* no further.                                                             *)
LEMMA CloseUpcallStop ==
  ASSUME IInv, IInv', StopInv(impl), Upcall("close")
  PROVE  StopInv(impl')
<1> DEFINE i == Unlock(impl, "wr_block", "close")
           v == Unlock(i, "rd_block", "close")
           w == WakeReader(v, "read")
           n == IF i.rd_block = "close" THEN w ELSE i
           r == Wake(n, AfterClose)
<1>1. impl' = [At(r, "close", "off") EXCEPT !.ec["close"] = "ok"]
  BY DEF Upcall, Released
<1>2. /\ impl.at.close = "upcall" /\ "close" \in Ops /\ "read" \in Ops
      /\ MayRun(impl, "close") /\ LockInv(impl) /\ LockInv(impl') /\ DOMAIN impl = Fields
      /\ impl.at \in [Ops -> Labels] /\ Stopped(impl)
  BY InFields, Runs DEF Upcall, Ops, Running, IInv, LockInv, LabelsInv, StopInv
<1>3. Quiet(impl, i) /\ i.at = impl.at
  BY <1>2, LockQuiet
<1> HIDE DEF i
<1>4. DOMAIN i = Fields
  BY <1>3 DEF Quiet, Kept
<1>5. Quiet(i, v) /\ v.at = i.at
  BY <1>4, LockQuiet
<1> HIDE DEF v
<1>6. DOMAIN v = Fields
  BY <1>5 DEF Quiet, Kept
<1>7. /\ Quiet(v, w)
      /\ \/ w = v
         \/ v.at["read"] = "wait_rd" /\ w.at = [v.at EXCEPT !["read"] = "got_rd"]
  BY <1>6, WakeReaderQuiet
<1> HIDE DEF w
<1>8. Quiet(impl, n)
  <2>1. Quiet(impl, w)
    BY <1>3, <1>5, <1>7, QuietTransitive
  <2> QED BY <1>3, <2>1
<1>9. \/ n.at = impl.at
      \/ impl.at.read = "wait_rd" /\ n.at = [impl.at EXCEPT !["read"] = "got_rd"]
  BY <1>3, <1>5, <1>7
<1> HIDE DEF n
<1>10. DOMAIN n = Fields /\ n.at \in [Ops -> Labels]
  <2>1. "got_rd" \in Labels
    BY DEF Labels
  <2> QED BY <1>2, <1>8, <1>9, <2>1 DEF Quiet, Kept
<1>11. Woken(n, r)
  BY <1>10, WakeQuiet DEF Orders
<1> HIDE DEF r
<1>12. DOMAIN r = Fields
  BY <1>11 DEF Woken, Quiet, Kept
<1>13. Quiet(r, impl') /\ impl'.at = [r.at EXCEPT !["close"] = "off"]
  BY <1>1, <1>12, OffQuiet
<1>14. Quiet(impl, impl')
  BY <1>8, <1>11, <1>13, QuietTransitive DEF Woken
<1>15. impl'.at.close = "off" /\ \A p \in Ops \ {"close"} : impl'.at[p] = r.at[p]
  BY <1>2, <1>11, <1>13 DEF Woken
<1>16. Resumed(impl, impl', "close")
  <2> SUFFICES ASSUME NEW p \in Ops \ {"close"}
               PROVE  Resumes(impl.at[p], impl'.at[p], p, Stopped(impl))
    BY DEF Resumed
  <2>1. Resumes(n.at[p], r.at[p], p, FALSE)
    BY <1>11 DEF Woken
  <2>2. CASE n.at[p] = impl.at[p]
    BY <1>15, <2>1, <2>2 DEF Resumes
  <2>3. CASE n.at[p] # impl.at[p]
    <3>1. p = "read" /\ impl.at[p] = "wait_rd" /\ n.at[p] = "got_rd"
      BY <1>2, <1>9, <2>3
    <3>2. r.at[p] = "got_rd"
      BY <2>1, <3>1 DEF Resumes
    <3> QED BY <1>2, <1>15, <3>1, <3>2 DEF Resumes
  <2> QED BY <2>2, <2>3
<1>17. CloseLegal(impl, impl')
  BY <1>2, <1>15 DEF CloseLegal, CloseWrote, Discarding
<1> QED BY <1>2, <1>14, <1>16, <1>17, QuietLegal, StepKeepsStop


------------------------------------------------------------------------------
(* The read.                                                               *)
LEMMA ReadFacts ==
  ASSUME IInv, IInv', Idle \/ impl.at.read \in Running
  PROVE  /\ "read" \in Ops /\ "close" \in Ops /\ MayRun(impl, "read")
         /\ LockInv(impl) /\ LockInv(impl') /\ DOMAIN impl = Fields
         /\ impl.at \in [Ops -> Labels] /\ Quiet(impl, impl)
BY InFields, Runs, OthersQuiet DEF Ops, IInv, LockInv, LabelsInv

LEMMA ReadStep ==
  ASSUME NEW j, IInv, LockInv(j), StopInv(impl), MayRun(impl, "read"), NEW l,
         j.at = [impl.at EXCEPT !["read"] = l],
         impl.rd_block = "close" => j.rd_block = "close",
         Legal(impl, j, "read"), ReadLegal(impl, j)
  PROVE  StopInv(j)
<1>1. "read" \in Ops /\ LockInv(impl)
  BY DEF Ops, IInv
<1>2. Resumed(impl, j, "read")
  BY <1>1, AloneResumed
<1> QED BY <1>1, <1>2, StepKeepsStop

(* A read goes to l and changes nothing else that matters.                 *)
LEMMA ReadGoes ==
  ASSUME NEW j, IInv, LockInv(j), StopInv(impl), MayRun(impl, "read"), NEW l,
         j.at = [impl.at EXCEPT !["read"] = l],
         impl.rd_block = "close" => j.rd_block = "close",
         Quiet(impl, j),
         l \notin {"posted", "got_rd"}, impl.at.read # "fail_wait",
         l \in Working => ~Stopped(impl),
         impl.at.read \in Failing => l \in Failing \/ Stopped(impl),
         impl.at.read \in {"close_send", "teardown"} => l \in {"close_send", "teardown"},
         l \in {"payload", "fill"} => ~impl.rd_done
  PROVE  StopInv(j)
<1>1. j.at.read = l
  BY DEF IInv, LockInv, LabelsInv, Ops
<1>2. Stopped(j) <=> Stopped(impl)
  BY DEF Quiet, Stopped
<1>3. ReadLegal(impl, j)
  BY <1>1, <1>2 DEF ReadLegal, Quiet, Kept
<1> QED BY <1>3, QuietLegal, ReadStep

LEMMA ReadStartStop ==
  ASSUME IInv, IInv', StopInv(impl), ReadStart
  PROVE  StopInv(impl')
<1> DEFINE t == UpdateTimer(impl)
           k == [t EXCEPT !.cont = FALSE, !.frame = "none"]
<1>1. impl' = At(k, "read", "acquire")
  BY DEF ReadStart
<1>2. /\ "read" \in Ops /\ MayRun(impl, "read") /\ LockInv(impl) /\ LockInv(impl')
      /\ DOMAIN impl = Fields /\ impl.at.read = "off"
  BY ReadFacts DEF ReadStart
<1>3. Quiet(impl, t) /\ t.at = impl.at /\ t.rd_block = impl.rd_block
  BY <1>2, OthersQuiet
<1> HIDE DEF t
<1>4. Quiet(t, k) /\ k.at = t.at /\ k.rd_block = t.rd_block /\ DOMAIN k = Fields
  BY <1>3 DEF Quiet, Kept, Fields
<1> HIDE DEF k
<1>5. /\ Quiet(k, impl') /\ impl'.at = [k.at EXCEPT !["read"] = "acquire"]
      /\ impl'.rd_block = k.rd_block
  BY <1>1, <1>4, AtQuiet
<1>6. Quiet(impl, impl')
  BY <1>3, <1>4, <1>5, QuietTransitive
<1>7. impl'.at = [impl.at EXCEPT !["read"] = "acquire"] /\ impl'.rd_block = impl.rd_block
  BY <1>3, <1>4, <1>5
<1> QED BY <1>2, <1>6, <1>7, ReadGoes DEF Working, Failing

LEMMA AcquireReadStop ==
  ASSUME IInv, IInv', StopInv(impl), AcquireRead
  PROVE  StopInv(impl')
<1> DEFINE i == TryLock(impl, "rd_block", "read", "loop", "wait_rd")
           u == ToUpcall(i, "read", "aborted")
<1>1. impl' = IF i.at.read = "loop" /\ Stopped(i) THEN u ELSE i
  BY DEF AcquireRead
<1>2. /\ "read" \in Ops /\ MayRun(impl, "read") /\ LockInv(impl) /\ LockInv(impl')
      /\ DOMAIN impl = Fields /\ impl.at.read = "acquire" /\ impl.at \in [Ops -> Labels]
  BY ReadFacts DEF AcquireRead, Running
<1>3. /\ Quiet(impl, i)
      /\ \/ i.at = [impl.at EXCEPT !["read"] = "loop"]
         \/ i.at = [impl.at EXCEPT !["read"] = "wait_rd"]
      /\ impl.rd_block = "close" => i.rd_block = "close"
  <2>1. LET j == i
        IN  /\ Quiet(impl, j)
            /\ \/ impl["rd_block"] = "none" /\ j.at = [impl.at EXCEPT !["read"] = "loop"]
               \/ impl["rd_block"] # "none" /\ j.at = [impl.at EXCEPT !["read"] = "wait_rd"]
            /\ impl.rd_block # "none" => j.rd_block = impl.rd_block
    BY <1>2, TryQuiet
  <2> HIDE DEF i
  <2> QED BY <2>1
<1> HIDE DEF i
<1>4. CASE i.at.read = "loop" /\ Stopped(i)
  <2>1. DOMAIN i = Fields
    BY <1>3 DEF Quiet, Kept
  <2>2. Quiet(i, u) /\ u.at = [i.at EXCEPT !["read"] = "upcall"] /\ u.rd_block = i.rd_block
    BY <2>1, ToUpcallQuiet, ZenonT(60)
  <2> HIDE DEF u
  <2>3. Quiet(impl, u)
    BY <1>3, <2>2, QuietTransitive
  <2>4. u.at = [impl.at EXCEPT !["read"] = "upcall"]
    BY <1>2, <1>3, <2>2
  <2> QED BY <1>1, <1>2, <1>3, <1>4, <2>2, <2>3, <2>4, ReadGoes DEF Working, Failing
<1>5. CASE ~(i.at.read = "loop" /\ Stopped(i))
  <2>1. CASE i.at = [impl.at EXCEPT !["read"] = "loop"]
    <3>1. ~Stopped(impl)
      BY <1>2, <1>3, <1>5, <2>1 DEF Quiet, Stopped
    <3> QED BY <1>1, <1>2, <1>3, <1>5, <2>1, <3>1, ReadGoes DEF Working, Failing
  <2>2. CASE i.at = [impl.at EXCEPT !["read"] = "wait_rd"]
    BY <1>1, <1>2, <1>3, <1>5, <2>2, ReadGoes DEF Working, Failing
  <2> QED BY <1>3, <2>1, <2>2
<1> QED BY <1>4, <1>5

LEMMA ReadGrantedStop ==
  ASSUME IInv, IInv', StopInv(impl), ReadGranted
  PROVE  StopInv(impl')
<1> DEFINE a == [impl EXCEPT !.cont = TRUE]
           i == Claim(a, "rd_block", impl.rd_block = "read")
           n == ToUpcall(Claim(i, "wr_close", i.wr_close /\ i.status # "open"), "read", "aborted")
           j == CheckStop(i, "read", "ok", n)
<1>1. impl' = Claim(j, "aborted", j.ec.read = "aborted")
  BY DEF ReadGranted
<1>2. /\ "read" \in Ops /\ MayRun(impl, "read") /\ LockInv(impl) /\ LockInv(impl')
      /\ DOMAIN impl = Fields /\ impl.at.read = "got_rd" /\ impl.at \in [Ops -> Labels]
  BY ReadFacts DEF ReadGranted
<1>3. Stopped(impl)
  BY <1>2 DEF StopInv
<1>4. Quiet(impl, a) /\ a.at = impl.at /\ a.rd_block = impl.rd_block /\ DOMAIN a = Fields
  BY <1>2 DEF Quiet, Kept, Fields
<1> HIDE DEF a
<1>5. Quiet(a, i) /\ i.at = a.at /\ i.rd_block = a.rd_block
  BY <1>4, ClaimQuiet DEF Harmless, LockClaims
<1> HIDE DEF i
<1>6. DOMAIN i = Fields /\ Stopped(i)
  BY <1>3, <1>4, <1>5 DEF Quiet, Kept, Stopped
<1> HIDE DEF n
<1>7. Ends(i, j, "read")
  BY <1>6, Stops
<1> HIDE DEF j
<1>8. DOMAIN j = Fields
  BY <1>7 DEF Ends, Kept
<1>9. Quiet(j, impl') /\ impl'.at = j.at /\ impl'.rd_block = j.rd_block
  BY <1>1, <1>8, ClaimQuiet DEF Harmless
<1>10. Kept(impl, impl')
  BY <1>4, <1>5, <1>7, <1>9 DEF Quiet, Kept, Ends
<1>11. Ends(impl, impl', "read")
  BY <1>4, <1>5, <1>7, <1>9, <1>10 DEF Ends, Quiet, Stopped
<1> QED BY <1>2, <1>11, EndKeepsStop


(* While the read works it alone has rd_block, and no close is received.   *)
LEMMA ReadAlone ==
  ASSUME NEW i, LockInv(i), StopInv(i), i.at.read \in {"loop", "control"}
  PROVE  ~Stopped(i) /\ i.rd_block = "read" /\ ~i.rd_close /\ (i.rd_remain # 0 => ~i.rd_done)
<1>1. ~Stopped(i)
  BY DEF StopInv, Working
<1>2. i.rd_block = "read"
  BY DEF LockInv, ReadInv, ReadReads
<1>3. i.at.close \notin Discarding
  BY <1>2 DEF LockInv, ReadInv, StopInv, CloseReads, Discarding
<1> QED BY <1>1, <1>2, <1>3 DEF StopInv, Failing, Discarding

LEMMA ReadLoopStop ==
  ASSUME IInv, IInv', StopInv(impl), ReadLoop
  PROVE  StopInv(impl')
<1> DEFINE u == impl.rd_buf[1]
           j == ParseHeader(impl, u)
           e == [impl EXCEPT !.frame = HeaderError(impl, u)]
           c == [j EXCEPT !.rd_fin = FALSE, !.frame = u.kind, !.pong = u.id]
           d == [j EXCEPT !.rd_done = FALSE]
<1>1. /\ "read" \in Ops /\ MayRun(impl, "read") /\ LockInv(impl) /\ LockInv(impl')
      /\ DOMAIN impl = Fields /\ impl.at.read = "loop" /\ impl.at \in [Ops -> Labels]
  BY ReadFacts DEF ReadLoop, Running
<1>2. ~Stopped(impl) /\ impl.rd_block = "read" /\ (impl.rd_remain # 0 => ~impl.rd_done)
  BY <1>1, ReadAlone
<1>3. \/ ~NeedsHeader(impl) /\ impl' = At(impl, "read", "payload")
      \/ impl' = At(impl, "read", "header")
      \/ impl' = At(e, "read", "fail")
      \/ u.kind \notin Data /\ impl' = At(c, "read", "control")
      \/ u.kind \in Data /\ u.len = 0 /\ impl' = j
      \/ impl' = At(d, "read", "payload")
  <2>1. Claim(impl, "rd_block", impl.rd_block = "read") = impl
    BY <1>2 DEF Claim
  <2>2. impl' =
       CASE ~NeedsHeader(impl) -> At(impl, "read", "payload")
         [] NeedsHeader(impl) /\ impl.rd_buf = <<>> -> At(impl, "read", "header")
         [] NeedsHeader(impl) /\ impl.rd_buf # <<>> /\ HeaderError(impl, u) # "ok" ->
              At(e, "read", "fail")
         [] OTHER ->
              CASE u.kind \notin Data -> At(c, "read", "control")
                [] u.kind \in Data /\ u.len = 0 /\ ~u.fin -> j
                [] OTHER -> At(d, "read", "payload")
    BY <2>1 DEF ReadLoop
  <2> HIDE DEF u, j, e, c, d
  <2> QED BY <2>2
<1>4. CASE ~NeedsHeader(impl) /\ impl' = At(impl, "read", "payload")
  <2>1. ~impl.rd_done
    BY <1>2, <1>4 DEF NeedsHeader
  <2>2. /\ Quiet(impl, impl') /\ impl'.at = [impl.at EXCEPT !["read"] = "payload"]
        /\ impl'.rd_block = impl.rd_block
    BY <1>1, <1>4, AtQuiet
  <2> QED BY <1>1, <1>2, <2>1, <2>2, ReadGoes DEF Failing
<1>5. CASE impl' = At(impl, "read", "header")
  <2>1. /\ Quiet(impl, impl') /\ impl'.at = [impl.at EXCEPT !["read"] = "header"]
        /\ impl'.rd_block = impl.rd_block
    BY <1>1, <1>5, AtQuiet
  <2> QED BY <1>1, <1>2, <2>1, ReadGoes DEF Failing
<1>6. CASE impl' = At(e, "read", "fail")
  <2>1. Quiet(impl, e) /\ e.at = impl.at /\ e.rd_block = impl.rd_block /\ DOMAIN e = Fields
    BY <1>1 DEF Quiet, Kept, Fields
  <2> HIDE DEF e
  <2>2. /\ Quiet(e, impl') /\ impl'.at = [e.at EXCEPT !["read"] = "fail"]
        /\ impl'.rd_block = e.rd_block
    BY <1>6, <2>1, AtQuiet
  <2>3. Quiet(impl, impl')
    BY <2>1, <2>2, QuietTransitive
  <2>4. impl'.at = [impl.at EXCEPT !["read"] = "fail"] /\ impl'.rd_block = impl.rd_block
    BY <2>1, <2>2
  <2> QED BY <1>1, <1>2, <2>3, <2>4, ReadGoes DEF Failing
<1>7. /\ j.at = impl.at /\ j.rd_block = impl.rd_block /\ DOMAIN j = Fields /\ j.opt = impl.opt
      /\ j.rd_close = impl.rd_close /\ j.wr_close = impl.wr_close /\ j.rd_done = impl.rd_done
      /\ j.failed = impl.failed /\ j.status = impl.status /\ j.timed_out = impl.timed_out
      /\ j.ec_delivered = impl.ec_delivered
      /\ j.rd_remain = IF u.kind \in Data THEN u.len ELSE impl.rd_remain
  BY <1>1, ParseKept
<1> HIDE DEF j
<1>8. CASE u.kind \notin Data /\ impl' = At(c, "read", "control")
  <2> HIDE DEF u
  <2>1. Quiet(impl, j)
    BY <1>7, <1>8 DEF Quiet, Kept
  <2>2. Quiet(j, c) /\ c.at = j.at /\ c.rd_block = j.rd_block /\ DOMAIN c = Fields
    BY <1>7 DEF Quiet, Kept, Fields
  <2>6. impl' = At(c, "read", "control")
    BY <1>8
  <2> HIDE DEF c
  <2>3. /\ Quiet(c, impl') /\ impl'.at = [c.at EXCEPT !["read"] = "control"]
        /\ impl'.rd_block = c.rd_block
    BY <2>2, <2>6, AtQuiet, SMTT(120)
  <2>4. Quiet(impl, impl')
    BY <2>1, <2>2, <2>3, QuietTransitive
  <2>5. impl'.at = [impl.at EXCEPT !["read"] = "control"] /\ impl'.rd_block = impl.rd_block
    BY <1>7, <2>2, <2>3
  <2> QED BY <1>1, <1>2, <2>4, <2>5, ReadGoes DEF Failing
<1>9. CASE u.kind \in Data /\ u.len = 0 /\ impl' = j
  <2>1. impl'.rd_remain = 0
    BY <1>7, <1>9
  <2> HIDE DEF u
  <2>2. impl'.at = [impl.at EXCEPT !["read"] = "loop"] /\ impl'.at.read = "loop"
    BY <1>1, <1>7, <1>9
  <2>3. Legal(impl, impl', "read")
    BY <1>7, <1>9, <2>1 DEF Legal
  <2>4. ReadLegal(impl, impl')
    BY <1>1, <1>2, <1>7, <1>9, <2>2 DEF ReadLegal, Failing, Stopped
  <2> QED BY <1>1, <1>2, <2>2, <2>3, <2>4, ReadStep
<1>10. CASE impl' = At(d, "read", "payload")
  <2> HIDE DEF u
  <2>1. /\ d.at = j.at /\ d.rd_block = j.rd_block /\ DOMAIN d = Fields /\ d.opt = j.opt
        /\ d.rd_close = j.rd_close /\ d.wr_close = j.wr_close /\ d.rd_done = FALSE
        /\ d.failed = j.failed /\ d.status = j.status /\ d.timed_out = j.timed_out
        /\ d.ec_delivered = j.ec_delivered
    BY <1>7 DEF Fields
  <2> HIDE DEF d
  <2>2. /\ Quiet(d, impl') /\ impl'.at = [d.at EXCEPT !["read"] = "payload"]
        /\ impl'.rd_block = d.rd_block
    BY <1>10, <2>1, AtQuiet
  <2>3. impl'.at = [impl.at EXCEPT !["read"] = "payload"] /\ impl'.at.read = "payload"
    BY <1>1, <1>7, <2>1, <2>2
  <2>4. /\ impl'.opt = impl.opt /\ impl'.rd_close = impl.rd_close
        /\ impl'.wr_close = impl.wr_close /\ ~impl'.rd_done
        /\ impl'.failed \subseteq impl.failed \cup Harmless
        /\ impl'.status = impl.status /\ impl'.timed_out = impl.timed_out
        /\ impl'.ec_delivered = impl.ec_delivered
    BY <1>7, <2>1, <2>2 DEF Quiet, Kept
  <2>5. Legal(impl, impl', "read")
    BY <2>4 DEF Legal
  <2>6. ReadLegal(impl, impl')
    BY <1>1, <1>2, <2>3, <2>4 DEF ReadLegal, Failing, Stopped
  <2> QED BY <1>1, <1>2, <2>3, <2>5, <2>6, ReadStep
<1> HIDE DEF u, e, c, d
<1> QED BY <1>3, <1>4, <1>5, <1>6, <1>8, <1>9, <1>10


(* The read block is given up, and the close that waits for it gets it.    *)
LEMMA GivenQuiet ==
  ASSUME NEW i, DOMAIN i = Fields, i.at \in [Ops -> Labels]
  PROVE  LET j == WakeReader(Unlock(i, "rd_block", "read"), "close")
         IN  /\ Quiet(i, j)
             /\ \/ i.at.close # "wait_rd" /\ j.at = i.at /\ j.rd_block = "none"
                \/ /\ i.at.close = "wait_rd" /\ j.at = [i.at EXCEPT !["close"] = "got_rd"]
                   /\ j.rd_block = "close"
<1> DEFINE k == Unlock(i, "rd_block", "read")
           j == WakeReader(k, "close")
<1>1. Quiet(i, k) /\ k.at = i.at /\ k.rd_block = "none"
  BY LockQuiet
<1> HIDE DEF k
<1>2. DOMAIN k = Fields
  BY <1>1 DEF Quiet, Kept
<1>3. /\ Quiet(k, j)
      /\ \/ k.at["close"] # "wait_rd" /\ j = k
         \/ /\ k.at["close"] = "wait_rd" /\ j.at = [k.at EXCEPT !["close"] = "got_rd"]
            /\ j.rd_block = "close"
  BY <1>2, WakeReaderQuiet, ZenonT(60)
<1> HIDE DEF j
<1>4. Quiet(i, j)
  BY <1>1, <1>3, QuietTransitive
<1> QED BY <1>1, <1>3, <1>4 DEF j, k

LEMMA ReadHeaderStop ==
  ASSUME IInv, IInv', StopInv(impl), ReadHeader
  PROVE  StopInv(impl')
<1>1. /\ "read" \in Ops /\ "close" \in Ops /\ MayRun(impl, "read")
      /\ LockInv(impl) /\ LockInv(impl')
      /\ DOMAIN impl = Fields /\ impl.at.read = "header" /\ impl.at \in [Ops -> Labels]
  BY ReadFacts DEF ReadHeader
<1>2. impl.rd_block = "read"
  BY <1>1 DEF LockInv, ReadInv, ReadReads
<1>3. ASSUME NEW n,
             impl' = LET i == [Commit(n) EXCEPT !.cont = TRUE]
                         j == WakeReader(Unlock(ResetIdle(i), "rd_block", "read"), "close")
                     IN  CheckStop(i, "read", "ok",
                           IF j.rd_block = "close" THEN At(j, "read", "wait_rd")
                           ELSE At(Lock(j, "rd_block", "read"), "read", "loop"))
      PROVE  StopInv(impl')
  <2> DEFINE m == Commit(n)
             i == [m EXCEPT !.cont = TRUE]
             q == ResetIdle(i)
             j == WakeReader(Unlock(q, "rd_block", "read"), "close")
             k == Lock(j, "rd_block", "read")
             w == At(j, "read", "wait_rd")
             g == At(k, "read", "loop")
             l == IF j.rd_block = "close" THEN w ELSE g
  <2>1. impl' = CheckStop(i, "read", "ok", l)
    BY <1>3
  <2>2. Quiet(impl, m) /\ m.at = impl.at /\ m.rd_block = impl.rd_block
    BY CommitQuiet
  <2> HIDE DEF m
  <2>3. Quiet(m, i) /\ i.at = m.at /\ i.rd_block = m.rd_block /\ DOMAIN i = Fields
    BY <2>2 DEF Quiet, Kept, Fields
  <2> HIDE DEF i
  <2>4. Quiet(i, q) /\ q.at = i.at
    BY <2>3, OthersQuiet
  <2> HIDE DEF q
  <2>5. DOMAIN q = Fields /\ q.at = impl.at /\ Quiet(impl, q)
    <3>1. Quiet(impl, i)
      BY <2>2, <2>3, QuietTransitive
    <3> QED BY <2>2, <2>3, <2>4, <3>1, QuietTransitive DEF Quiet, Kept
  <2>6. /\ Quiet(q, j)
        /\ \/ j.at = q.at
           \/ q.at.close = "wait_rd" /\ j.at = [q.at EXCEPT !["close"] = "got_rd"]
    BY <1>1, <2>5, GivenQuiet
  <2> HIDE DEF j
  <2>7. DOMAIN j = Fields /\ Quiet(impl, j)
    BY <2>5, <2>6, QuietTransitive DEF Quiet, Kept
  <2>8. /\ j.at.read = "header" /\ j.at \in [Ops -> Labels]
        /\ \A p \in Ops \ {"read"} : Resumes(impl.at[p], j.at[p], p, Stopped(impl))
    <3>1. "got_rd" \in Labels
      BY DEF Labels
    <3> QED BY <1>1, <2>5, <2>6, <3>1 DEF Resumes
  <2>9. Quiet(j, k) /\ k.at = j.at
    BY <2>7, LockQuiet
  <2> HIDE DEF k
  <2>10. DOMAIN k = Fields /\ Quiet(impl, k)
    BY <2>7, <2>9, QuietTransitive DEF Quiet, Kept
  <2>17. Quiet(j, w) /\ w.at = [j.at EXCEPT !["read"] = "wait_rd"]
    BY <2>7, AtQuiet
  <2>18. Quiet(k, g) /\ g.at = [k.at EXCEPT !["read"] = "loop"]
    BY <2>10, AtQuiet
  <2>11. /\ Quiet(j, w) /\ w.at = [j.at EXCEPT !["read"] = "wait_rd"]
         /\ Quiet(k, g) /\ g.at = [k.at EXCEPT !["read"] = "loop"]
    BY <2>17, <2>18
  <2> HIDE DEF w, g
  <2>12. /\ Quiet(impl, l) /\ l.at.read \in {"wait_rd", "loop"}
         /\ \A p \in Ops \ {"read"} : l.at[p] = j.at[p]
    <3>1. Quiet(impl, w) /\ Quiet(impl, g)
      BY <2>7, <2>10, <2>11, QuietTransitive
    <3> QED BY <1>1, <2>8, <2>9, <2>11, <3>1
  <2> HIDE DEF l
  <2>13. ASSUME ~Stopped(impl), impl' = l PROVE StopInv(impl')
    <3>1. Resumed(impl, l, "read")
      BY <1>2, <2>8, <2>12 DEF Resumed
    <3>2. ~Stopped(l)
      BY <2>12, <2>13 DEF Quiet, Stopped
    <3>3. ReadLegal(impl, l)
      BY <1>1, <2>12, <3>2 DEF ReadLegal, Failing
    <3> QED BY <1>1, <2>12, <2>13, <3>1, <3>3, QuietLegal, StepKeepsStop
  <2>14. Quiet(impl, i) /\ i.at = impl.at /\ i.rd_block = impl.rd_block
    BY <2>2, <2>3, QuietTransitive
  <2> QED BY <1>1, <2>1, <2>13, <2>14, CheckKeepsStop
<1>4. ASSUME NEW ec, ec # "ok",
             impl' = CheckStop([impl EXCEPT !.cont = TRUE], "read", ec, impl)
      PROVE  StopInv(impl')
  <2> DEFINE k == [impl EXCEPT !.cont = TRUE]
  <2>1. Quiet(impl, k) /\ k.at = impl.at /\ k.rd_block = impl.rd_block
    BY <1>1 DEF Quiet, Kept, Fields
  <2>2. impl' = CheckStop(k, "read", ec, impl)
    BY <1>4
  <2> HIDE DEF k
  <2> QED BY <1>1, <1>4, <2>1, <2>2, CheckKeepsStop
<1>5. CASE \E ec \in Errors :
             impl' = CheckStop([impl EXCEPT !.cont = TRUE], "read", ec, impl)
  BY <1>4, <1>5 DEF Errors
<1> QED BY <1>3, <1>5 DEF ReadHeader

LEMMA ReadPostedStop ==
  ASSUME StopInv(impl), ReadPosted PROVE StopInv(impl')
BY DEF StopInv, ReadPosted

LEMMA ReadControlStop ==
  ASSUME IInv, IInv', StopInv(impl), ReadControl
  PROVE  StopInv(impl')
<1> DEFINE j == WakeReader(Unlock(impl, "rd_block", "read"), "close")
           p == TryLock(j, "wr_block", "read", "pong_send", "pong_wait")
           r == Claim(impl, "rd_close", ~impl.rd_close)
           i == [r EXCEPT !.rd_close = TRUE]
           c == IF i.frame = "close" /\ i.status = "closing"
                THEN Claim(i, "wr_close", i.wr_close) ELSE i
<1>1. /\ "read" \in Ops /\ "close" \in Ops /\ MayRun(impl, "read")
      /\ LockInv(impl) /\ LockInv(impl')
      /\ DOMAIN impl = Fields /\ impl.at.read = "control" /\ impl.at \in [Ops -> Labels]
  BY ReadFacts DEF ReadControl, Running
<1>2. ~Stopped(impl) /\ impl.rd_block = "read" /\ ~impl.rd_close
  BY <1>1, ReadAlone
<1>3. \/ impl' = At(impl, "read", "loop")
      \/ impl' = p
      \/ impl' = At(c, "read", "fail")
  <2>1. ~CallsBack(impl)
    BY DEF StopInv, CallsBack
  <2>2. impl' =
       CASE CallsBack(impl) -> At(impl, "read", "posted")
         [] ~CallsBack(impl) /\ impl.frame = "ping" ->
              IF impl.status = "closing" THEN At(impl, "read", "loop") ELSE p
         [] ~CallsBack(impl) /\ impl.frame = "pong" -> At(impl, "read", "loop")
         [] OTHER -> At(c, "read", "fail")
    BY DEF ReadControl
  <2> HIDE DEF p, c
  <2> QED BY <2>1, <2>2
<1>4. CASE impl' = At(impl, "read", "loop")
  <2>1. /\ Quiet(impl, impl') /\ impl'.at = [impl.at EXCEPT !["read"] = "loop"]
        /\ impl'.rd_block = impl.rd_block
    BY <1>1, <1>4, AtQuiet
  <2> QED BY <1>1, <1>2, <2>1, ReadGoes DEF Failing
<1>5. CASE impl' = p
  <2>1. /\ Quiet(impl, j)
        /\ \/ j.at = impl.at
           \/ impl.at.close = "wait_rd" /\ j.at = [impl.at EXCEPT !["close"] = "got_rd"]
    BY <1>1, GivenQuiet
  <2> HIDE DEF j
  <2>2. DOMAIN j = Fields
    BY <2>1 DEF Quiet, Kept
  <2>3. /\ Quiet(j, p)
        /\ \/ p.at = [j.at EXCEPT !["read"] = "pong_send"]
           \/ p.at = [j.at EXCEPT !["read"] = "pong_wait"]
    BY <2>2, TryQuiet
  <2> HIDE DEF p
  <2>4. Quiet(impl, p)
    BY <2>1, <2>3, QuietTransitive
  <2>5. j.at \in [Ops -> Labels]
    <3>1. "got_rd" \in Labels
      BY DEF Labels
    <3> QED BY <1>1, <2>1, <3>1
  <2>6. p.at.read \in {"pong_send", "pong_wait"} /\ \A o \in Ops \ {"read"} : p.at[o] = j.at[o]
    BY <1>1, <2>3, <2>5
  <2>7. Resumed(impl, p, "read")
    BY <1>1, <1>2, <2>1, <2>6 DEF Resumed, Resumes
  <2>8. ReadLegal(impl, p)
    BY <1>1, <2>6 DEF ReadLegal, Working, Failing
  <2> QED BY <1>1, <1>5, <2>4, <2>7, <2>8, QuietLegal, StepKeepsStop
<1>6. CASE impl' = At(c, "read", "fail")
  <2>1. r = impl
    BY <1>2 DEF Claim
  <2>2. /\ i.at = impl.at /\ i.rd_block = impl.rd_block /\ i.opt = impl.opt
        /\ i.failed = impl.failed /\ i.status = impl.status /\ i.timed_out = impl.timed_out
        /\ i.ec_delivered = impl.ec_delivered /\ i.wr_close = impl.wr_close
        /\ i.rd_done = impl.rd_done /\ i.rd_remain = impl.rd_remain /\ DOMAIN i = Fields
    BY <1>1, <2>1 DEF Fields
  <2> HIDE DEF r, i
  <2>3. c = i
    BY <2>2 DEF StopInv, Claim
  <2> HIDE DEF c
  <2>4. /\ Quiet(i, impl') /\ impl'.at = [i.at EXCEPT !["read"] = "fail"]
        /\ impl'.rd_block = i.rd_block
    BY <1>6, <2>2, <2>3, AtQuiet
  <2>5. impl'.at = [impl.at EXCEPT !["read"] = "fail"] /\ impl'.at.read = "fail"
    BY <1>1, <2>2, <2>4
  <2>6. /\ impl'.opt = impl.opt /\ impl'.failed \subseteq impl.failed \cup Harmless
        /\ impl'.status = impl.status /\ impl'.timed_out = impl.timed_out
        /\ impl'.ec_delivered = impl.ec_delivered /\ impl'.wr_close = impl.wr_close
        /\ impl'.rd_done = impl.rd_done /\ impl'.rd_remain = impl.rd_remain
    BY <2>2, <2>4 DEF Quiet, Kept
  <2>7. Legal(impl, impl', "read")
    BY <2>5, <2>6 DEF Legal, Failing
  <2>8. ReadLegal(impl, impl')
    BY <1>1, <1>2, <2>5, <2>6 DEF ReadLegal, Failing, Stopped
  <2> QED BY <1>1, <1>2, <2>5, <2>7, <2>8, ReadStep
<1> HIDE DEF p, c
<1> QED BY <1>3, <1>4, <1>5, <1>6


(* A read goes on at l after check_stop_now().                             *)
LEMMA ReadGoesOn ==
  ASSUME IInv, IInv', StopInv(impl), MayRun(impl, "read"), NEW k, NEW m, NEW ec, NEW l,
         Quiet(impl, k), k.at = impl.at, k.rd_block = impl.rd_block,
         Quiet(k, m), m.at = k.at, m.rd_block = k.rd_block,
         impl' = CheckStop(k, "read", ec, At(m, "read", l)),
         l \notin {"posted", "got_rd"}, impl.at.read # "fail_wait",
         impl.at.read \in Failing => l \in Failing,
         impl.at.read \in {"close_send", "teardown"} => l \in {"close_send", "teardown"},
         l \in {"payload", "fill"} => ~impl.rd_done
  PROVE  StopInv(impl')
<1> DEFINE n == At(m, "read", l)
<1>1. DOMAIN m = Fields /\ "read" \in Ops /\ LockInv(impl) /\ LockInv(impl')
  BY DEF Quiet, Kept, IInv, Ops
<1>2. Quiet(m, n) /\ n.at = [m.at EXCEPT !["read"] = l] /\ n.rd_block = m.rd_block
  BY <1>1, AtQuiet
<1>3. impl' = CheckStop(k, "read", ec, n)
  OBVIOUS
<1> HIDE DEF n
<1>4. Quiet(impl, n)
  BY <1>2, QuietTransitive
<1>5. n.at = [impl.at EXCEPT !["read"] = l] /\ n.rd_block = impl.rd_block
  BY <1>2
<1>6. ASSUME ~Stopped(impl), impl' = n PROVE StopInv(impl')
  BY <1>1, <1>4, <1>5, <1>6, ReadGoes
<1> QED BY <1>1, <1>3, <1>6, CheckKeepsStop

LEMMA GrantedQuiet ==
  ASSUME DOMAIN impl = Fields, NEW holds
  PROVE  LET k == Claim([impl EXCEPT !.cont = TRUE], "wr_block", holds)
         IN  Quiet(impl, k) /\ k.at = impl.at /\ k.rd_block = impl.rd_block
<1> DEFINE a == [impl EXCEPT !.cont = TRUE]
           k == Claim(a, "wr_block", holds)
<1>1. Quiet(impl, a) /\ a.at = impl.at /\ a.rd_block = impl.rd_block /\ DOMAIN a = Fields
  BY DEF Quiet, Kept, Fields
<1> HIDE DEF a
<1>2. Quiet(a, k) /\ k.at = a.at /\ k.rd_block = a.rd_block
  BY <1>1, ClaimQuiet DEF Harmless, LockClaims
<1> HIDE DEF k
<1>3. Quiet(impl, k)
  BY <1>1, <1>2, QuietTransitive
<1> QED BY <1>1, <1>2, <1>3 DEF k, a

LEMMA PongGrantedStop ==
  ASSUME IInv, IInv', StopInv(impl), PongGranted
  PROVE  StopInv(impl')
<1> DEFINE k == Claim([impl EXCEPT !.cont = TRUE], "wr_block", impl.wr_block = "read")
<1>1. impl' = CheckStop(k, "read", "ok", At(k, "read", "pong_send"))
  BY DEF PongGranted
<1>2. /\ MayRun(impl, "read") /\ DOMAIN impl = Fields /\ impl.at.read = "pong_got"
  BY ReadFacts DEF PongGranted
<1>3. Quiet(impl, k) /\ k.at = impl.at /\ k.rd_block = impl.rd_block
  BY <1>2, GrantedQuiet
<1> HIDE DEF k
<1>4. Quiet(k, k)
  BY <1>3 DEF Quiet, Kept
<1> QED BY <1>1, <1>2, <1>3, <1>4, ReadGoesOn DEF Failing

LEMMA PongSentStop ==
  ASSUME IInv, IInv', StopInv(impl), PongSent
  PROVE  StopInv(impl')
<1> DEFINE k == Claim([impl EXCEPT !.cont = TRUE], "wr_block", impl.wr_block = "read")
           r == Wake(Unlock(k, "wr_block", "read"), AfterRead)
           l == At(r, "read", "acquire")
<1>1. PICK ec : impl' = CheckStop(k, "read", ec, l)
  BY DEF PongSent
<1>2. /\ "read" \in Ops /\ MayRun(impl, "read") /\ LockInv(impl) /\ LockInv(impl')
      /\ DOMAIN impl = Fields /\ impl.at.read = "pong_send" /\ impl.at \in [Ops -> Labels]
  BY ReadFacts DEF PongSent
<1>3. Quiet(impl, k) /\ k.at = impl.at /\ k.rd_block = impl.rd_block
  BY <1>2, GrantedQuiet
<1> HIDE DEF k
<1>4. Woken(impl, r)
  BY <1>2, <1>3, WokenQuiet DEF Orders
<1> HIDE DEF r
<1>5. DOMAIN r = Fields
  BY <1>4 DEF Woken, Quiet, Kept
<1>6. Quiet(r, l) /\ l.at = [r.at EXCEPT !["read"] = "acquire"] /\ l.rd_block = r.rd_block
  BY <1>5, AtQuiet
<1> HIDE DEF l
<1>7. Quiet(impl, l)
  BY <1>4, <1>6, QuietTransitive DEF Woken
<1>8. l.at.read = "acquire" /\ \A p \in Ops \ {"read"} : l.at[p] = r.at[p]
  BY <1>2, <1>4, <1>6 DEF Woken
<1>9. Resumed(impl, l, "read")
  BY <1>4, <1>6, <1>8 DEF Woken, Resumed, Resumes
<1>10. ReadLegal(impl, l)
  BY <1>2, <1>8 DEF ReadLegal, Working, Failing
<1>11. impl' = l => StopInv(impl')
  BY <1>2, <1>7, <1>9, <1>10, QuietLegal, StepKeepsStop
<1> QED BY <1>1, <1>2, <1>3, <1>11, CheckKeepsStop

LEMMA ReadPayloadStop ==
  ASSUME IInv, IInv', StopInv(impl), ReadPayload
  PROVE  StopInv(impl')
<1> DEFINE n == Copied(impl)
           i == [impl EXCEPT !.rd_remain = @ - n]
           b == [i EXCEPT !.frame = "bad_payload"]
           c == Consume(i, n)
           d == [c EXCEPT !.rd_done = i.rd_remain = 0 /\ i.rd_fin]
           q == Claim(d, "rd_done", ~impl.rd_done)
<1>1. /\ "read" \in Ops /\ MayRun(impl, "read") /\ LockInv(impl) /\ LockInv(impl')
      /\ DOMAIN impl = Fields /\ impl.at.read = "payload" /\ impl.at \in [Ops -> Labels]
  BY ReadFacts DEF ReadPayload, Running
<1>2. ~Stopped(impl) /\ ~impl.rd_done
  BY <1>1 DEF StopInv, Working
<1>3. \/ impl' = At(impl, "read", "fill")
      \/ impl' = At(b, "read", "fail")
      \/ impl' = ToUpcall(q, "read", "ok")
  BY DEF ReadPayload
<1>4. CASE impl' = At(impl, "read", "fill")
  <2>1. /\ Quiet(impl, impl') /\ impl'.at = [impl.at EXCEPT !["read"] = "fill"]
        /\ impl'.rd_block = impl.rd_block
    BY <1>1, <1>4, AtQuiet
  <2> QED BY <1>1, <1>2, <2>1, ReadGoes DEF Failing
<1>5. /\ i.at = impl.at /\ i.rd_block = impl.rd_block /\ DOMAIN i = Fields /\ i.opt = impl.opt
      /\ i.rd_close = impl.rd_close /\ i.wr_close = impl.wr_close /\ i.rd_done = impl.rd_done
      /\ i.failed = impl.failed /\ i.status = impl.status /\ i.timed_out = impl.timed_out
      /\ i.ec_delivered = impl.ec_delivered
  BY <1>1 DEF Fields
<1>6. CASE impl' = At(b, "read", "fail")
  <2> HIDE DEF i
  <2>1. Quiet(i, b) /\ b.at = i.at /\ b.rd_block = i.rd_block /\ DOMAIN b = Fields
    BY <1>5 DEF Quiet, Kept, Fields
  <2>8. impl' = At(b, "read", "fail")
    BY <1>6
  <2> HIDE DEF b
  <2>2. /\ Quiet(b, impl') /\ impl'.at = [b.at EXCEPT !["read"] = "fail"]
        /\ impl'.rd_block = b.rd_block
    BY <2>1, <2>8, AtQuiet
  <2>3. Quiet(i, impl')
    BY <2>1, <2>2, QuietTransitive
  <2>4. impl'.at = [impl.at EXCEPT !["read"] = "fail"] /\ impl'.at.read = "fail"
    BY <1>1, <1>5, <2>1, <2>2
  <2>5. Legal(impl, impl', "read")
    BY <1>2, <1>5, <2>3 DEF Quiet, Kept, Legal
  <2>6. ReadLegal(impl, impl')
    BY <1>1, <1>2, <1>5, <2>3, <2>4 DEF ReadLegal, Failing, Quiet, Stopped
  <2>7. impl.rd_block # "close"
    BY <1>1 DEF LockInv, ReadInv, ReadReads
  <2> QED BY <1>1, <2>4, <2>5, <2>6, <2>7, ReadStep
<1>7. CASE impl' = ToUpcall(q, "read", "ok")
  <2> HIDE DEF n
  <2>1. Quiet(i, c) /\ c.at = i.at /\ c.rd_block = i.rd_block
    BY <1>5, OthersQuiet
  <2> HIDE DEF c, i
  <2>2. /\ d.at = c.at /\ d.rd_block = c.rd_block /\ DOMAIN d = Fields /\ d.opt = c.opt
        /\ d.rd_close = c.rd_close /\ d.wr_close = c.wr_close
        /\ d.failed = c.failed /\ d.status = c.status /\ d.timed_out = c.timed_out
        /\ d.ec_delivered = c.ec_delivered /\ d.rd_remain = c.rd_remain
        /\ (d.rd_done => i.rd_remain = 0)
    BY <2>1 DEF Quiet, Kept, Fields
  <2> HIDE DEF d
  <2>3. q = d
    BY <1>2 DEF Claim
  <2> HIDE DEF q
  <2>4. /\ Quiet(d, impl') /\ impl'.at = [d.at EXCEPT !["read"] = "upcall"]
        /\ impl'.rd_block = d.rd_block
    BY <1>7, <2>2, <2>3, ToUpcallQuiet
  <2>5. impl'.at = [impl.at EXCEPT !["read"] = "upcall"] /\ impl'.at.read = "upcall"
    BY <1>1, <1>5, <2>1, <2>2, <2>4
  <2>6. /\ impl'.opt = impl.opt /\ impl'.failed \subseteq impl.failed \cup Harmless
        /\ impl'.status = impl.status /\ impl'.timed_out = impl.timed_out
        /\ impl'.ec_delivered = impl.ec_delivered /\ impl'.wr_close = impl.wr_close
        /\ impl'.rd_close = impl.rd_close /\ (impl'.rd_done => impl'.rd_remain = 0)
    BY <1>5, <2>1, <2>2, <2>4 DEF Quiet, Kept
  <2>7. Legal(impl, impl', "read")
    BY <2>6 DEF Legal
  <2>8. ReadLegal(impl, impl')
    BY <1>1, <2>5 DEF ReadLegal, Working, Failing
  <2>9. impl.rd_block # "close"
    BY <1>1 DEF LockInv, ReadInv, ReadReads
  <2> QED BY <1>1, <2>5, <2>7, <2>8, <2>9, ReadStep
<1> QED BY <1>3, <1>4, <1>6, <1>7


LEMMA ReadFillStop ==
  ASSUME IInv, IInv', StopInv(impl), ReadFill
  PROVE  StopInv(impl')
<1>1. /\ "read" \in Ops /\ MayRun(impl, "read") /\ LockInv(impl) /\ LockInv(impl')
      /\ DOMAIN impl = Fields /\ impl.at.read = "fill" /\ ~impl.rd_done
  BY ReadFacts DEF ReadFill, StopInv
<1>2. ASSUME NEW n,
             impl' = LET i == [Commit(n) EXCEPT !.cont = TRUE]
                     IN  CheckStop(i, "read", "ok", At(ResetIdle(i), "read", "payload"))
      PROVE  StopInv(impl')
  <2> DEFINE m == Commit(n)
             i == [m EXCEPT !.cont = TRUE]
             r == ResetIdle(i)
  <2>1. impl' = CheckStop(i, "read", "ok", At(r, "read", "payload"))
    BY <1>2
  <2>2. Quiet(impl, m) /\ m.at = impl.at /\ m.rd_block = impl.rd_block
    BY CommitQuiet
  <2> HIDE DEF m
  <2>3. Quiet(m, i) /\ i.at = m.at /\ i.rd_block = m.rd_block /\ DOMAIN i = Fields
    BY <2>2 DEF Quiet, Kept, Fields
  <2> HIDE DEF i
  <2>4. Quiet(i, r) /\ r.at = i.at /\ r.rd_block = i.rd_block
    BY <2>3, OthersQuiet
  <2> HIDE DEF r
  <2>5. Quiet(impl, i) /\ i.at = impl.at /\ i.rd_block = impl.rd_block
    BY <2>2, <2>3, QuietTransitive
  <2> QED BY <1>1, <2>1, <2>4, <2>5, ReadGoesOn DEF Failing
<1>3. ASSUME NEW ec, ec # "ok",
             impl' = CheckStop([impl EXCEPT !.cont = TRUE], "read", ec, impl)
      PROVE  StopInv(impl')
  <2> DEFINE k == [impl EXCEPT !.cont = TRUE]
  <2>1. Quiet(impl, k) /\ k.at = impl.at /\ k.rd_block = impl.rd_block
    BY <1>1 DEF Quiet, Kept, Fields
  <2>2. impl' = CheckStop(k, "read", ec, impl)
    BY <1>3
  <2> HIDE DEF k
  <2> QED BY <1>1, <1>3, <2>1, <2>2, CheckKeepsStop
<1>4. CASE \E ec \in Errors :
             impl' = CheckStop([impl EXCEPT !.cont = TRUE], "read", ec, impl)
  BY <1>3, <1>4 DEF Errors
<1> QED BY <1>2, <1>4 DEF ReadFill

LEMMA ReadFailStop ==
  ASSUME IInv, IInv', StopInv(impl), ReadFail
  PROVE  StopInv(impl')
<1>1. impl' = TryLock(impl, "wr_block", "read", "closing", "fail_wait")
  BY DEF ReadFail
<1>2. /\ MayRun(impl, "read") /\ LockInv(impl) /\ LockInv(impl')
      /\ DOMAIN impl = Fields /\ impl.at.read = "fail"
  BY ReadFacts DEF ReadFail, Running
<1>3. ~Stopped(impl)
  BY <1>2 DEF StopInv, Working
<1>4. /\ Quiet(impl, impl')
      /\ \/ impl'.at = [impl.at EXCEPT !["read"] = "closing"]
         \/ impl'.at = [impl.at EXCEPT !["read"] = "fail_wait"]
      /\ impl.rd_block # "none" => impl'.rd_block = impl.rd_block
  BY <1>1, <1>2, TryQuiet
<1> QED BY <1>2, <1>3, <1>4, ReadGoes DEF Failing

LEMMA FailGrantedStop ==
  ASSUME IInv, IInv', StopInv(impl), FailGranted
  PROVE  StopInv(impl')
<1> DEFINE k == Claim([impl EXCEPT !.cont = TRUE], "wr_block", impl.wr_block = "read")
<1>1. impl' = CheckStop(k, "read", "ok", At(k, "read", "closing"))
  BY DEF FailGranted
<1>2. /\ MayRun(impl, "read") /\ DOMAIN impl = Fields /\ impl.at.read = "fail_got"
  BY ReadFacts DEF FailGranted
<1>3. Quiet(impl, k) /\ k.at = impl.at /\ k.rd_block = impl.rd_block
  BY <1>2, GrantedQuiet
<1> HIDE DEF k
<1>4. Quiet(k, k)
  BY <1>3 DEF Quiet, Kept
<1> QED BY <1>1, <1>2, <1>3, <1>4, ReadGoesOn DEF Failing

LEMMA ReadClosingStop ==
  ASSUME IInv, IInv', StopInv(impl), ReadClosing
  PROVE  StopInv(impl')
<1> DEFINE l == IF impl.wr_close THEN "teardown" ELSE "close_send"
           a == At(impl, "read", l)
<1>1. impl' = [a EXCEPT !.status = "closing", !.wr_close = TRUE]
  BY DEF ReadClosing
<1>2. /\ "read" \in Ops /\ MayRun(impl, "read") /\ LockInv(impl) /\ LockInv(impl')
      /\ DOMAIN impl = Fields /\ impl.at.read = "closing" /\ impl.at \in [Ops -> Labels]
  BY ReadFacts DEF ReadClosing, Running
<1>3. ~Stopped(impl)
  BY <1>2 DEF StopInv, Working
<1>4. l \in {"close_send", "teardown"}
  OBVIOUS
<1> HIDE DEF l
<1>5. Quiet(impl, a) /\ a.at = [impl.at EXCEPT !["read"] = l] /\ a.rd_block = impl.rd_block
  BY <1>2, AtQuiet
<1> HIDE DEF a
<1>6. /\ impl'.at = a.at /\ impl'.rd_block = a.rd_block /\ impl'.opt = a.opt
      /\ impl'.failed = a.failed /\ impl'.status = "closing" /\ impl'.wr_close = TRUE
      /\ impl'.timed_out = a.timed_out /\ impl'.ec_delivered = a.ec_delivered
      /\ impl'.rd_close = a.rd_close /\ impl'.rd_done = a.rd_done
      /\ impl'.rd_remain = a.rd_remain
  BY <1>1, <1>5 DEF Quiet, Kept, Fields
<1>7. impl'.at = [impl.at EXCEPT !["read"] = l] /\ impl'.at.read = l
  BY <1>2, <1>5, <1>6
<1>8. Legal(impl, impl', "read")
  BY <1>3, <1>4, <1>5, <1>6, <1>7 DEF Legal, Quiet, Kept
<1>9. ReadLegal(impl, impl')
  BY <1>2, <1>4, <1>7 DEF ReadLegal, Working, Failing
<1>10. impl'.rd_block = impl.rd_block
  BY <1>5, <1>6
<1> QED BY <1>2, <1>7, <1>8, <1>9, <1>10, ReadStep

LEMMA CloseSentStop ==
  ASSUME IInv, IInv', StopInv(impl), CloseSent
  PROVE  StopInv(impl')
<1> DEFINE k == Claim(impl, "wr_block", impl.wr_block = "read")
<1>1. PICK ec : impl' = CheckStop(k, "read", ec, At(k, "read", "teardown"))
  BY DEF CloseSent
<1>2. /\ MayRun(impl, "read") /\ DOMAIN impl = Fields /\ impl.at.read = "close_send"
  BY ReadFacts DEF CloseSent
<1>3. Quiet(impl, k) /\ k.at = impl.at /\ k.rd_block = impl.rd_block
  BY <1>2, ClaimQuiet DEF Harmless, LockClaims
<1> HIDE DEF k
<1>4. Quiet(k, k)
  BY <1>3 DEF Quiet, Kept
<1> QED BY <1>1, <1>2, <1>3, <1>4, ReadGoesOn DEF Failing

LEMMA ReadTornDownStop ==
  ASSUME IInv, IInv', StopInv(impl), ReadTornDown
  PROVE  StopInv(impl')
<1>1. PICK ec : impl' = Ended(impl, "read", ec,
                              IF impl.frame = "close" THEN "closed" ELSE impl.frame)
  BY DEF ReadTornDown
<1>2. /\ "read" \in Ops /\ MayRun(impl, "read") /\ LockInv(impl) /\ LockInv(impl')
      /\ DOMAIN impl = Fields /\ impl.at.read = "teardown"
  BY ReadFacts DEF ReadTornDown
<1>3. Ends(impl, impl', "read")
  BY <1>1, <1>2, EndedEnds
<1> QED BY <1>2, <1>3, EndKeepsStop

LEMMA ReadUpcallStop ==
  ASSUME IInv, IInv', StopInv(impl), Upcall("read")
  PROVE  StopInv(impl')
<1> DEFINE i == IF impl.rd_block = "read" THEN Unlock(impl, "rd_block", "read") ELSE impl
           j == WakeReader(i, "close")
           w == Wake(Unlock(j, "wr_block", "read"), AfterRead)
           r == IF j.wr_block = "read" THEN w ELSE j
<1>1. impl' = [At(r, "read", "off") EXCEPT !.ec["read"] = "ok"]
  BY DEF Upcall, Released
<1>2. /\ impl.at.read = "upcall" /\ "close" \in Ops /\ "read" \in Ops
      /\ MayRun(impl, "read") /\ LockInv(impl) /\ LockInv(impl') /\ DOMAIN impl = Fields
      /\ impl.at \in [Ops -> Labels] /\ Quiet(impl, impl)
  BY ReadFacts DEF Upcall, Running
<1>3. /\ Quiet(impl, i) /\ i.at = impl.at
      /\ impl.rd_block = "close" => i.rd_block = "close"
  BY <1>2, LockQuiet
<1> HIDE DEF i
<1>4. DOMAIN i = Fields
  BY <1>3 DEF Quiet, Kept
<1>5. /\ Quiet(i, j)
      /\ \/ j = i
         \/ /\ i.at["close"] = "wait_rd" /\ j.at = [i.at EXCEPT !["close"] = "got_rd"]
            /\ j.rd_block = "close"
  BY <1>4, WakeReaderQuiet
<1> HIDE DEF j
<1>6. /\ Quiet(impl, j)
      /\ \/ j.at = impl.at
         \/ impl.at.close = "wait_rd" /\ j.at = [impl.at EXCEPT !["close"] = "got_rd"]
      /\ impl.rd_block = "close" => j.rd_block = "close"
  BY <1>3, <1>5, QuietTransitive
<1>7. DOMAIN j = Fields /\ j.at \in [Ops -> Labels]
  <2>1. "got_rd" \in Labels
    BY DEF Labels
  <2> QED BY <1>2, <1>6, <2>1 DEF Quiet, Kept
<1>8. Woken(j, r)
  <2>1. Woken(j, j)
    BY <1>7 DEF Woken, Quiet, Kept, Resumes
  <2>2. Woken(j, w)
    <3> DEFINE u == Unlock(j, "wr_block", "read")
    <3>1. Quiet(j, u) /\ u.at = j.at /\ u.rd_block = j.rd_block
      BY <1>7, LockQuiet
    <3> HIDE DEF u
    <3>2. DOMAIN u = Fields /\ u.at \in [Ops -> Labels]
      BY <1>7, <3>1 DEF Quiet, Kept
    <3>3. Woken(u, w)
      BY <3>2, WakeQuiet DEF Orders, u
    <3> HIDE DEF w
    <3>4. Quiet(j, w)
      BY <3>1, <3>3, QuietTransitive DEF Woken
    <3> QED BY <3>1, <3>3, <3>4 DEF Woken
  <2> QED BY <2>1, <2>2
<1> HIDE DEF r
<1>9. DOMAIN r = Fields
  BY <1>8 DEF Woken, Quiet, Kept
<1>10. Quiet(r, impl') /\ impl'.at = [r.at EXCEPT !["read"] = "off"] /\ impl'.rd_block = r.rd_block
  BY <1>1, <1>9, OffQuiet
<1>11. Quiet(impl, impl')
  BY <1>6, <1>8, <1>10, QuietTransitive DEF Woken
<1>12. impl'.at.read = "off" /\ \A p \in Ops \ {"read"} : impl'.at[p] = r.at[p]
  BY <1>2, <1>8, <1>10 DEF Woken
<1>13. Resumed(impl, impl', "read")
  <2>1. impl.rd_block = "close" => impl'.rd_block = "close"
    BY <1>6, <1>8, <1>10 DEF Woken
  <2> SUFFICES ASSUME NEW p \in Ops \ {"read"}
               PROVE  Resumes(impl.at[p], impl'.at[p], p, Stopped(impl))
    BY <2>1 DEF Resumed
  <2>2. Resumes(j.at[p], r.at[p], p, FALSE)
    BY <1>8 DEF Woken
  <2>3. CASE j.at[p] = impl.at[p]
    BY <1>12, <2>2, <2>3 DEF Resumes
  <2>4. CASE j.at[p] # impl.at[p]
    <3>1. p = "close" /\ impl.at[p] = "wait_rd" /\ j.at[p] = "got_rd"
      BY <1>2, <1>6, <2>4
    <3>2. r.at[p] = "got_rd"
      BY <2>2, <3>1 DEF Resumes
    <3> QED BY <1>12, <3>1, <3>2 DEF Resumes
  <2> QED BY <2>3, <2>4
<1>14. ReadLegal(impl, impl')
  BY <1>2, <1>12 DEF ReadLegal, Working, Failing
<1> QED BY <1>2, <1>11, <1>13, <1>14, QuietLegal, StepKeepsStop


------------------------------------------------------------------------------
LEMMA InitStops ==
  ASSUME Init, NoControlCallback
  PROVE  StopInv(impl)
<1>1. \A o \in Ops : impl.at[o] = "off"
  BY DEF Init
<1>2. /\ impl.opt \in Settings /\ impl.status = "open" /\ impl.rd_remain = 0
      /\ impl.rd_close = FALSE /\ impl.wr_close = FALSE /\ impl.ec_delivered = FALSE
      /\ impl.timed_out = FALSE /\ impl.failed = {}
  BY DEF Init
<1>3. impl.at.read = "off" /\ impl.at.close = "off"
  BY <1>1 DEF Ops
<1> QED BY <1>1, <1>2, <1>3 DEF NoControlCallback, StopInv, Working, Running

LEMMA NextStops ==
  ASSUME IInv, IInv', StopInv(impl), [Next]_vars
  PROVE  StopInv(impl')
<1>1. CASE Start
  BY <1>1, ReadStartStop, CloseStartStop, WriteStartStop, PingStartStop DEF Start
<1>2. CASE Read
  <2>1. CASE AcquireRead \/ ReadGranted \/ ReadLoop \/ ReadHeader \/ ReadControl \/ ReadPosted
    BY <2>1, AcquireReadStop, ReadGrantedStop, ReadLoopStop, ReadHeaderStop, ReadControlStop,
       ReadPostedStop
  <2>2. CASE PongGranted \/ PongSent \/ ReadPayload \/ ReadFill
    BY <2>2, PongGrantedStop, PongSentStop, ReadPayloadStop, ReadFillStop
  <2>3. CASE ReadFail \/ FailGranted \/ ReadClosing \/ CloseSent \/ ReadTornDown
    BY <2>3, ReadFailStop, FailGrantedStop, ReadClosingStop, CloseSentStop, ReadTornDownStop
  <2>4. CASE Upcall("read")
    BY <2>4, ReadUpcallStop
  <2> QED BY <1>2, <2>1, <2>2, <2>3, <2>4 DEF Read
<1>3. CASE Close
  BY <1>3, CloseBeginStop, CloseFrameSentStop, CloseGrantedReadStop, CloseDiscardStop,
     CloseMoreStop, CloseTornDownStop, CloseUpcallStop DEF Close
<1>4. CASE Write
  <2>1. "write" \in Sends
    BY DEF Sends
  <2> QED BY <1>4, <2>1, SendBeginStop, PieceSentStop, SendUpcallStop DEF Write
<1>5. CASE Ping
  <2>1. PICK o \in {"ping", "idle"} : SendBegin(o) \/ ControlSent(o) \/ Upcall(o)
    BY <1>5 DEF Ping
  <2>2. o \in Sends
    BY DEF Sends
  <2> QED BY <2>1, <2>2, SendBeginStop, ControlSentStop, SendUpcallStop
<1>6. CASE Expire \/ TimeoutHandler
  BY <1>6, ExpireStop, TimeoutHandlerStop
<1>7. CASE Break \/ UNCHANGED vars
  BY <1>7 DEF Break, vars
<1> QED BY <1>1, <1>2, <1>3, <1>4, <1>5, <1>6, <1>7 DEF Next, Progress

LEMMA StopInvariant ==
  ASSUME NoControlCallback
  PROVE  Spec => [](IInv /\ StopInv(impl))
<1>1. Init => IInv /\ StopInv(impl)
  BY InitHolds, InitStops
<1>2. (IInv /\ StopInv(impl)) /\ [Next]_vars => (IInv /\ StopInv(impl))'
  BY NextKeeps, NextStops
<1> QED BY <1>1, <1>2, PTL DEF Spec

(***************************************************************************)
(* No assertion of the operations fails but the one about the error of a   *)
(* read that a close has ended: nobody sends or receives a close frame     *)
(* twice, and a read gives the caller no bytes once the message is done.   *)
(* This is so on a stream without a control callback.                      *)
(***************************************************************************)
THEOREM Asserted ==
  ASSUME NoControlCallback
  PROVE  Spec => []AssertionsHold
<1>1. StopInv(impl) => AssertionsHold
  BY DEF StopInv, AssertionsHold
<1> QED BY <1>1, StopInvariant, PTL

(* A set whose elements are all the same has at most one.                  *)
LEMMA AtMostOne ==
  ASSUME NEW S, \A x, y \in S : x = y
  PROVE  Cardinality(S) <= 1
<1>1. CASE S = {}
  BY <1>1, FS_EmptySet
<1>2. CASE S # {}
  <2>1. PICK x \in S : TRUE
    BY <1>2
  <2>2. S = {x}
    BY <2>1
  <2> QED BY <2>2, FS_Singleton
<1> QED BY <1>1, <1>2

LEMMA OneReader ==
  ASSUME IInv, StopInv(impl), NEW o \in Ops, NEW p \in Ops,
         impl.at[o] \in Reading \cup {"teardown"}, impl.at[p] \in Reading \cup {"teardown"}
  PROVE  o = p
<1>1. /\ WriteInv(impl.at, impl.wr_block) /\ ReadInv(impl.at, impl.rd_block)
      /\ impl.at[o] \in OpLabels(o) /\ impl.at[p] \in OpLabels(p)
  BY DEF IInv, LockInv, LabelsInv
<1>2. o \in {"read", "close"} /\ p \in {"read", "close"}
  BY <1>1 DEF OpLabels, SendLabels, Reading, Ops
<1>3. ASSUME impl.at.read \in Reading \cup {"teardown"}, impl.at.close \in Reading \cup {"teardown"}
      PROVE  FALSE
  <2>1. impl.at.read \in {"header", "fill", "teardown"} /\ impl.at.close \in {"more", "teardown"}
    <3>1. impl.at.read \in ReadLabels /\ impl.at.close \in CloseLabels
      BY DEF IInv, LockInv, LabelsInv, OpLabels, Ops
    <3> QED BY <1>3, <3>1 DEF ReadLabels, CloseLabels, SendLabels, ReadReads, ReadWrites, Reading
  <2>2. impl.wr_block = "close"
    BY <1>1, <2>1 DEF WriteInv, Ops
  <2>3. impl.at.read # "teardown"
    BY <1>1, <2>2 DEF WriteInv, ReadWrites
  <2>4. impl.rd_block = "read"
    BY <1>1, <2>1, <2>3 DEF ReadInv, ReadReads
  <2> QED BY <1>1, <2>1, <2>3, <2>4 DEF ReadInv, CloseReads, StopInv
<1> QED BY <1>2, <1>3

(***************************************************************************)
(* The connection is never written to by two operations at once, nor read  *)
(* by two: a read, a close that discards what the peer still sends, and    *)
(* the teardown at the end of either (stream_impl.hpp, read.hpp,           *)
(* close.hpp) follow one another.                                          *)
(***************************************************************************)
THEOREM ReadsAndWritesAlone ==
  ASSUME NoControlCallback
  PROVE  Spec => []OneAtATime
<1>1. IInv => OneWriter
  BY OneWriterHolds
<1>2. ASSUME IInv, StopInv(impl) PROVE OneAtATime
  <2>1. \A o, p \in {q \in Ops : impl.at[q] \in Writing} : o = p
    BY <1>1, <1>2 DEF OneWriter
  <2>2. \A o, p \in {q \in Ops : impl.at[q] \in Reading \cup {"teardown"}} : o = p
    BY <1>2, OneReader
  <2> QED BY <2>1, <2>2, AtMostOne DEF OneAtATime
<1> QED BY <1>2, StopInvariant, PTL
==============================================================================
