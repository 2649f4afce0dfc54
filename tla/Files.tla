-------------------------------- MODULE Files --------------------------------
(***************************************************************************)
(* file_posix, file_stdio and file_win32: objects that own a descriptor of *)
(* one file, which other processes create and remove.  Reads and writes    *)
(* may move less than is asked for, and any call of the system may fail.   *)
(* Only the count of what is read matters.                                 *)
(***************************************************************************)
EXTENDS Integers, SequencesExt, FiniteSetsExt

CONSTANTS
  Kind,         (* "posix", "stdio" or "win32"                             *)
  Objects,      (* file objects                                            *)
  Fds,          (* descriptors: 1..n                                       *)
  Modes,        (* file_mode                                               *)
  Word,         (* 2^32: values of one word of a position                  *)
  Clears,       (* the caller clears its error_code before each call       *)
  Fails,        (* the calls of the system that may fail                   *)
  MaxSize       (* bound: bytes of the file, and positions                 *)

None == 0

FilesAssumption ==
  /\ Kind \in {"posix", "stdio", "win32"} /\ Clears \in BOOLEAN
  /\ Fds = 1..Cardinality(Fds) /\ Cardinality(Fds) > Cardinality(Objects)
  /\ Modes \subseteq {"read", "scan", "write", "write_new", "write_existing",
                      "append", "append_existing"}
  /\ Word \in Nat \ {0, 1} /\ MaxSize \in Nat

VARIABLES
  live,         (* the objects that there are                              *)
  h,            (* fd_, f_ or h_ of each                                   *)
  fd,           (* the system's: [open, mode, pos, err] of each            *)
  disk,         (* the file: [exists, bytes]                               *)
  testing,      (* the object that has tested whether the file exists      *)
  ec,           (* the caller's error_code                                 *)
  last          (* history: the last call                                  *)

vars == <<live, h, fd, disk, testing, ec, last>>

Closed == [open |-> FALSE, mode |-> "read", pos |-> 0, err |-> FALSE]

Init ==
  /\ live = {} /\ h = [o \in Objects |-> None] /\ fd = [x \in Fds |-> Closed]
  /\ disk \in {[exists |-> FALSE, bytes |-> <<>>], [exists |-> TRUE, bytes |-> <<"old">>]}
  /\ testing = {} /\ ec = "ok"
  /\ last = [call |-> "none", by |-> None, failed |-> FALSE, n |-> 0, moved |-> 0]

Appending(m)  == m \in {"append", "append_existing"}
MustExist(m)  == m \in {"read", "scan", "write_existing", "append_existing"}
MustBeNew(m)  == m = "write_new"
Truncating(m) == m = "write"
CanRead(m)    == ~Appending(m) /\ ~(Kind = "stdio" /\ m = "write_new")
Reading(m)    == m \in {"read", "scan"}

May(call) == IF call \in Fails THEN BOOLEAN ELSE {FALSE}

(* The caller's error_code: an old one may be in it from elsewhere.        *)
Before == IF Clears THEN {"ok"} ELSE {ec, "old"}

Call(name, o, failed, n, moved) ==
  last' = [call |-> name, by |-> o, failed |-> failed, n |-> n, moved |-> moved]

Idle(o) == o \in live /\ testing = {}

(* native_close(): the descriptor is closed even if close() fails.         *)
Release(o) ==
  /\ fd' = IF h[o] = None THEN fd ELSE [fd EXCEPT ![h[o]] = Closed]
  /\ h' = [h EXCEPT ![o] = None]

------------------------------------------------------------------------------
(* Objects come, go and are moved.                                         *)
Construct(o) ==
  /\ o \notin live /\ live' = live \cup {o}
  /\ UNCHANGED <<h, fd, disk, testing, ec, last>>

MoveConstruct(o, p) ==
  /\ o \notin live /\ Idle(p)
  /\ live' = live \cup {o}
  /\ h' = [h EXCEPT ![o] = h[p], ![p] = None]
  /\ UNCHANGED <<fd, disk, testing, ec, last>>

Destroy(o) ==
  /\ Idle(o) /\ live' = live \ {o}
  /\ Release(o)
  /\ UNCHANGED <<disk, testing, ec, last>>

(* operator=, of an object to itself too.                                  *)
Assign(o, p) ==
  /\ Idle(o) /\ Idle(p)
  /\ IF o = p THEN UNCHANGED <<h, fd>>
     ELSE /\ fd' = IF h[o] = None THEN fd ELSE [fd EXCEPT ![h[o]] = Closed]
          /\ h' = [h EXCEPT ![o] = h[p], ![p] = None]
  /\ UNCHANGED <<live, disk, testing, ec, last>>

(* native_handle() with a descriptor that the caller has opened.           *)
native_handle(o, m) ==
  /\ Idle(o) /\ disk.exists
  /\ LET f == IF h[o] = None THEN fd ELSE [fd EXCEPT ![h[o]] = Closed]
         x == Min({y \in Fds : ~fd[y].open})
     IN /\ fd' = [f EXCEPT ![x] = [Closed EXCEPT !.open = TRUE, !.mode = m]]
        /\ h' = [h EXCEPT ![o] = x]
  /\ UNCHANGED <<live, disk, testing, ec, last>>

(* close(): an error of the system is told, and the object is closed.      *)
close(o) ==
  /\ Idle(o)
  /\ \E failed \in May("close") :
       /\ ec' = IF failed /\ h[o] # None THEN "sys" ELSE "ok"
       /\ Call("close", o, failed /\ h[o] # None, 0, 0)
  /\ Release(o)
  /\ UNCHANGED <<live, disk, testing>>

------------------------------------------------------------------------------
(* What open() does to the file.                                           *)
Denied(m) ==
  \/ MustExist(m) /\ ~disk.exists
  \/ MustBeNew(m) /\ disk.exists

Touched(m) ==
  IF Truncating(m) \/ ~disk.exists THEN [exists |-> TRUE, bytes |-> <<>>] ELSE disk

(* On Windows a file that is written is opened once.                       *)
Shared(f, m) ==
  Kind = "win32" =>
    \A x \in Fds : f[x].open => Reading(m) /\ Reading(f[x].mode)

(* The system opens the file for object o after its old one is closed;     *)
(* Opened is for a call of the system with mode m, the object's is as.     *)
Opened(o, m, as, at) ==
  LET f == IF h[o] = None THEN fd ELSE [fd EXCEPT ![h[o]] = Closed]
      x == Min({y \in Fds : ~f[y].open})
  IN /\ ~Denied(m) /\ Shared(f, m)
     /\ disk' = Touched(m)
     /\ fd' = [f EXCEPT ![x] = [Closed EXCEPT !.open = TRUE, !.mode = as, !.pos = at]]
     /\ h' = [h EXCEPT ![o] = x]

OpenFails(o, m) ==
  /\ \/ Denied(m) \/ "open" \in Fails
     \/ ~Shared(IF h[o] = None THEN fd ELSE [fd EXCEPT ![h[o]] = Closed], m)
  /\ ec' = "sys" /\ Release(o) /\ UNCHANGED disk

LogOpen(o, failed) == Call("open", o, failed, 0, 0)

(* Wrong: the file need not be new.                                        *)
posix_open_notnew(o, m) ==
  /\ Kind = "posix" /\ Idle(o)
  /\ \/ /\ OpenFails(o, m) /\ LogOpen(o, TRUE)
     \/ /\ Opened(o, IF MustBeNew(m) THEN "append" ELSE m, m, 0)
        /\ ec' = "ok" /\ LogOpen(o, FALSE)
  /\ UNCHANGED <<live, testing>>

(* file_posix::open().  posix_fadvise returns its error, and does not set  *)
(* errno, which is anything.                                               *)
posix_open(o, m) ==
  /\ Kind = "posix" /\ Idle(o)
  /\ \/ /\ OpenFails(o, m) /\ LogOpen(o, TRUE)
     \/ /\ Opened(o, m, m, 0)
        /\ ec' = "ok" /\ LogOpen(o, FALSE)
     \/ /\ "advise" \in Fails
        /\ ~Denied(m) /\ disk' = Touched(m)
        /\ Release(o)
        /\ ec' \in {"ok", "sys"} /\ LogOpen(o, TRUE)
  /\ UNCHANGED <<live, testing>>

(* file_stdio::open(): fopen() with "ab" creates the file, so that it is   *)
(* opened with "rb+" first to see if there is one.                         *)
stdio_open(o, m) ==
  /\ Kind = "stdio" /\ Idle(o) /\ m # "append_existing"
  /\ \/ OpenFails(o, m) /\ LogOpen(o, TRUE)
     \/ Opened(o, m, m, 0) /\ ec' = "ok" /\ LogOpen(o, FALSE)
  /\ UNCHANGED <<live, testing>>

stdio_test(o) ==
  /\ Kind = "stdio" /\ Idle(o) /\ "append_existing" \in Modes
  /\ \/ OpenFails(o, "append_existing") /\ LogOpen(o, TRUE) /\ UNCHANGED testing
     \/ /\ disk.exists /\ Release(o)
        /\ testing' = {o} /\ ec' = "ok"
        /\ UNCHANGED <<disk, last>>
  /\ UNCHANGED live

stdio_append(o) ==
  /\ testing = {o} /\ testing' = {}
  /\ \/ OpenFails(o, "append") /\ LogOpen(o, TRUE)
     \/ Opened(o, "append", "append_existing", 0) /\ ec' = "ok" /\ LogOpen(o, FALSE)
  /\ UNCHANGED live

(* set_file_pointer_ex(): a low word of all ones is taken for a failure,   *)
(* and GetLastError() says that there is none.                             *)
Misread(p) == p % Word = Word - 1

(* file_win32::open() sets the position of a file to append to.            *)
win32_open(o, m) ==
  /\ Kind = "win32" /\ Idle(o)
  /\ \/ OpenFails(o, m) /\ LogOpen(o, TRUE)
     \/ /\ ~(Appending(m) /\ Misread(Len(Touched(m).bytes)))
        /\ Opened(o, m, m, IF Appending(m) THEN Len(Touched(m).bytes) ELSE 0)
        /\ ec' = "ok" /\ LogOpen(o, FALSE)
     \/ /\ Appending(m) /\ Misread(Len(Touched(m).bytes))
        /\ ~Denied(m) /\ Release(o) /\ disk' = Touched(m)
        /\ ec' = "ok" /\ LogOpen(o, TRUE)
  /\ UNCHANGED <<live, testing>>

------------------------------------------------------------------------------
(* An object without a file says so.                                       *)
NotOpen(o, name) ==
  /\ Idle(o) /\ h[o] = None
  /\ ec' = "sys" /\ Call(name, o, TRUE, 0, 0)
  /\ UNCHANGED <<live, h, fd, disk, testing>>

IsOpen(o) == Idle(o) /\ h[o] # None
Me(o) == fd[h[o]]
Quiet == UNCHANGED <<live, h, disk, testing>>

(* The answer of size() and pos(): a call that only looks.                 *)
size(o) ==
  /\ Kind # "stdio" /\ IsOpen(o)
  /\ \E failed \in May("size") :
       /\ ec' = IF failed THEN "sys" ELSE "ok"
       /\ Call("size", o, failed, IF failed THEN 0 ELSE Len(disk.bytes), 0)
  /\ fd' = fd /\ Quiet

(* file_stdio::size() goes to the end and back; it fails before it has     *)
(* moved, or cannot go back.                                               *)
stdio_size(o) ==
  /\ Kind = "stdio" /\ IsOpen(o)
  /\ \/ /\ fd' = fd /\ ec' = "ok" /\ Call("size", o, FALSE, Len(disk.bytes), 0)
     \/ /\ "size" \in Fails
        /\ fd' \in {fd, [fd EXCEPT ![h[o]].pos = Len(disk.bytes)]}
        /\ ec' = "sys" /\ Call("size", o, TRUE, 0, 0)
  /\ Quiet

pos(o) ==
  /\ Kind # "win32" /\ IsOpen(o)
  /\ \E failed \in May("pos") :
       /\ ec' = IF failed THEN "sys" ELSE "ok"
       /\ Call("pos", o, failed, IF failed THEN 0 ELSE Me(o).pos, 0)
  /\ fd' = fd /\ Quiet

win32_pos(o) ==
  /\ Kind = "win32" /\ IsOpen(o)
  /\ \E failed \in May("pos") :
       /\ ec' = IF failed THEN "sys" ELSE "ok"
       /\ Call("pos", o, failed, IF failed \/ Misread(Me(o).pos) THEN 0 ELSE Me(o).pos, 0)
  /\ fd' = fd /\ Quiet

seek(o, k) ==
  /\ IsOpen(o)
  /\ \E failed \in May("seek") :
       /\ ec' = IF failed THEN "sys" ELSE "ok"
       /\ fd' = IF failed THEN fd ELSE [fd EXCEPT ![h[o]].pos = k]
       /\ Call("seek", o, failed, 0, 0)
  /\ Quiet

------------------------------------------------------------------------------
(* How much the system moves: all that is asked for unless it fails or the *)
(* file ends.                                                              *)
Available(o, n) == Max({0, Min({n, Len(disk.bytes) - Me(o).pos})})

(* file_posix::read() goes on until there is all or the end; it does not   *)
(* clear ec.                                                               *)
posix_read(o, n) ==
  /\ Kind = "posix" /\ IsOpen(o) /\ CanRead(Me(o).mode)
  /\ \E failed \in May("read"), old \in Before, k \in 0..Available(o, n) :
       /\ ~failed => k = Available(o, n)
       /\ fd' = [fd EXCEPT ![h[o]].pos = @ + k]
       /\ ec' = IF failed THEN "sys" ELSE old
       /\ Call("read", o, failed, k, k)
  /\ Quiet

(* file_stdio::read(): the error of a stream stays until it is closed.     *)
stdio_read(o, n) ==
  /\ Kind = "stdio" /\ IsOpen(o) /\ CanRead(Me(o).mode)
  /\ \E failed \in May("read"), old \in Before, k \in 0..Available(o, n) :
       /\ ~failed => k = Available(o, n)
       /\ fd' = [fd EXCEPT ![h[o]].pos = @ + k, ![h[o]].err = @ \/ failed]
       /\ IF failed \/ Me(o).err
          THEN ec' = "sys" /\ Call("read", o, failed, 0, k)
          ELSE ec' = old /\ Call("read", o, FALSE, k, k)
  /\ Quiet

(* "wbx" is for writing only.                                              *)
stdio_read_new(o) ==
  /\ Kind = "stdio" /\ IsOpen(o) /\ Me(o).mode = "write_new"
  /\ fd' = [fd EXCEPT ![h[o]].err = TRUE]
  /\ ec' = "sys" /\ Call("read", o, TRUE, 0, 0)
  /\ Quiet

(* file_win32::read() leaves ec at the end of the file.                    *)
win32_read(o, n) ==
  /\ Kind = "win32" /\ IsOpen(o) /\ CanRead(Me(o).mode)
  /\ \E failed \in May("read"), old \in Before, k \in 0..Available(o, n) :
       /\ ~failed => k = Available(o, n)
       /\ fd' = [fd EXCEPT ![h[o]].pos = @ + k]
       /\ ec' = IF failed THEN "sys" ELSE IF k < n THEN old ELSE "ok"
       /\ Call("read", o, failed, k, k)
  /\ Quiet

(* The bytes of the file after k bytes are written at p.                   *)
Over(p, k) ==
  [i \in 1..Max({p + k, Len(disk.bytes)}) |->
     IF i > p /\ i <= p + k THEN "new" ELSE IF i <= Len(disk.bytes) THEN disk.bytes[i] ELSE "new"]

(* Where a write begins: O_APPEND and "ab" go to the end for each.         *)
Start(o) ==
  IF Appending(Me(o).mode) /\ Kind # "win32" THEN Len(disk.bytes) ELSE Me(o).pos

Written(o, n, k, failed) ==
  LET p == Start(o)
  IN /\ p + n <= MaxSize /\ k <= n /\ (~failed => k = n)
     /\ disk' = IF k = 0 THEN disk ELSE [disk EXCEPT !.bytes = Over(p, k)]
     /\ fd' = [fd EXCEPT ![h[o]].pos = p + k,
                         ![h[o]].err = @ \/ (failed /\ Kind = "stdio")]

Writing(o) == IsOpen(o) /\ ~Reading(Me(o).mode)

posix_write(o, n) ==
  /\ Kind = "posix" /\ Writing(o)
  /\ \E failed \in May("write"), old \in Before, k \in 0..n :
       /\ Written(o, n, k, failed)
       /\ ec' = IF failed THEN "sys" ELSE old
       /\ Call("write", o, failed, k, k)
  /\ UNCHANGED <<live, h, testing>>

stdio_write(o, n) ==
  /\ Kind = "stdio" /\ Writing(o)
  /\ \E failed \in May("write"), old \in Before, k \in 0..n :
       /\ Written(o, n, k, failed)
       /\ IF failed \/ Me(o).err
          THEN ec' = "sys" /\ Call("write", o, failed, 0, k)
          ELSE ec' = old /\ Call("write", o, FALSE, k, k)
  /\ UNCHANGED <<live, h, testing>>

win32_write(o, n) ==
  /\ Kind = "win32" /\ Writing(o)
  /\ \E failed \in May("write"), k \in 0..n :
       /\ Written(o, n, k, failed)
       /\ ec' = IF failed THEN "sys" ELSE "ok"
       /\ Call("write", o, failed, k, k)
  /\ UNCHANGED <<live, h, testing>>

------------------------------------------------------------------------------
(* Another process, while the file is not open.                            *)
Unlink ==
  /\ disk.exists /\ \A x \in Fds : ~fd[x].open
  /\ disk' = [exists |-> FALSE, bytes |-> <<>>]
  /\ UNCHANGED <<live, h, fd, testing, ec, last>>

Create ==
  /\ ~disk.exists
  /\ disk' = [exists |-> TRUE, bytes |-> <<"old">>]
  /\ UNCHANGED <<live, h, fd, testing, ec, last>>

Sizes == 1..2

Next ==
  \/ Unlink \/ Create
  \/ \E o \in Objects :
       \/ Construct(o) \/ Destroy(o) \/ close(o)
       \/ size(o) \/ stdio_size(o) \/ pos(o) \/ win32_pos(o)
       \/ stdio_test(o) \/ stdio_append(o) \/ stdio_read_new(o)
       \/ \E p \in Objects : MoveConstruct(o, p) \/ Assign(o, p)
       \/ \E m \in Modes : posix_open(o, m) \/ stdio_open(o, m) \/ win32_open(o, m)
       \/ \E m \in Modes \cap {"read", "append"} : native_handle(o, m)
       \/ \E k \in 0..MaxSize : seek(o, k)
       \/ \E c \in {"size", "pos", "seek", "read", "write"} : NotOpen(o, c)
       \/ \E n \in Sizes : posix_read(o, n) \/ stdio_read(o, n) \/ win32_read(o, n)
       \/ \E n \in Sizes : posix_write(o, n) \/ stdio_write(o, n) \/ win32_write(o, n)

Spec == Init /\ [][Next]_vars

------------------------------------------------------------------------------
(* Each open descriptor belongs to one object that lives, whatever is      *)
(* moved, assigned, closed with an error and opened again: none leaks and  *)
(* none is closed twice (file_posix.ipp:66, :92).                          *)
OwnedOnce ==
  /\ \A x \in Fds : fd[x].open => Cardinality({o \in live : h[o] = x}) = 1
  /\ \A o \in Objects : h[o] # None => o \in live /\ fd[h[o]].open

(* A call of o has ended.                                                  *)
Ends(call, o) == last' # last /\ last'.call = call /\ last'.by = o
Mode(o) == fd[h[o]].mode

(* After open() the object has a file if there was no error, and has none  *)
(* if there was (file_posix.ipp:185, file_win32.ipp:215).                  *)
OpenAsTold ==
  \A o \in Objects : Ends("open", o) => (ec' = "ok" <=> h'[o] # None)

(* An error is reported for a call if the system reported one for it       *)
(* (file_posix.ipp:280, file_stdio.ipp:298).                               *)
OwnError ==
  last' # last => (ec' # "ok" <=> last'.failed)

(* The number that read() and write() return is what they moved            *)
(* (file_posix.ipp:297, :331).                                             *)
Counted == last.call \in {"read", "write"} => last.n = last.moved

(* write_new never opens a file that was there, and the modes for a file   *)
(* that exists never make one (file_posix.ipp:154, file_stdio.ipp:176).    *)
AsTheModeSays ==
  \A o \in Objects : Ends("open", o) /\ ~last'.failed =>
    /\ MustBeNew(Mode(o)') => ~disk.exists
    /\ MustExist(Mode(o)') => disk.exists

(* What is written to a file that is appended to comes after all that was  *)
(* there (file_posix.ipp:168, file_stdio.ipp:155).                         *)
AppendsAtEnd ==
  \A o \in Objects : Ends("write", o) /\ h[o] # None /\ Appending(Mode(o)) =>
    IsPrefix(disk.bytes, disk'.bytes)

(* size() leaves the position where it was, pos() tells where it is        *)
(* (file_stdio.ipp:240, file_win32.ipp:257).                               *)
Position ==
  \A o \in Objects : ~last'.failed =>
    /\ Ends("size", o) => fd' = fd /\ last'.n = Len(disk.bytes)
    /\ Ends("pos", o) => last'.n = fd[h[o]].pos

=============================================================================
