------------------------------- MODULE MCHttp -------------------------------
(***************************************************************************)
(* The HTTP part of Boost.Beast, each component checked on its own: reading *)
(* with the parser, the serializer, the functions that write it, the       *)
(* fields and the message, the lists in a value, files and bodies in them. *)
(***************************************************************************)
EXTENDS WriteOps, SequencesExt

CONSTANTS
  Parts,       (* the components that are checked                          *)
  Messages,    (* messages that are read                                   *)
  PieceSizes, MaxBody,       (* of a body that is written                  *)
  MaxFields, MaxElements,    (* fields of containers, elements of a value  *)
  Length,      (* of the strings that lists are made of                    *)
  FileModes, Fails, FileSize,  (* of a file                                *)
  MaxLen,      (* bytes of the file of a body                              *)
  NotKnown     (* the size of a body that is not known                     *)

VARIABLES
  part,  (* the component that runs, the others are at rest *)
  msg, headerLimit, bodyMax, base, got, at, p, read_first, state, flags, len,
  len0, skip, bodyLimit, room, read_ec, out, read_seen, bufferMax, read_op,
  result, cut,
  write_chunked, write_body, toggle, write_s, write_view, split, headerDone,
  write_more, limit, write_op, write_ec, write_sent, made, taken,
  fields, request, what, version, size, message_fields, framed, kept,
  list, list_s, begun, it, list_first, v, error, list_seen, whole,
  live, h, fd, disk, testing, file_ec, file_last,
  bytes, fb_body, job, remain, fb_ec, fb_more, fb_sent, from, changes,
  fb_messages, fb_chunked, fb_last, pos, filepos, phase, fb_view, fb_op,
  header_, amount, asserted, win32_sent, fb_errors

(* Calls of the functions that write.  BlockingHeader is write_header()    *)
(* without a handler.  The bodies: none, known pieces, pieces the caller   *)
(* supplies, an empty one.                                                 *)
AllBodies ==
  {<<End>>, <<2>>, <<1, 2>>, <<1, End>>, <<Need, 1, Need, 1>>, <<0, Need, End>>, <<1, Need, 0>>}
AllCalls ==
  [kind : {"sync", "throwing", "async"}, what : {"some", "header", "all", "message"}]
    \cup {[kind |-> "ostream", what |-> "message"]}
BlockingHeader == [kind : {"sync", "throwing"}, what : {"header"}]
OtherCalls == AllCalls \ BlockingHeader

(* Messages that are read, as HttpRead writes them: with a length, chunked *)
(* with a trailer, to the end of the connection, without a body, malformed.*)
Line(c)          == <<c, "r", "n">>
Lines(cs)        == FlattenSeq([i \in DOMAIN cs |-> Line(cs[i])])
HeaderOf(u, fs)  == Line(u) \o Lines(fs) \o <<"r", "n">>
Octets(k)        == [i \in 1 .. k |-> "b"]
From(a, k)       == [i \in 1 .. k |-> a + i]
SizeName         == <<"s1", "s2", "s3">>
ChunkOf(k)       == Line(SizeName[k]) \o Octets(k) \o <<"r", "n">>

(* k bytes behind the header, and the beginning of another message.        *)
Plain(req, u, fs, k, behind, isBad) ==
  LET m == HeaderOf(u, fs)
  IN  [wire |-> m \o Octets(k) \o behind, request |-> req, fields |-> Len(fs),
       header |-> Len(m), length |-> k, longest |-> Len(m),
       body |-> From(Len(m), k), end |-> Len(m) + k, bad |-> isBad]

(* Two chunks, or none, and a trailer.                                     *)
Chunks(req, fs, a, c, trailer, behind, isBad) ==
  LET m == HeaderOf("200", fs)
      d == IF a = 0 THEN <<>> ELSE ChunkOf(a) \o ChunkOf(c)
      z == Line("s0") \o Lines(trailer) \o <<"r", "n">>
  IN  [wire |-> m \o d \o z \o behind, request |-> req, fields |-> Len(fs) + Len(trailer),
       header |-> Len(m), length |-> a + c,
       longest |-> IF Len(m) < Len(z) + 2 THEN Len(z) + 2 ELSE Len(m),
       body |-> IF a = 0 THEN <<>> ELSE From(Len(m) + 3, a) \o From(Len(m) + a + 8, c),
       end |-> Len(m) + Len(d) + Len(z), bad |-> isBad]

another == <<"200", "r", "n">>

FewMessages == {
  Plain(FALSE, "200", <<"h", "h">>, 3, <<>>, FALSE),
  Chunks(FALSE, <<"t">>, 2, 1, <<"h", "h">>, another, FALSE)}

AllMessages == FewMessages \cup {
  Plain(FALSE, "200", <<"h", "l3">>, 3, another, FALSE),
  Plain(FALSE, "204", <<"l3">>, 0, another, FALSE),
  Chunks(TRUE, <<"h", "t">>, 1, 3, <<>>, another, FALSE),
  Chunks(FALSE, <<"t">>, 0, 0, <<"h">>, another, FALSE),
  Plain(FALSE, "200", <<"h", "!">>, 0, <<>>, TRUE),
  Plain(TRUE, "200", <<"l2", "l3">>, 3, <<>>, TRUE),
  [Plain(FALSE, "200", <<"t">>, 0, <<"s2", "r", "n", "b", "b", "b", "r", "n">>, TRUE)
     EXCEPT !.body = <<12, 13>>, !.length = 2, !.end = 16]}

(* What a user inserts, several fields of a name among it.                 *)
TE   == "Transfer-Encoding"
CL   == "Content-Length"
Conn == "Connection"
MessageRank == [n \in {Conn, CL, TE} |-> CASE n = Conn -> 1 [] n = CL -> 2 [] n = TE -> 3]
Inserts ==
  {<<Conn, <<"keep-alive", "close">>>>, <<CL, <<"7">>>>,
   <<TE, <<"chunked">>>>, <<TE, <<"gzip">>>>, <<TE, <<"gzip", ";">>>>}

(* All short strings of the characters that a list's grammar tells apart,  *)
(* and longer ones that begin where a quoted value or a second extension   *)
(* does.                                                                   *)
Words(chars, k) == UNION {[1 .. j -> chars] : j \in 0 .. k}
Behind(start, chars, k) == {start \o u : u \in Words(chars, k)}
ParamStrings ==
  Words({"t", " ", ";", "=", "dq", "x"}, Length - 1) \cup
  Behind(<<";", "t", "=">>, {"t", " ", ";", "dq", "bs", "x"}, Length - 1)
TokenStrings == Words({"t", " ", ",", "x"}, Length + 1)
ExtStrings ==
  Words({"t", " ", ",", ";", "="}, Length) \cup
  Behind(<<"t", ";", "t", "=">>, {"t", " ", ",", ";", "dq"}, Length - 1)

HeaderOps == INSTANCE WriteOps WITH
  Header <- 2, Bodies <- AllBodies, Calls <- AllCalls, MaxErrors <- 0,
  MaxMessages <- 1
Read == INSTANCE HttpRead WITH
  Messages <- Messages, HeaderLimits <- {8, 20}, BodyLimits <- {2, 4},
  BufferMaxes <- {12, 40}, Unlimited <- 99, Rooms <- {1, 99},
  first <- read_first, ec <- read_ec, seen <- read_seen, op <- read_op
Write == INSTANCE HttpWrite WITH
  HeaderLen <- 2, PieceSizes <- PieceSizes, Limits <- {2, 99},
  MaxBody <- MaxBody, MaxPieces <- MaxBody, chunked <- write_chunked,
  body <- write_body, s <- write_s, view <- write_view, more <- write_more,
  op <- write_op, ec <- write_ec, sent <- write_sent
Container == INSTANCE Fields WITH
  Values <- {"u", "v"}, Containers <- {"a", "b"}, MaxFields <- MaxFields,
  Inserts <- Inserts, Methods <- {"post", "trace"},
  Statuses <- {"1xx", "200", "204"}, Sizes <- {"0", "5", NotKnown},
  Versions <- {10, 11}, MaxMessageFields <- 2, MaxElements <- MaxElements,
  None <- NotKnown, Rank <- [x |-> 1, y |-> 2]
Message == INSTANCE Fields WITH
  Values <- {"u", "v"}, Containers <- {"a", "b"}, MaxFields <- MaxFields,
  Inserts <- Inserts, Methods <- {"post", "trace"},
  Statuses <- {"1xx", "200", "204"}, Sizes <- {"0", "5", NotKnown},
  Versions <- {10, 11}, MaxMessageFields <- 2, MaxElements <- MaxElements,
  None <- NotKnown, Rank <- MessageRank
Params == INSTANCE TokenLists WITH
  Lists <- {"param"}, Strings <- ParamStrings, s <- list_s,
  first <- list_first, seen <- list_seen
Tokens == INSTANCE TokenLists WITH
  Lists <- {"token", "opt"}, Strings <- TokenStrings, s <- list_s,
  first <- list_first, seen <- list_seen
Exts == INSTANCE TokenLists WITH
  Lists <- {"ext"}, Strings <- ExtStrings, s <- list_s, first <- list_first,
  seen <- list_seen
Posix == INSTANCE Files WITH
  Kind <- "posix", Objects <- {1, 2}, Fds <- {1, 2, 3}, Modes <- FileModes,
  Word <- 16, Clears <- TRUE, Fails <- Fails, MaxSize <- FileSize,
  ec <- file_ec, last <- file_last
Stdio == INSTANCE Files WITH
  Kind <- "stdio", Objects <- {1, 2}, Fds <- {1, 2, 3},
  Modes <- FileModes \ {"write_existing"}, Word <- 16, Clears <- TRUE,
  Fails <- Fails \ {"pos", "seek"}, MaxSize <- FileSize, ec <- file_ec,
  last <- file_last
Win32 == INSTANCE Files WITH
  Kind <- "win32", Objects <- {1, 2}, Fds <- {1, 2, 3},
  Modes <- FileModes \ {"write_existing", "append"}, Word <- 16,
  Clears <- TRUE, Fails <- Fails, MaxSize <- FileSize, ec <- file_ec,
  last <- file_last
Body == INSTANCE FileBody WITH
  Buf <- 2, MaxLen <- MaxLen, MaxChanges <- 1, MaxMessages <- 2, Header <- 2,
  Sizes <- {0, 1, 3, 4}, Win32Buf <- 2, Limits <- {1, 9},
  Ways <- [async : BOOLEAN, chunked : BOOLEAN] \ {[async |-> TRUE, chunked |-> TRUE]},
  MaxErrors <- 2, body <- fb_body, ec <- fb_ec, more <- fb_more,
  sent <- fb_sent, messages <- fb_messages, chunked <- fb_chunked,
  last <- fb_last, view <- fb_view, op <- fb_op, errors <- fb_errors

ASSUME HttpAssumption ==
  /\ WriteOpsAssumption /\ HeaderOps!WriteOpsAssumption
  /\ Read!HttpReadAssumption /\ Write!HttpWriteAssumption
  /\ Container!KeyCompareAssumption /\ Message!KeyCompareAssumption
  /\ Params!ListsAssumption /\ Tokens!ListsAssumption /\ Exts!ListsAssumption
  /\ Posix!FilesAssumption /\ Stdio!FilesAssumption /\ Win32!FilesAssumption
  /\ Body!FileBodyAssumption /\ Body!FileBodyWin32Assumption

parser_part == <<msg, headerLimit, bodyMax, base, got, at, p, read_first,
                 state, flags, len, len0, skip, bodyLimit, room, read_ec,
                 out, read_seen>>
read_part == <<bufferMax, read_op, result, cut>>
write_vars == <<write_chunked, write_body, toggle, write_s, write_view,
                split, headerDone, write_more, limit, write_op, write_ec,
                write_sent, made, taken>>
fields_vars == <<fields>>
message_vars == <<request, what, version, size, message_fields, framed, kept>>
list_vars == <<list, list_s, begun, it, list_first, v, error, list_seen,
               whole>>
file_vars == <<live, h, fd, disk, testing, file_ec, file_last>>
body_vars == <<bytes, fb_body, job, remain, fb_ec, fb_more, fb_sent, from,
               changes, fb_messages>>
transmit_vars == <<fb_chunked, fb_last, pos, filepos, phase, fb_view, fb_op,
                   header_, amount, asserted, win32_sent, fb_errors>>
read_vars == <<parser_part, read_part>>
http_vars == <<part, vars, read_vars, write_vars, fields_vars, message_vars,
          list_vars, file_vars, body_vars, transmit_vars>>

(* What is at rest stays in one of its initial states.                     *)
HttpInit ==
  /\ part \in Parts
  /\ IF part = "header" THEN HeaderOps!Init
     ELSE Init /\ (part # "ops" => sr = Fresh(<<2>>))
  /\ IF part = "read" THEN Read!Init
     ELSE Read!Init /\ msg = (CHOOSE m \in Messages : TRUE)
          /\ headerLimit = 8 /\ bodyMax = 2 /\ bufferMax = 12 /\ room = 1 /\ flags = {}
  /\ Write!Init
  /\ part # "write" => ~write_chunked /\ write_body.kind = "empty" /\ limit = 2
  /\ Container!FieldsInit
  /\ Message!MessageInit
  /\ part # "message" => request /\ what = "post" /\ version = 10 /\ size = "0"
  /\ CASE part = "params" -> Params!Init
       [] part = "tokens" -> Tokens!Init
       [] part = "exts" -> Exts!Init
       [] OTHER -> Params!Init /\ list_s = <<>>
  /\ Posix!Init /\ (part \notin {"posix", "stdio", "win32"} => disk.exists)
  /\ Body!Init /\ (part # "body" => bytes = <<>>)
  /\ Body!Win32Init /\ (part # "transmit" => ~fb_chunked /\ fb_last = 0)

(* A step of part x: the others are at rest.                               *)
Runs(x) ==
  /\ part = x /\ UNCHANGED part
  /\ IF x \in {"ops", "header"} THEN TRUE ELSE UNCHANGED vars
  /\ IF x = "read" THEN TRUE ELSE UNCHANGED read_vars
  /\ IF x = "write" THEN TRUE ELSE UNCHANGED write_vars
  /\ IF x = "fields" THEN TRUE ELSE UNCHANGED fields_vars
  /\ IF x = "message" THEN TRUE ELSE UNCHANGED message_vars
  /\ IF x \in {"params", "tokens", "exts"} THEN TRUE ELSE UNCHANGED list_vars
  /\ IF x \in {"posix", "stdio", "win32"} THEN TRUE ELSE UNCHANGED file_vars
  /\ IF x = "body" THEN TRUE ELSE UNCHANGED body_vars
  /\ IF x = "transmit" THEN TRUE ELSE UNCHANGED transmit_vars

HttpNext ==
  \/ Runs("ops") /\ Next
  \/ Runs("header") /\ HeaderOps!Next
  \/ Runs("read") /\ Read!Next
  \/ Runs("write") /\ Write!Next
  \/ Runs("fields") /\ Container!FieldsNext
  \/ Runs("message") /\ Message!MessageNext
  \/ Runs("params") /\ Params!Next
  \/ Runs("tokens") /\ Tokens!Next
  \/ Runs("exts") /\ Exts!Next
  \/ Runs("posix") /\ Posix!Next
  \/ Runs("stdio") /\ Stdio!Next
  \/ Runs("win32") /\ Win32!Next
  \/ Runs("body") /\ Body!Next
  \/ Runs("transmit") /\ Body!Win32Next

HttpSpec == HttpInit /\ [][HttpNext]_http_vars

(* Fairness: a stream takes and hands over something or fails, and the     *)
(* loop that repeats a call, over a message, a list or a file, goes on     *)
(* (see the fairness of each component).                                   *)
Goes ==
  \/ Runs("ops") /\ Step
  \/ Runs("header") /\ HeaderOps!Step
  \/ Runs("read") /\ Read!Progress
  \/ Runs("write") /\ Write!Progress
  \/ Runs("params") /\ Params!Increment
  \/ Runs("tokens") /\ Tokens!Increment
  \/ Runs("exts") /\ Exts!Increment
  \/ Runs("body") /\ Body!get
  \/ Runs("transmit") /\ Body!Step

HttpFairSpec == HttpSpec /\ WF_http_vars(Goes)

----------------------------------------------------------------------------
(* However the bytes arrive and whatever the caller reads with, the body   *)
(* is handed on in order, complete is only what is whole and well formed   *)
(* and leaves the next message in the buffer, what is refused is wrong or  *)
(* beyond a limit, and the parser's assertions hold                        *)
(* (impl/basic_parser.ipp:117-330, 735-880, impl/read.hpp:60-170).         *)
ReadsAreWhole ==
  part = "read" =>
    /\ Read!TypeOK /\ Read!AssertionsHold
    /\ Read!BodyAsSent /\ Read!BodyWithinLimit
    /\ Read!CompleteIsWhole /\ Read!NoFalseAlarm

(* What is told agrees with what is done.  The serializer's buffers are    *)
(* the message and it is done with the last byte (impl/serializer.hpp:     *)
(* 54-358); the functions that write it tell what they wrote and end when  *)
(* it is written (impl/write.hpp:229-232, 616-704, 922-966).  A file has   *)
(* one owner and read() tells what it moved (core/impl/file_posix.ipp:66-331);  *)
(* a body is the file's content (basic_file_body.hpp:362,                  *)
(* impl/file_body_win32.hpp:337-555).                                      *)
WritesAreWhole ==
  /\ part \in {"ops", "header"} => Counted /\ Printed /\ Reached /\ HeaderOnly
  /\ part = "write" => Write!SentIsMessage /\ Write!DoneIsWhole /\ Write!HeaderDoneIsSent
  /\ part \in {"posix", "stdio", "win32"} => Posix!OwnedOnce
  /\ part \in {"posix", "win32"} => Posix!Counted
  /\ part = "body" => Body!IsTheFile
  /\ part = "transmit" => Body!InOrder /\ Body!Asserts

(* What a peer, or a reader of a value, finds: fields by name in list and  *)
(* set alike (impl/fields.hpp:850-1200), the end of the body and whether   *)
(* the connection stays as the message's members arranged them             *)
(* (impl/message.hpp:300-420), and each element of a list up to where its  *)
(* grammar is left (detail/rfc7230.ipp:265-382, impl/rfc7230.ipp:23-189).  *)
ReadersFindAll ==
  /\ part = "fields" => Container!LinkedInBoth /\ Container!LookupExact
  /\ part = "message" =>
       /\ Message!PeerFindsBody /\ Message!PeerKnowsKeepAlive
       /\ Message!PrepareTwice /\ Message!NotBoth
  /\ part = "params" => Params!ParamsRead
  /\ part = "tokens" => Tokens!TokensRead /\ Tokens!ValidatedIsValid /\ Tokens!AsThePrefix
  /\ part = "exts" => Exts!ExtensionsRead

(* What no step does: send a piece of the body with the header alone       *)
(* (impl/write.hpp:616), call a handler inside the call (:203), change the *)
(* order of the fields other than FieldGroups says (impl/fields.hpp), open *)
(* what the mode excludes, tell an error of another call, write over what  *)
(* is appended to (core/impl/file_posix.ipp:154-280, core/impl/file_stdio.ipp:155),  *)
(* or end a message that is shorter than it said (basic_file_body.hpp:312).*)
StepsKeepPromises ==
  /\ Write!HeaderAlone /\ NotInside
  /\ [][ /\ part = "fields" => UNCHANGED fields \/ Container!Abstract!Next
         /\ part \in {"posix", "stdio", "win32"} => Posix!OpenAsTold
         /\ part = "posix" => Posix!AsTheModeSays
         /\ part = "stdio" => Stdio!Position
         /\ part \in {"posix", "win32"} => Posix!OwnError
         /\ part \in {"posix", "stdio"} => Posix!AppendsAtEnd ]_http_vars
  /\ Body!Stored /\ Body!AsLongAsSaid /\ Body!OpenKnowsSize

(* An operation of the parser, the serializer or the functions that write  *)
(* ends, whatever the stream takes or hands over; a loop over a list ends, *)
(* whatever the string; a file is sent to its end                          *)
(* (impl/read.hpp:60-170, impl/write.hpp:222, 704, 972,                    *)
(* impl/rfc7230.ipp:45-156, impl/file_body_win32.hpp:481-588).             *)
OperationsEnd ==
  /\ Read!EveryReadEnds /\ Write!EveryWriteEnds /\ Ends
  /\ part \in {"params", "tokens", "exts"} ~> Params!AtEnd
  /\ Body!SendingEnds
  /\ part = "transmit" ~> phase = "done" /\ fb_op = "idle"
=============================================================================
