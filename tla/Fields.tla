------------------------------- MODULE Fields -------------------------------
EXTENDS Integers, FiniteSets, SequencesExt

(***************************************************************************)
(* http::basic_fields: the fields of a message, each of which is linked    *)
(* into a list, the order in which they are sent, and into a multiset      *)
(* ordered by name, by which they are found.                               *)
(*                                                                         *)
(* A container is a record of the two, each a sequence of fields.  A field *)
(* is its name, its value and the address of its element.  Names that      *)
(* differ in case only are one name here.                                  *)
(***************************************************************************)

CONSTANT Rank   (* the order of the names, a function: see KeyCompareAssumption *)

Names == DOMAIN Rank

(* key_compare is a strict weak order: equal ranks are equal names.        *)
KeyCompareAssumption ==
  \A n \in Names : Rank[n] \in Nat /\ \A o \in Names : Rank[n] = Rank[o] => n = o

Empty == [list |-> <<>>, set |-> <<>>]

Named(s, n) == SelectSeq(s, LAMBDA e : e.name = n)
Others(s, n) == SelectSeq(s, LAMBDA e : e.name # n)

lower_bound(s, n) == Cardinality({i \in DOMAIN s : Rank[s[i].name] < Rank[n]})
upper_bound(s, n) == Cardinality({i \in DOMAIN s : Rank[s[i].name] <= Rank[n]})

(* iterator_to: where the element is in the list.                          *)
Place(s, e) == CHOOSE i \in DOMAIN s : s[i].at = e.at

InsertAfter(s, i, e) == InsertAt(s, i + 1, e)

(* insert(): "keep duplicate fields together in the list".                 *)
Insert(c, e) ==
  LET before == upper_bound(c.set, e.name)
  IN  [set  |-> InsertAfter(c.set, before, e),
       list |-> IF before > 0 /\ c.set[before].name = e.name
                  THEN InsertAfter(c.list, Place(c.list, c.set[before]), e)
                  ELSE Append(c.list, e)]

(* set_element(): all fields with the name go, the new one is the last.    *)
Set(c, e) ==
  [set  |-> InsertAfter(Others(c.set, e.name), lower_bound(c.set, e.name), e),
   list |-> Append(Others(c.list, e.name), e)]

(* erase(pos) and erase(name).                                             *)
EraseAt(c, i) == [set |-> RemoveAt(c.set, Place(c.set, c.list[i])), list |-> RemoveAt(c.list, i)]
Erase(c, n)   == [set |-> Others(c.set, n), list |-> Others(c.list, n)]

count(c, n) == upper_bound(c.set, n) - lower_bound(c.set, n)

(* find(): the place in the list of the first one in the set, 0 for end(). *)
find(c, n) == IF count(c, n) = 0 THEN 0 ELSE Place(c.list, c.set[lower_bound(c.set, n) + 1])

(* operator[]: the value, or an empty one.                                 *)
ValueOf(c, n) == IF find(c, n) = 0 THEN <<>> ELSE c.list[find(c, n)].value

(* equal_range(): from the first to after the last, in the list.           *)
equal_range(c, n) ==
  IF count(c, n) = 0 THEN <<>>
  ELSE SubSeq(c.list, find(c, n), Place(c.list, c.set[upper_bound(c.set, n)]))

(* The addresses in use, and one that is free.                             *)
Addresses(c) == {c.list[i].at : i \in DOMAIN c.list}
FreeAt(used) == CHOOSE a \in 1 .. Cardinality(used) + 1 : a \notin used

new_element(n, v, used) == [name |-> n, value |-> v, at |-> FreeAt(used)]

(* copy_all(): each field of `other`, in the order of its list.            *)
CopyAll(c, other, used) ==
  FoldLeft(LAMBDA d, e : Insert(d, new_element(e.name, e.value, used \cup Addresses(d))), c, other.list)

(* What can be compared between containers: names and values, in order.    *)
Shown(s) == [i \in DOMAIN s |-> [name |-> s[i].name, value |-> s[i].value]]

---------------------------------------------------------------------------
(***************************************************************************)
(* Containers of fields and what may be done with them: the modifiers of   *)
(* http::basic_fields, its assignments and swap().  The allocators are     *)
(* equal.  The method and the target, strings beside the fields, are left  *)
(* to Message.                                                             *)
(***************************************************************************)

CONSTANTS Values, Containers,
  MaxFields  (* bound: fields in all containers                             *)

VARIABLE fields   (* the containers                                        *)

fields_vars == <<fields>>

Used == UNION {Addresses(fields[c]) : c \in Containers}
Room == Cardinality(Used) < MaxFields

FieldsInit == fields = [c \in Containers |-> Empty]

Change(c, new) == fields' = [fields EXCEPT ![c] = new]

InsertField(c, n, v) == Room /\ Change(c, Insert(fields[c], new_element(n, v, Used)))
SetField(c, n, v)    == Room /\ Change(c, Set(fields[c], new_element(n, v, Used)))
EraseField(c, i)     == Change(c, EraseAt(fields[c], i))
EraseName(c, n)      == Change(c, Erase(fields[c], n))
Clear(c)             == Change(c, Empty)

(* operator=(const&): clear_all(), then copy_all().                        *)
CopyAssigned(c, d) ==
  LET cleared == [fields EXCEPT ![c] = Empty]
  IN  CopyAll(Empty, cleared[d], Used \ Addresses(fields[c]))

CopyAssign(c, d) ==
  /\ Cardinality(Used) + Len(fields[d].list) <= MaxFields
  /\ Change(c, CopyAssigned(c, d))

(* operator=(&&): nothing for itself, else `other` is left empty.          *)
MoveAssign(c, d) ==
  /\ c # d
  /\ fields' = [fields EXCEPT ![c] = fields[d], ![d] = Empty]

swap(c, d) == fields' = [fields EXCEPT ![c] = fields[d], ![d] = fields[c]]

FieldsNext ==
  \E c \in Containers :
    \/ \E n \in Names, v \in Values : InsertField(c, n, v) \/ SetField(c, n, v)
    \/ \E i \in DOMAIN fields[c].list : EraseField(c, i)
    \/ \E n \in Names : EraseName(c, n)
    \/ Clear(c)
    \/ \E d \in Containers \ {c} : CopyAssign(c, d) \/ MoveAssign(c, d) \/ swap(c, d)

FieldsSpec == FieldsInit /\ [][FieldsNext]_fields_vars

------------------------------------------------------------------------------
(* Each field is linked into the list and into the set of one container,   *)
(* once: an element that leaves only one of them is used after it is freed *)
(* (erase(), set_element(), move_assign()).  The set is in the order of    *)
(* the names.                                                              *)
LinkedInBoth ==
  /\ \A c \in Containers :
       LET s == fields[c].set  l == fields[c].list
       IN  /\ ToSet(s) = ToSet(l) /\ Len(s) = Len(l) /\ IsInjective(l)
           /\ \A i, j \in DOMAIN s : i < j => Rank[s[i].name] <= Rank[s[j].name]
  /\ \A c, d \in Containers : c = d \/ Addresses(fields[c]) \cap Addresses(fields[d]) = {}

(* equal_range() gives the fields with the name and no other, in the order *)
(* in which they are sent, although it takes only the ends from the set    *)
(* and what is between them from the list; find() gives the first.         *)
LookupExact ==
  \A c \in Containers, n \in Names :
    /\ equal_range(fields[c], n) = Named(fields[c].list, n)
    /\ count(fields[c], n) = Len(Named(fields[c].list, n))
    /\ find(fields[c], n) # 0 => fields[c].list[find(fields[c], n)] = Named(fields[c].list, n)[1]

(* The fields by name, in the order of the first one of each.              *)
Groups ==
  [c \in Containers |->
    LET l == fields[c].list
        firsts == SelectSeq([i \in DOMAIN l |-> i], LAMBDA i : i = 1 \/ l[i - 1].name # l[i].name)
        ValuesOf(n) == LET s == Named(l, n) IN [i \in DOMAIN s |-> s[i].value]
    IN  [k \in DOMAIN firsts |-> [name |-> l[firsts[k]].name, values |-> ValuesOf(l[firsts[k]].name)]]]

Abstract == INSTANCE FieldGroups WITH groups <- Groups

---------------------------------------------------------------------------
(***************************************************************************)
(* http::message: the members that read and write the fields on which the  *)
(* peer depends to find the end of the body and to know whether the        *)
(* connection stays: chunked(), content_length(), keep_alive() and         *)
(* prepare_payload().  Peer is what the parser at the other end (or this   *)
(* library's own, basic_parser) makes of the fields.                       *)
(*                                                                         *)
(* A value is a sequence of its elements: tokens, separated by commas, and *)
(* ";" for whatever follows a token that is not a comma, a parameter.  A   *)
(* Content-Length is one element, the number.                              *)
(***************************************************************************)

CONSTANTS
  Inserts,            (* what the user inserts: <<name, value>>             *)
  Methods, Statuses,  (* of a request, of a response                        *)
  Sizes,              (* of the body: a number, or None if it is not known  *)
  Versions,           (* 10 and 11                                          *)
  None,
  MaxMessageFields,  (* bound: a user inserts a field if there are fewer    *)
  MaxElements        (* bound: elements of a value                          *)

VARIABLES
  request,  (* isRequest                                                    *)
  what,     (* the method or the status                                     *)
  version,
  size,            (* Body::size() of the body                              *)
  message_fields,  (* the container                                         *)
  framed,          (* history: what framed the body last: prepare_payload() or *)
                   (* chunked(true), and nothing it depends on changed since *)
  kept             (* history: the same for keep_alive(b), its argument     *)

message_vars == <<request, what, version, size, message_fields, framed, kept>>

TE   == "Transfer-Encoding"
CL   == "Content-Length"
Conn == "Connection"

MessageInit ==
  /\ request \in BOOLEAN
  /\ what \in IF request THEN Methods ELSE Statuses
  /\ version \in Versions
  /\ size \in Sizes
  /\ message_fields = Empty
  /\ framed = "no" /\ kept = None

------------------------------------------------------------------------------
(* token_list: the tokens up to the first parameter.                       *)
Tokens(v) ==
  LET ends == {i \in DOMAIN v : v[i] = ";"}
  IN  IF ends = {} THEN v ELSE SubSeq(v, 1, (CHOOSE i \in ends : \A j \in ends : i <= j) - 1)

exists(v, t) == Contains(Tokens(v), t)
LastIs(v, t) == Tokens(v) # <<>> /\ Tokens(v)[Len(Tokens(v))] = t

AddTo(v, t) == Append(v, t)

filter_token_list(v, ts) == SelectSeq(Tokens(v), LAMBDA t : t \notin ts)
filter_token_list_last(v, t) == IF LastIs(v, t) THEN Front(Tokens(v)) ELSE Tokens(v)

Put(f, n, v) == Set(f, new_element(n, v, Addresses(f)))

PutOrErase(f, n, v) == IF v = <<>> THEN Erase(f, n) ELSE Put(f, n, v)

(* get_chunked_impl(), has_content_length_impl(), get_keep_alive_impl():   *)
(* the first field with the name counts.                                   *)
chunked == LastIs(ValueOf(message_fields, TE), "chunked")
has_content_length == count(message_fields, CL) > 0
keep_alive ==
  IF version < 11 THEN exists(ValueOf(message_fields, Conn), "keep-alive")
                  ELSE ~exists(ValueOf(message_fields, Conn), "close")

informational(s) == s = "1xx"

need_eof ==
  IF request \/ what \in {"204", "304"} \/ informational(what) \/ has_content_length \/ chunked
    THEN ~keep_alive ELSE TRUE

(* Wrong: the last token is dropped whatever it is.                        *)
SetChunkedDrops(f, b) ==
  LET v == ValueOf(f, TE)
  IN  IF b THEN IF LastIs(v, "chunked") THEN f ELSE Put(f, TE, AddTo(v, "chunked"))
      ELSE IF find(f, TE) = 0 THEN f ELSE PutOrErase(f, TE, Front(v))

(* set_chunked_impl().                                                     *)
SetChunked(f, b) ==
  LET v == ValueOf(f, TE)
  IN  IF b THEN IF LastIs(v, "chunked") THEN f ELSE Put(f, TE, AddTo(v, "chunked"))
      ELSE IF find(f, TE) = 0 THEN f ELSE PutOrErase(f, TE, filter_token_list_last(v, "chunked"))

SetContentLength(f, n) == IF n = None THEN Erase(f, CL) ELSE Put(f, CL, <<n>>)

(* keep_alive_impl().                                                      *)
KeepAliveValue(v, b) ==
  LET word  == IF version < 11 THEN "keep-alive" ELSE "close"
      other == IF version < 11 THEN "close" ELSE "keep-alive"
      s     == filter_token_list(v, {other})
  IN  IF b # (version < 11) THEN filter_token_list(v, {"close", "keep-alive"})
      ELSE IF s = <<>> THEN <<word>>
      ELSE IF ~exists(v, word) THEN AddTo(s, word) ELSE s

(* message::chunked(bool) and content_length().                            *)
Chunked(f, b)       == SetContentLength(SetChunked(f, b), None)
ContentLength(f, n) == SetChunked(SetContentLength(f, n), FALSE)

(* prepare_payload(): it throws, and does nothing, for a body that the     *)
(* method or the status does not allow.  For a status 1xx it should; it    *)
(* compares the status with the class, which never is the same.            *)
status_class(s) == s
Throws ==
  IF request THEN what = "trace" /\ size # "0"
             ELSE size # "0" /\ (status_class(what) = "informational" \/ what \in {"204", "304"})

WritesLength == size # None /\ (~request \/ size # "0" \/ what \in {"options", "put", "post"})

Prepared ==
  IF WritesLength THEN ContentLength(message_fields, size)
  ELSE Chunked(message_fields, size = None /\ version = 11)

------------------------------------------------------------------------------
(* The user's calls.                                                       *)
Same == UNCHANGED <<request, what, version, size>>

(* What a change of the fields `n` leaves of the histories.                *)
Touched(n) ==
  /\ framed' = IF n \in {TE, CL} THEN "no" ELSE framed
  /\ kept' = IF n = Conn THEN None ELSE kept

MessageInsertField(n, v) ==
  /\ Len(message_fields.list) < MaxMessageFields
  /\ message_fields' = Insert(message_fields, new_element(n, v, Addresses(message_fields)))
  /\ Touched(n) /\ Same

MessageEraseField(i) ==
  /\ message_fields' = EraseAt(message_fields, i)
  /\ Touched(message_fields.list[i].name) /\ Same

SetKeepAlive(b) ==
  /\ message_fields' = PutOrErase(message_fields, Conn, KeepAliveValue(ValueOf(message_fields, Conn), b))
  /\ kept' = b
  /\ UNCHANGED framed /\ Same

Bounded(f) == \A e \in ToSet(f.list) : Len(e.value) <= MaxElements

CallChunked(b) ==
  /\ Bounded(Chunked(message_fields, b))
  /\ message_fields' = Chunked(message_fields, b)
  /\ framed' = IF b THEN "chunked" ELSE "no"
  /\ UNCHANGED kept /\ Same

CallContentLength(n) ==
  /\ message_fields' = ContentLength(message_fields, n)
  /\ framed' = "no"
  /\ UNCHANGED kept /\ Same

prepare_payload ==
  /\ ~Throws /\ Bounded(Prepared)
  /\ message_fields' = Prepared
  /\ framed' = "prepared"
  /\ UNCHANGED kept /\ Same

(* version(), and body(), method() and result().                           *)
SetVersion(v) ==
  /\ v # version /\ version' = v
  /\ framed' = "no" /\ kept' = None
  /\ UNCHANGED <<request, what, size, message_fields>>

SetMessage ==
  /\ \/ size' \in Sizes \ {size} /\ UNCHANGED what
     \/ what' \in (IF request THEN Methods ELSE Statuses) \ {what} /\ UNCHANGED size
  /\ framed' = "no"
  /\ UNCHANGED <<request, version, message_fields, kept>>

MessageNext ==
  \/ \E i \in Inserts : MessageInsertField(i[1], i[2])
  \/ \E i \in DOMAIN message_fields.list : MessageEraseField(i)
  \/ \E b \in BOOLEAN : SetKeepAlive(b) \/ CallChunked(b)
  \/ \E n \in Sizes : CallContentLength(n)
  \/ prepare_payload
  \/ \E v \in Versions : SetVersion(v)
  \/ SetMessage

MessageSpec == MessageInit /\ [][MessageNext]_message_vars

------------------------------------------------------------------------------
(* basic_parser::do_field() at the other end, one field after the other.   *)
Reading == [chunked |-> FALSE, length |-> None, close |-> FALSE, alive |-> FALSE, error |-> FALSE]

(* The first "chunked" has to be the last token.                           *)
ChunkedLast(v) == LastIs(v, "chunked") /\ ~Contains(Front(Tokens(v)), "chunked")

do_field(r, e) ==
  IF e.name = Conn
    THEN [r EXCEPT !.close = @ \/ Contains(e.value, "close"),
                   !.alive = @ \/ Contains(e.value, "keep-alive")]
  ELSE IF e.name = CL
    THEN [r EXCEPT !.error = @ \/ r.chunked \/ r.length \notin {None, e.value[1]},
                   !.length = e.value[1]]
  ELSE IF e.name = TE
    THEN [r EXCEPT !.error = @ \/ r.chunked \/ r.length # None,
                   !.chunked = ChunkedLast(e.value)]
  ELSE r

Peer == FoldLeft(do_field, Reading, message_fields.list)

(* finish_header(): where the peer finds the end of the body.              *)
PeerBody ==
  IF ~request /\ (informational(what) \/ what \in {"204", "304"}) THEN "0"
  ELSE IF Peer.length # None THEN Peer.length
  ELSE IF Peer.chunked THEN "chunked"
  ELSE IF request THEN "0" ELSE "eof"

(* basic_parser::keep_alive().                                             *)
PeerKeepAlive ==
  /\ IF version = 11 THEN ~Peer.close ELSE Peer.alive
  /\ PeerBody # "eof"

------------------------------------------------------------------------------
(* What prepare_payload() cannot bring into one line with the body: a      *)
(* coding beside chunked, and a length; a coding with parameters, behind   *)
(* which the list of tokens ends; a body of unknown size in a request 1.0, *)
(* which has no chunks; and a list of codings that goes on after chunked.  *)
Contradiction == size # None /\ find(message_fields, TE) # 0
Parameters    == Contains(ValueOf(message_fields, TE), ";")
Unsendable    == request /\ size = None /\ version = 10
AfterChunked  == LastIs(ValueOf(message_fields, TE), "chunked") /\ count(message_fields, TE) > 1
Excepted      == Contradiction \/ Parameters \/ Unsendable \/ AfterChunked

(* After prepare_payload() the peer finds the end of the body as the       *)
(* serializer writes it, chunked or not, whatever fields the message had   *)
(* before: a length is exactly the size of the body, and where there is no *)
(* length the connection is closed after the message (need_eof()).         *)
PeerFindsBody ==
  framed = "prepared" /\ ~Excepted /\ ~informational(what) =>
    /\ ~Peer.error
    /\ (PeerBody = "chunked") = chunked
    /\ ~chunked => PeerBody = size \/ (PeerBody = "eof" /\ need_eof)

(* After keep_alive(b) both sides mean the same: the getter gives b, and a *)
(* peer that reads every Connection field agrees, also with need_eof(), if *)
(* the body was prepared (set_keep_alive_impl(), keep_alive_impl()).       *)
PeerKnowsKeepAlive ==
  kept # None =>
    /\ keep_alive = kept
    /\ (IF version = 11 THEN ~Peer.close ELSE Peer.alive) = kept
    /\ framed = "prepared" /\ ~Excepted => PeerKeepAlive = ~need_eof

(* prepare_payload() a second time changes nothing the peer can see        *)
(* (prepare_payload()), if the codings have no parameters: the fields are  *)
(* taken out and put at the end again.                                     *)
PrepareTwice ==
  framed = "prepared" /\ ~Parameters =>
    \A n \in Names : Shown(Named(Prepared.list, n)) = Shown(Named(message_fields.list, n))

(* A message never has both a length and the coding chunked once one of    *)
(* the setters of the body was called, for a peer that looks at any field  *)
(* (chunked(), content_length()).                                          *)
NotBoth == framed # "no" => ~(has_content_length /\ chunked)

=============================================================================
