----------------------------- MODULE TokenLists ------------------------------
(***************************************************************************)
(* http::param_list, ext_list, token_list and opt_token_list: the lists    *)
(* inside a field's value, read by iterators that parse as they go.        *)
(*                                                                         *)
(* A character is one of its kind: "t" of a token, " " for SP and HTAB,    *)
(* the delimiters, "dq" the double quote, "bs" the backslash and "x" one   *)
(* that is allowed nowhere.  A position is the number of characters before *)
(* it.                                                                     *)
(***************************************************************************)
EXTENDS Integers, SequencesExt

CONSTANTS
  Lists,        (* among "param", "ext", "token" and "opt"                 *)
  Strings

Chars   == {"t", " ", ",", ";", "=", "dq", "bs", "x"}
QdChars == Chars \ {"dq", "bs", "x"}
QpChars == Chars \ {"x"}
ListsAssumption ==
  Lists \subseteq {"param", "ext", "token", "opt"} /\ Strings \subseteq Seq(Chars)

VARIABLES
  list, s,      (* the kind of container, and the string it was made of    *)
  begun,        (* begin() was called                                      *)
  it, first,    (* of the iterator; it is Null at the end of an opt list   *)
  v,            (* what operator* returns                                  *)
  error,        (* error_ of an opt list's iterator                        *)
  seen,         (* what the loop has been given                            *)
  whole         (* and what it was given by a string with more behind s    *)

vars == <<list, s, begun, it, first, v, error, seen, whole>>

Null   == -1
None   == [first |-> <<>>, second |-> <<>>]
n      == Len(s)
C(i)   == s[i + 1]
Text(i, j) == SubSeq(s, i + 1, j)

Init ==
  /\ list \in Lists /\ s \in Strings
  /\ begun = FALSE /\ it = 0 /\ first = 0
  /\ v = None /\ error = FALSE /\ seen = <<>> /\ whole = <<>>

(* end(), to which the loop compares its iterator.                         *)
AtEnd == begun /\ IF list = "opt" THEN it = Null ELSE it = n /\ first = n

Skip(kinds, i) ==
  LET k[j \in 0 .. n] == IF j < n /\ C(j) \in kinds THEN k[j + 1] ELSE j IN k[i]
skip_ows(i)   == Skip({" "}, i)
skip_token(i) == Skip({"t"}, i)
is_token_char(i) == i < n /\ C(i) = "t"

(* Where the quoted-string whose quote is before i ends, 0 if it does not. *)
QuoteEnd(i) ==
  LET q[j \in 0 .. n + 1] ==
        IF j >= n THEN 0
        ELSE IF C(j) = "dq" THEN j + 1
        ELSE IF C(j) \in QdChars THEN q[j + 1]
        ELSE IF C(j) = "bs" /\ j + 1 < n /\ C(j + 1) \in QpChars THEN q[j + 2]
        ELSE 0
  IN  q[i]

(* param_iter::increment() from i on: one parameter, or none.              *)
ParamAt(i) ==
  LET f == skip_ows(i)
      a == skip_ows(f + 1)
      b == skip_token(a)
      c == skip_ows(b)
      d == skip_ows(c + 1)
      e == IF C(d) = "dq" THEN QuoteEnd(d + 1) ELSE skip_token(d)
      err == [it |-> f, first |-> f, v |-> None]
      Is(at, value) == [it |-> at, first |-> f, v |-> [first |-> Text(a, b), second |-> value]]
  IN  IF f = n \/ C(f) # ";" \/ ~is_token_char(a) THEN err
      ELSE IF c = n \/ C(c) = ";" THEN Is(c, <<>>)
      ELSE IF C(c) # "=" THEN err
      ELSE IF d = n THEN Is(d, <<>>)
      ELSE IF C(d) \notin {"dq", "t"} \/ e = 0 THEN err
      ELSE Is(e, Text(d, e))

unquote(q) ==
  LET u[k \in 2 .. Len(q) + 1] ==
        IF k >= Len(q) THEN <<>>
        ELSE IF q[k] = "bs" THEN <<q[k + 1]>> \o u[k + 2]
        ELSE <<q[k]>> \o u[k + 1]
  IN  u[2]

param_increment ==
  \E p \in {ParamAt(it)} :
    LET quoted == p.v.second # <<>> /\ p.v.second[1] = "dq"
        empty  == p.it = p.first
    IN  /\ it'    = IF empty THEN n ELSE p.it
        /\ first' = IF empty THEN n ELSE p.first
        /\ v' = IF quoted THEN [p.v EXCEPT !.second = unquote(@)] ELSE p.v
        /\ UNCHANGED error

(* The three others skip white space and commas up to a token, which needs *)
(* a comma before it unless it is the first.                               *)
Over(i) == Skip({" ", ","}, i)

IsItem(i, need_comma) ==
  /\ is_token_char(Over(i))
  /\ need_comma => \E k \in i .. Over(i) - 1 : C(k) = ","

err == it' = n /\ first' = n /\ v' = [v EXCEPT !.first = <<>>]

token_increment ==
  /\ LET j == Over(it)
     IN  IF IsItem(it, it # first)
           THEN /\ first' = it /\ it' = skip_token(j)
                /\ v' = [None EXCEPT !.first = Text(j, skip_token(j))]
           ELSE err
  /\ UNCHANGED error

(* Where the parameters behind a token end.                                *)
ParamsEnd(i) ==
  LET end[j \in 0 .. n] == LET p == ParamAt(j) IN IF p.it = p.first THEN p.it ELSE end[p.it]
  IN  end[i]

ext_increment ==
  /\ LET j == Over(it)
         k == skip_token(j)
     IN  IF ~IsItem(it, it # first) THEN err
         ELSE IF k = n
           THEN first' = it /\ it' = n /\ v' = [v EXCEPT !.first = Text(j, k)]
         ELSE /\ first' = it /\ it' = ParamsEnd(k)
              /\ v' = [first |-> Text(j, k), second |-> Text(k, ParamsEnd(k))]
  /\ UNCHANGED error

(* opt_token_list_policy under basic_parsed_list's increment().            *)
opt_increment ==
  /\ LET j == Over(it)
     IN  IF IsItem(it, it # 0)
           THEN /\ it' = skip_token(j) /\ UNCHANGED error
                /\ v' = [None EXCEPT !.first = Text(j, skip_token(j))]
           ELSE it' = Null /\ v' = None /\ error' = (j < n)
  /\ UNCHANGED first

(* begin(), whose constructor increments, and operator++ in the loop.  No  *)
(* list has more elements than characters; more are not counted.           *)
Increment ==
  /\ ~AtEnd
  /\ begun' = TRUE /\ UNCHANGED <<list, s, whole>>
  /\ CASE list = "param" -> param_increment
       [] list = "ext"   -> ext_increment
       [] list = "token" -> token_increment
       [] list = "opt"   -> opt_increment
  /\ seen' = IF AtEnd' \/ Len(seen) > n THEN seen ELSE Append(seen, v')

------------------------------------------------------------------------------
(* The grammars of rfc7230.hpp's comments, as automata: from a state with  *)
(* a character to a state.                                                 *)
ParamMoves ==
  { <<"rest", " ", "rest">>, <<"rest", ";", "semi">>,
    <<"semi", " ", "semi">>, <<"semi", "t", "name">>,
    <<"name", "t", "name">>, <<"name", " ", "named">>,
    <<"name", ";", "semi">>, <<"name", "=", "eq">>,
    <<"named", " ", "named">>, <<"named", ";", "semi">>, <<"named", "=", "eq">>,
    <<"eq", " ", "eq">>, <<"eq", "t", "val">>, <<"eq", "dq", "quote">>,
    <<"val", "t", "val">>, <<"val", " ", "rest">>, <<"val", ";", "semi">>,
    <<"quote", "dq", "rest">>, <<"quote", "bs", "esc">> }
  \cup {<<"quote", c, "quote">> : c \in QdChars}
  \cup {<<"esc", c, "quote">> : c \in QpChars}
TokenMoves ==
  { <<"list", " ", "list">>, <<"list", ",", "list">>, <<"list", "t", "item">>,
    <<"item", "t", "item">>, <<"item", " ", "over">>, <<"item", ",", "list">>,
    <<"over", " ", "over">>, <<"over", ",", "list">> }
(* What ext_list reads: a comma comes behind a token or a value.           *)
ExtMoves ==
  ParamMoves \cup TokenMoves \cup { <<"item", ";", "semi">>, <<"over", ";", "semi">>,
    <<"rest", ",", "list">>, <<"val", ",", "list">> }
Moves == CASE list = "param" -> ParamMoves [] list = "ext" -> ExtMoves [] OTHER -> TokenMoves

(* The state before each character of str and behind the last one.         *)
Where(moves, str) ==
  LET Then(q, c) == LET to == {m \in moves : m[1] = q /\ m[2] = c}
                    IN  IF to = {} THEN "bad" ELSE (CHOOSE m \in to : TRUE)[3]
      start == IF moves = ParamMoves THEN "rest" ELSE "list"
      w == FoldLeft(LAMBDA q, c : Append(q, Then(q[Len(q)], c)), <<start>>, str)
  IN  [i \in 0 .. Len(str) |-> w[i + 1]]

(* Where tokens of a kind begin, in order, and what they are.              *)
Begins(w, str, q) ==
  SetToSortSeq({i \in 1 .. Len(str) : w[i] = q /\ w[i - 1] # q}, <)
TokenAt(w, str, i) ==
  SubSeq(str, i, CHOOSE j \in i .. Len(str) :
                   /\ \A k \in i .. j : w[k] = w[i]
                   /\ j = Len(str) \/ w[j + 1] # w[i])

(* The parameter whose name begins at i is complete, before the string     *)
(* ends or goes wrong.                                                     *)
Complete(w, str, i) ==
  \/ \E j \in i .. Len(str) : w[j] \in {"semi", "val", "rest", "list"}
  \/ w[Len(str)] \in {"name", "named", "eq"}
(* The characters of its value.                                            *)
ValueOf(w, str, i) ==
  LET next == {j \in i .. Len(str) : w[j] \in {"semi", "list", "bad"}}
      end  == IF next = {} THEN Len(str) ELSE CHOOSE j \in next : \A k \in next : j <= k
      of   == {j \in i .. end : w[j] = "val" \/ (w[j] = "quote" /\ w[j - 1] # "eq")}
  IN  [k \in 1 .. Cardinality(of) |-> str[SetToSortSeq(of, <)[k]]]

ParamsBetween(w, str, from, to) ==
  LET at == SelectSeq(Begins(w, str, "name"),
                      LAMBDA i : from < i /\ i < to /\ Complete(w, str, i))
  IN  [k \in 1 .. Len(at) |->
         [first |-> TokenAt(w, str, at[k]), second |-> ValueOf(w, str, at[k])]]
ParamsOf(str) == ParamsBetween(Where(ParamMoves, str), str, 0, Len(str) + 1)

(* Every parameter is given to the loop with its value unquoted, up to the *)
(* first one that the string spoils (detail/rfc7230.ipp:265-341, impl/rfc7230.ipp:23-57).         *)
ParamsRead == AtEnd /\ list = "param" => seen = ParamsOf(s)

(* Every token is, up to where the grammar is left, and no other           *)
(* (impl/rfc7230.ipp:146-189 and detail/rfc7230.ipp:345-382).                   *)
TokensRead ==
  AtEnd /\ list \in {"token", "opt"} =>
    LET w  == Where(TokenMoves, s)
        at == Begins(w, s, "item")
    IN  seen = [k \in 1 .. Len(at) |-> [None EXCEPT !.first = TokenAt(w, s, at[k])]]

(* validate_list() is true if and only if the grammar reads all of s       *)
(* (impl/rfc7230.hpp:360-380).                                             *)
ValidatedIsValid ==
  AtEnd /\ list = "opt" => (error <=> Where(TokenMoves, s)[n] = "bad")

(* Every extension is given with its own parameters, but for a last one    *)
(* that ends s, whose parameters are those of the one before               *)
(* (impl/rfc7230.ipp:60-126).                                                   *)
ExtensionsRead ==
  AtEnd /\ list = "ext" =>
    LET w  == Where(ExtMoves, s)
        at == Begins(w, s, "item")
        To(k) == IF k = Len(at) THEN n + 1 ELSE at[k + 1]
    IN  /\ Len(seen) = Len(at)
        /\ \A k \in 1 .. Len(at) :
             /\ seen[k].first = TokenAt(w, s, at[k])
             /\ \/ ParamsOf(seen[k].second) = ParamsBetween(w, s, at[k], To(k))
                \/ /\ k > 1 /\ at[k] + Len(seen[k].first) = n + 1
                   /\ seen[k].second = seen[k - 1].second

(* "As if a string containing only characters up to but excluding the      *)
(* first invalid character was used": then the same tokens are given       *)
(* (http/rfc7230.hpp:214-217).                                             *)
AsThePrefix ==
  AtEnd /\ whole # <<>> /\ list \in {"token", "opt"} => seen = whole[1]

(* Another container, made of what is before the first invalid character.  *)
Again ==
  /\ AtEnd /\ whole = <<>>
  /\ \E i \in 1 .. n : /\ Where(Moves, s)[i] = "bad" /\ Where(Moves, s)[i - 1] # "bad"
                       /\ s' = SubSeq(s, 1, i - 1)
  /\ whole' = <<seen>>
  /\ begun' = FALSE /\ it' = 0 /\ first' = 0
  /\ v' = None /\ error' = FALSE /\ seen' = <<>>
  /\ UNCHANGED list

Next == Increment \/ Again
Spec == Init /\ [][Next]_vars /\ WF_vars(Increment)

=============================================================================
