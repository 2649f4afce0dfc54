---------------------------- MODULE StaticString ----------------------------
EXTENDS Integers, SequencesExt, FiniteSetsExt

(***************************************************************************)
(* static_string<N>: a string in an array of N + 1 characters.  Beside it  *)
(* there is another one of M characters, and, as a history, the strings    *)
(* that std::string would hold after the same calls.                       *)
(*                                                                         *)
(* What is put in comes from the caller, or from the string itself where   *)
(* Own allows it.  The array keeps what nothing has overwritten.           *)
(***************************************************************************)

CONSTANTS
  N, M,     (* max_size() of the two                                        *)
  Chars,
  Given,    (* the strings the caller has                                   *)
  Own,      (* may the caller put in a part of the string itself?           *)
  EndIn     (* may the part that is appended begin at the end?              *)

StringAssumption ==
  /\ N \in Nat \ {0} /\ M \in Nat \ {0} /\ 0 \notin Chars
  /\ Given \subseteq Seq(Chars) /\ Own \in BOOLEAN /\ EndIn \in BOOLEAN

VARIABLES
  s, t,            (* n_ and s_ of the two                                  *)
  std, ostd,       (* history: the std::strings                             *)
  threw, stdThrew  (* whether the last call threw, and would have           *)

vars == <<s, t, std, ostd, threw, stdThrew>>

Fresh(size)  == [n |-> 0, at |-> [i \in 0 .. size |-> 0]]
Text(x)      == [i \in 1 .. x.n |-> x.at[i - 1]]
Smaller(a, b) == IF a < b THEN a ELSE b

Init ==
  /\ s = Fresh(N) /\ t = Fresh(M)
  /\ std = <<>> /\ ostd = <<>>
  /\ threw = FALSE /\ stdThrew = FALSE

(* Traits::assign(), and Traits::copy() of what the caller has.            *)
Put(at, to, chars) ==
  [i \in DOMAIN at |-> IF i \in to .. to + Len(chars) - 1 THEN chars[i - to + 1] ELSE at[i]]

(* Traits::move() within the array.                                        *)
Move(at, to, from, k) ==
  [i \in DOMAIN at |-> IF i \in to .. to + k - 1 THEN at[i - to + from] ELSE at[i]]

(* Traits::copy() within the array.  Where the places overlap this is not  *)
(* defined: it may work like move(), or go up or down.                     *)
Copies(at, to, from, k) ==
  {Move(at, to, from, k)} \cup
  (IF to = from \/ k = 0 THEN {} ELSE
   { [i \in DOMAIN at |-> IF i \in to .. to + k - 1 THEN at[from + ((i - to) % Smaller(k, IF to > from THEN to - from ELSE k))] ELSE at[i]],
     [i \in DOMAIN at |-> IF i \in to .. to + k - 1
                            THEN at[from + k - 1 - ((to + k - 1 - i) % Smaller(k, IF from > to THEN from - to ELSE k))]
                            ELSE at[i]] })

Term(x) == [x EXCEPT !.at = [@ EXCEPT ![x.n] = 0]]

Fails    == threw' = TRUE /\ UNCHANGED <<s, t>>
Becomes(x) == s' = Term(x) /\ threw' = FALSE /\ UNCHANGED t

(* What std::string would do, with no more than N characters.              *)
StdFails      == stdThrew' = TRUE /\ UNCHANGED <<std, ostd>>
StdBecomes(x) ==
  IF Len(x) > N THEN StdFails ELSE std' = x /\ stdThrew' = FALSE /\ UNCHANGED ostd

Spliced(index, chars) == SubSeq(std, 1, index) \o chars \o SubSeq(std, index + 1, Len(std))

(* assign() of what the caller has; the one of one character and a count,  *)
(* and the ones of a part of another string, differ only in what is given. *)
assign(chars) ==
  /\ IF Len(chars) > N THEN Fails
     ELSE Becomes([n |-> Len(chars), at |-> Put(s.at, 0, chars)])
  /\ StdBecomes(chars)

(* assign() of a part of the string itself.                                *)
assign_own(pos, count) ==
  /\ Own /\ pos + count <= s.n
  /\ \E at \in Copies(s.at, 0, pos, count) : Becomes([n |-> count, at |-> at])
  /\ StdBecomes(SubSeq(std, pos + 1, pos + count))

(* Wrong: the size is set before there is known to be room.                *)
insert_late(index, chars) ==
  /\ IF index > s.n THEN Fails
     ELSE IF s.n + Len(chars) > N
       THEN threw' = TRUE /\ s' = [s EXCEPT !.n = Smaller(N, @ + Len(chars))] /\ UNCHANGED t
     ELSE Becomes([n  |-> s.n + Len(chars),
                   at |-> Put(Move(s.at, index + Len(chars), index, s.n - index), index, chars)])
  /\ IF index > Len(std) THEN StdFails ELSE StdBecomes(Spliced(index, chars))

(* insert(): what is behind moves away first.                              *)
insert(index, chars) ==
  /\ IF index > s.n \/ s.n + Len(chars) > N THEN Fails
     ELSE Becomes([n  |-> s.n + Len(chars),
                   at |-> Put(Move(s.at, index + Len(chars), index, s.n - index), index, chars)])
  /\ IF index > Len(std) THEN StdFails ELSE StdBecomes(Spliced(index, chars))

(* append(), and operator+=: what is given is inserted at the end.         *)
append(chars) == insert(s.n, chars)

(* insert() of a part of the string itself, read after the move.           *)
insert_own(index, pos, count) ==
  /\ Own \/ index = s.n
  /\ pos + count <= s.n /\ index <= s.n
  /\ IF s.n + count > N THEN Fails
     ELSE \E at \in Copies(Move(s.at, index + count, index, s.n - index), index, pos, count) :
            Becomes([n |-> s.n + count, at |-> at])
  /\ StdBecomes(Spliced(index, SubSeq(std, pos + 1, pos + count)))

(* append() of a part of another static_string.                            *)
append_part(chars, pos, count) ==
  LET part == SubSeq(chars, pos + 1, Smaller(pos + count, Len(chars)))
  IN  /\ EndIn \/ pos # Len(chars)
      /\ IF pos >= Len(chars) \/ s.n + Len(part) > N THEN Fails
         ELSE Becomes([n |-> s.n + Len(part), at |-> Put(s.at, s.n, part)])
      /\ IF pos > Len(chars) THEN StdFails ELSE StdBecomes(std \o part)

(* erase(): the terminator moves with the rest.                            *)
erase(index, count) ==
  /\ LET k == Smaller(count, s.n - index)
     IN  IF index > s.n THEN Fails
         ELSE /\ s' = [n |-> s.n - k, at |-> Move(s.at, index, index + k, s.n - (index + k) + 1)]
              /\ threw' = FALSE /\ UNCHANGED t
  /\ IF index > Len(std) THEN StdFails
     ELSE StdBecomes(SubSeq(std, 1, index) \o SubSeq(std, index + count + 1, Len(std)))

push_back(ch) ==
  /\ IF s.n >= N THEN Fails ELSE Becomes([n |-> s.n + 1, at |-> [s.at EXCEPT ![s.n] = ch]])
  /\ StdBecomes(Append(std, ch))

pop_back ==
  /\ s.n > 0
  /\ s' = [n |-> s.n - 1, at |-> [s.at EXCEPT ![s.n - 1] = 0]]
  /\ threw' = FALSE /\ UNCHANGED t
  /\ StdBecomes(SubSeq(std, 1, Len(std) - 1))

resize(k, ch) ==
  /\ IF k > N THEN Fails
     ELSE Becomes([n |-> k, at |-> IF k > s.n THEN Put(s.at, s.n, [i \in 1 .. k - s.n |-> ch]) ELSE s.at])
  /\ StdBecomes(SubSeq(std, 1, Smaller(k, Len(std))) \o [i \in 1 .. k - Len(std) |-> ch])

(* swap() with a string of another size: by way of a third one.            *)
swap ==
  /\ IF s.n > M \/ t.n > N THEN Fails
     ELSE /\ s' = [n |-> t.n, at |-> Put(s.at, 0, Append(Text(t), 0))]
          /\ t' = [n |-> s.n, at |-> Put(t.at, 0, Append(Text(s), 0))]
          /\ threw' = FALSE
  /\ IF Len(std) > M \/ Len(ostd) > N THEN StdFails
     ELSE std' = ostd /\ ostd' = std /\ stdThrew' = FALSE

Places == 0 .. N
Next ==
  \/ \E chars \in Given :
       \/ assign(chars)
       \/ append(chars)
       \/ \E i \in Places : insert(i, chars)
       \/ \E pos \in 0 .. 3, count \in 0 .. 2 : append_part(chars, pos, count)
  \/ \E pos, count \in Places :
       \/ assign_own(pos, count)
       \/ erase(pos, count)
       \/ \E i \in Places : insert_own(i, pos, count)
  \/ \E ch \in Chars : push_back(ch) \/ \E k \in 0 .. N + 1 : resize(k, ch)
  \/ pop_back
  \/ swap
Spec == Init /\ [][Next]_vars

(* detail::lexicographical_compare(): the shorter one is compared first.   *)
Sign(a, b) ==
  LET differ == {i \in 1 .. Smaller(Len(a), Len(b)) : a[i] # b[i]}
  IN  IF differ = {} THEN 0 ELSE IF a[Min(differ)] < b[Min(differ)] THEN -1 ELSE 1

compare(a, b) ==
  IF Len(a) < Len(b) THEN (IF Sign(a, b) <= 0 THEN -1 ELSE 1)
  ELSE IF Len(a) > Len(b) THEN (IF Sign(a, b) >= 0 THEN 1 ELSE -1)
  ELSE Sign(a, b)

(* substr(), and compare() of a part; no part begins behind the end.       *)
substr(pos, count) == SubSeq(Text(s), pos + 1, Smaller(pos + count, s.n))
compare_part(pos, count, other) == compare(substr(pos, count), other)

(* operator<, and with the arguments the other way round operator>.        *)
LessThan(a, b) == compare(a, b) < 0

------------------------------------------------------------------------------
(* The strings are what std::string would hold: "These objects behave like *)
(* std::string except that the storage is not dynamically allocated but    *)
(* rather fixed in size" (static_string.hpp:29-30).                        *)
BehavesLikeString == Text(s) = std /\ Text(t) = ostd

(* "The stored string is always null-terminated" (static_string.hpp:35),   *)
(* after every way of making it longer or shorter.                         *)
AlwaysTerminated == s.n <= N /\ t.n <= M /\ s.at[s.n] = 0 /\ t.at[t.n] = 0

(* The order is that of the characters, a beginning before the whole, both *)
(* ways round (detail/static_string.hpp:28-41).                            *)
Before(a, b) ==
  \/ IsStrictPrefix(a, b)
  \/ \E i \in 1 .. Smaller(Len(a), Len(b)) : a[i] < b[i] /\ SubSeq(a, 1, i - 1) = SubSeq(b, 1, i - 1)
OrdersLikeString ==
  \A other \in Given \cup {Text(t)} :
    /\ LessThan(Text(s), other) = Before(Text(s), other)
    /\ LessThan(other, Text(s)) = Before(other, Text(s))
    /\ \A pos \in 0 .. s.n, count \in 0 .. 2 :
         (compare_part(pos, count, other) = 0) = (SubSeq(std, pos + 1, Smaller(pos + count, Len(std))) = other)

---------------------------------------------------------------------------
(***************************************************************************)
(* to_static_string(): the decimal digits of an integer, written from the  *)
(* end of an array of max_digits().  Integers of one byte; a value that    *)
(* does not fit in the type wraps around.                                  *)
(***************************************************************************)

CONSTANTS Signed, Values
ValuesAssumption == Signed \in BOOLEAN /\ Values \subseteq (IF Signed THEN -128 .. 127 ELSE 0 .. 255)

VARIABLES x, rest, text
decimal_vars == <<x, rest, text>>

max_digits(bytes) == (bytes * 241) \div 100 + 1 + 1
Wrap(v) == IF v > 127 THEN v - 256 ELSE v

Minus == -1    (* the sign; digits are numbers                              *)

(* A negative number is made positive, as far as the type has one for it.  *)
DecimalInit ==
  \E v \in Values :
    /\ x = v
    /\ rest = IF v < 0 THEN Wrap(-v) ELSE v
    /\ text = IF v = 0 THEN <<0>> ELSE <<>>

(* The loop ends at zero, or where it never began.                         *)
Digit ==
  /\ rest > 0
  /\ text' = <<rest % 10>> \o text
  /\ rest' = rest \div 10
  /\ UNCHANGED x

DecimalSign ==
  /\ rest <= 0 /\ x < 0 /\ (text = <<>> \/ text[1] # Minus)
  /\ text' = <<Minus>> \o text
  /\ UNCHANGED <<x, rest>>

DecimalNext == Digit \/ DecimalSign
DecimalSpec == DecimalInit /\ [][DecimalNext]_decimal_vars

------------------------------------------------------------------------------
Digits == IF text # <<>> /\ text[1] = Minus THEN Tail(text) ELSE text
Number == FoldLeft(LAMBDA n, d : 10 * n + d, 0, Digits) * (IF x < 0 THEN -1 ELSE 1)
Written == rest <= 0 /\ (x < 0 => text # <<>> /\ text[1] = Minus)

(* What is written is the number, with no zero before it, and has room:    *)
(* "Returns a static string representing an integer as a decimal"          *)
(* (static_string.hpp:1089).                                               *)
IsDecimal ==
  /\ Len(text) <= max_digits(1)
  /\ Written => /\ Digits # <<>> /\ Number = x
                /\ Digits[1] = 0 => x = 0
=============================================================================
