----------------------------- MODULE FieldGroups -----------------------------
(***************************************************************************)
(* What the documentation of basic_fields promises: a container is a       *)
(* sequence of groups, one for each name it has, in the order in which     *)
(* they are sent, and each group has the values of the name in order.      *)
(***************************************************************************)
EXTENDS Integers, SequencesExt

CONSTANTS Names, Values, Containers, MaxFields

VARIABLE groups   (* for each container a sequence of [name, values]       *)

vars == <<groups>>

Position(g, n) == {i \in DOMAIN g : g[i].name = n}
Without(g, n)  == SelectSeq(g, LAMBDA r : r.name # n)
One(n, v)      == [name |-> n, values |-> <<v>>]

Init == groups = [c \in Containers |-> <<>>]

Change(c, g) == groups' = [groups EXCEPT ![c] = g]

Insert(c, n, v) ==
  IF Position(groups[c], n) = {} THEN Change(c, Append(groups[c], One(n, v)))
  ELSE \E i \in Position(groups[c], n) :
         Change(c, [groups[c] EXCEPT ![i].values = Append(@, v)])

Set(c, n, v) == Change(c, Append(Without(groups[c], n), One(n, v)))

Erase(c, n) == Change(c, Without(groups[c], n))

(* One value of a group, and the group with the last one.                  *)
EraseOne(c, i, j) ==
  LET vs == groups[c][i].values
  IN  IF Len(vs) = 1 THEN Change(c, RemoveAt(groups[c], i))
      ELSE Change(c, [groups[c] EXCEPT ![i].values = RemoveAt(vs, j)])

Clear(c) == Change(c, <<>>)

Copy(c, d) == Change(c, groups[d])
Move(c, d) == c # d /\ groups' = [groups EXCEPT ![c] = groups[d], ![d] = <<>>]
Swap(c, d) == groups' = [groups EXCEPT ![c] = groups[d], ![d] = groups[c]]

Next ==
  \E c \in Containers :
    \/ \E n \in Names, v \in Values : Insert(c, n, v) \/ Set(c, n, v)
    \/ \E n \in Names : Erase(c, n)
    \/ \E i \in DOMAIN groups[c] : \E j \in DOMAIN groups[c][i].values : EraseOne(c, i, j)
    \/ Clear(c)
    \/ \E d \in Containers : Copy(c, d) \/ Move(c, d) \/ Swap(c, d)

Spec == Init /\ [][Next]_vars
==============================================================================
