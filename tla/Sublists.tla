------------------------------ MODULE Sublists ------------------------------
(* Lists made of lists, as list comprehensions make them.                  *)
EXTENDS Naturals, Sequences

\* The elements of a list that are of a set, in their order.
Only(list, S) ==
  LET kept[i \in 0..Len(list)] ==
        IF i = 0 THEN <<>>
        ELSE IF list[i] \in S THEN Append(kept[i - 1], list[i]) ELSE kept[i - 1]
  IN  kept[Len(list)]

\* The elements of the lists of a list.
Flat(parts) ==
  LET joined[i \in 0..Len(parts)] == IF i = 0 THEN <<>> ELSE joined[i - 1] \o parts[i]
  IN  joined[Len(parts)]
=============================================================================
