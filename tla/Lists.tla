------------------------------- MODULE Lists -------------------------------
(***************************************************************************)
(* Lists, and the operations of the standard library that the gateway uses *)
(* on them, stated by what they return: a sorted list (sort, BTreeSet),    *)
(* the elements a filter leaves (Vec::retain, Iterator::filter), the first *)
(* and the last place of something (find, trim) and the parts between      *)
(* delimiters (split).                                                     *)
(***************************************************************************)
EXTENDS Integers, Sequences, FiniteSets

IsList(l) == l \in Seq({l[i] : i \in DOMAIN l})

(* The element of a finite set of numbers with k smaller ones: element k,    *)
(* from 0, of the sorted list.                                               *)
Nth(S, k) == CHOOSE a \in S : Cardinality({b \in S : b < a}) = k

(* The numbers in order, each once: sort and dedup.                          *)
sorted(S) == [j \in 1 .. Cardinality(S) |-> Nth(S, j - 1)]

(* The elements of the list that are in `keep`, in the list's order.         *)
retain(list, keep) ==
  LET kept == {i \in DOMAIN list : list[i] \in keep}
  IN  [j \in 1 .. Cardinality(kept) |-> list[Nth(kept, j - 1)]]

(* The elements of the list that are not in `drop`, in the list's order.     *)
reject(list, drop) == retain(list, {list[i] : i \in DOMAIN list} \ drop)

(* The first and the last of some places in a list, 0 if there is none.      *)
FirstOf(places) == IF places = {} THEN 0 ELSE CHOOSE i \in places : \A j \in places : i <= j
LastOf(places)  == IF places = {} THEN 0 ELSE CHOOSE i \in places : \A j \in places : i >= j

(* What is before, between and behind the occurrences of c.                  *)
split(list, c) ==
  LET cuts == sorted({i \in 0 .. Len(list) + 1 : i \in DOMAIN list => list[i] = c})
  IN  [k \in 1 .. Len(cuts) - 1 |-> SubSeq(list, cuts[k] + 1, cuts[k + 1] - 1)]
=============================================================================
