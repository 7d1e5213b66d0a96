-------------------------- MODULE CommandsProofs --------------------------
(***************************************************************************)
(* Proofs about lists, and about the lines that clients send: a line is    *)
(* taken exactly if it is one command.  Every operator of Lists picks      *)
(* places of a list, so what it returns is known from the places in their  *)
(* order, and no induction over the list is needed.                        *)
(***************************************************************************)
EXTENDS Protocol, FiniteSetTheorems, TLAPS

(* A set of numbers that is not empty has a least one.                       *)
LEMMA Least ==
  ASSUME NEW T \in SUBSET Nat, T # {}
  PROVE  \E x \in T : \A y \in T : x <= y
<1> DEFINE R == {u \in Nat \X Nat : u[1] < u[2]}
<1>1. IsWellFoundedOn(R, Nat)
  <2>1. OpToRel(<, Nat) = R
    BY Zenon DEF OpToRel
  <2> QED
    BY <2>1, NatLessThanWellFounded, Zenon
<1>2. \A x, y \in Nat : y < x => <<y, x>> \in R
  OBVIOUS
<1> HIDE DEF R
<1>3. PICK x \in T : \A y \in T : ~ (<<y, x>> \in R)
  BY <1>1, WFMin, Zenon
<1>4. ASSUME NEW y \in T PROVE x <= y
  <2>1. ~ (y < x)
    BY <1>2, <1>3, Zenon
  <2>2. x \in Nat /\ y \in Nat
    OBVIOUS
  <2> QED
    BY <2>1, <2>2
<1> QED
  BY <1>4, Zenon

(* A set of numbers that has 0 and, with each, the next has all up to n.     *)
LEMMA UpTo ==
  ASSUME NEW n \in Nat, NEW T, 0 \in T, \A k \in 0 .. n - 1 : k \in T => k + 1 \in T
  PROVE  0 .. n \subseteq T
<1>1. SUFFICES ASSUME (0 .. n) \ T # {} PROVE FALSE
  OBVIOUS
<1>2. PICK x \in (0 .. n) \ T : \A y \in (0 .. n) \ T : x <= y
  <2>1. (0 .. n) \ T \in SUBSET Nat
    OBVIOUS
  <2> QED
    BY <1>1, <2>1, Least, Zenon
<1>3. x # 0 /\ x - 1 \in 0 .. n - 1 /\ x - 1 \in T
  BY <1>2
<1> QED
  BY <1>2, <1>3

(* The order of numbers.  The numbers of a finite set that are smaller than  *)
(* one of them tell it from all others.                                      *)
Below(S, a) == {b \in S : b < a}

(* Of two, the smaller has fewer below it.                                   *)
LEMMA BelowGrows ==
  ASSUME NEW S \in SUBSET Nat, IsFiniteSet(S), NEW a \in S
  PROVE  /\ Cardinality(Below(S, a)) \in 0 .. Cardinality(S) - 1
         /\ \A c \in S : a < c => Cardinality(Below(S, a)) < Cardinality(Below(S, c))
<1>1. ASSUME NEW T \in SUBSET S, Below(S, a) \subseteq T, a \in T
      PROVE  /\ Cardinality(Below(S, a)) < Cardinality(T)
             /\ Cardinality(Below(S, a)) \in Nat /\ Cardinality(T) \in Nat
  <2>1. a \notin Below(S, a)
    BY DEF Below
  <2>2. IsFiniteSet(T) /\ Below(S, a) \in SUBSET T /\ Below(S, a) # T
    BY <1>1, <2>1, FS_Subset, Zenon
  <2>3. /\ IsFiniteSet(Below(S, a))
        /\ Cardinality(Below(S, a)) <= Cardinality(T)
        /\ Cardinality(T) # Cardinality(Below(S, a))
    BY <2>2, FS_Subset
  <2>4. Cardinality(Below(S, a)) \in Nat /\ Cardinality(T) \in Nat
    BY <2>2, <2>3, FS_CardinalityType
  <2> QED
    BY <2>3, <2>4
<1>2. Below(S, a) \subseteq S
  BY DEF Below
<1>3. Cardinality(Below(S, a)) \in 0 .. Cardinality(S) - 1
  BY <1>1, <1>2
<1>4. ASSUME NEW c \in S, a < c
      PROVE  Cardinality(Below(S, a)) < Cardinality(Below(S, c))
  <2>0. \A b \in S : b < a => b < c
    <3>1. a \in Nat /\ c \in Nat /\ \A b \in S : b \in Nat
      OBVIOUS
    <3> QED
      BY <1>4, <3>1
  <2>1. Below(S, c) \in SUBSET S /\ Below(S, a) \subseteq Below(S, c) /\ a \in Below(S, c)
    BY <1>4, <2>0, Zenon DEF Below
  <2> QED
    BY <1>1, <2>1
<1> QED
  BY <1>3, <1>4

(* So every number below the size of the set is the rank of one element, and *)
(* Nth enumerates the set.                                                   *)
LEMMA NthEnumerates ==
  ASSUME NEW S \in SUBSET Nat, IsFiniteSet(S)
  PROVE  /\ \A a \in S : Nth(S, Cardinality(Below(S, a))) = a
         /\ \A k \in 0 .. Cardinality(S) - 1 :
              Nth(S, k) \in S /\ Cardinality(Below(S, Nth(S, k))) = k
<1> DEFINE n == Cardinality(S)
<1> DEFINE rank == [a \in S |-> Cardinality(Below(S, a))]
<1>1. n \in Nat /\ IsFiniteSet(0 .. n - 1) /\ Cardinality(0 .. n - 1) = n
  <2>1. n \in Nat
    BY FS_CardinalityType
  <2>2. 0 \in Int /\ n - 1 \in Int
    BY <2>1
  <2>3. /\ IsFiniteSet(0 .. n - 1)
        /\ Cardinality(0 .. n - 1) = IF 0 > n - 1 THEN 0 ELSE (n - 1) - 0 + 1
    BY <2>2, FS_Interval
  <2> HIDE DEF n
  <2> QED
    BY <2>1, <2>3
<1>2. rank \in [S -> 0 .. n - 1]
  BY BelowGrows
<1>3. ASSUME NEW a \in S, NEW c \in S, rank[a] = rank[c] PROVE a = c
  <2>1. Cardinality(Below(S, a)) = Cardinality(Below(S, c))
    BY <1>3
  <2>2. Cardinality(Below(S, a)) \in Nat /\ Cardinality(Below(S, c)) \in Nat
    BY BelowGrows
  <2>3. ~(a < c) /\ ~(c < a)
    BY <2>1, <2>2, BelowGrows
  <2>4. a \in Nat /\ c \in Nat
    OBVIOUS
  <2> QED
    BY <2>3, <2>4
<1>4. rank \in Injection(S, 0 .. n - 1)
  BY <1>2, <1>3 DEF Injection, IsInjective
<1>5. rank \in Surjection(S, 0 .. n - 1)
  BY <1>1, <1>4, FS_Injection
<1>6. ASSUME NEW a \in S PROVE Nth(S, Cardinality(Below(S, a))) = a
  <2> DEFINE k == Cardinality(Below(S, a))
  <2>1. \A c \in S : Cardinality(Below(S, c)) = k => c = a
    BY <1>3
  <2>2. a = CHOOSE c \in S : Cardinality(Below(S, c)) = k
    BY <2>1
  <2> QED
    BY <2>2, Zenon DEF Nth, Below
<1>7. ASSUME NEW k \in 0 .. n - 1
      PROVE  Nth(S, k) \in S /\ Cardinality(Below(S, Nth(S, k))) = k
  <2>1. PICK a \in S : rank[a] = k
    BY <1>5, Zenon DEF Surjection
  <2> QED
    BY <1>6, <2>1
<1> QED
  BY <1>6, <1>7

(* A sorted list has every number once, in ascending order.                  *)
LEMMA SortedIs ==
  ASSUME NEW S \in SUBSET Nat, IsFiniteSet(S)
  PROVE  /\ DOMAIN sorted(S) = 1 .. Cardinality(S)
         /\ \A k \in DOMAIN sorted(S) : sorted(S)[k] \in S
         /\ \A a \in S : \E k \in DOMAIN sorted(S) : sorted(S)[k] = a
         /\ \A i, j \in DOMAIN sorted(S) : i < j => sorted(S)[i] < sorted(S)[j]
<1> DEFINE n == Cardinality(S)
<1>1. n \in Nat
  BY FS_CardinalityType
<1>2. DOMAIN sorted(S) = 1 .. n /\ \A k \in 1 .. n : sorted(S)[k] = Nth(S, k - 1)
  BY DEF sorted
<1>3. /\ \A a \in S : Nth(S, Cardinality(Below(S, a))) = a
      /\ \A k \in 0 .. n - 1 : Nth(S, k) \in S /\ Cardinality(Below(S, Nth(S, k))) = k
  BY NthEnumerates
<1> HIDE DEF n
<1>4. \A k \in 1 .. n : k - 1 \in 0 .. n - 1
  BY <1>1
<1>5. ASSUME NEW a \in S PROVE \E k \in 1 .. n : sorted(S)[k] = a
  <2> DEFINE c == Cardinality(Below(S, a))
  <2>1. c \in 0 .. n - 1
    BY BelowGrows DEF n
  <2>2. Nth(S, c) = a
    BY <1>3
  <2> HIDE DEF c
  <2>3. c + 1 \in 1 .. n /\ (c + 1) - 1 = c
    BY <1>1, <2>1
  <2> QED
    BY <1>2, <2>2, <2>3
<1>6. ASSUME NEW i \in 1 .. n, NEW j \in 1 .. n, i < j PROVE sorted(S)[i] < sorted(S)[j]
  <2> DEFINE a == Nth(S, i - 1)
             c == Nth(S, j - 1)
  <2>1. /\ a \in S /\ Cardinality(Below(S, a)) = i - 1
        /\ c \in S /\ Cardinality(Below(S, c)) = j - 1
    BY <1>3, <1>4
  <2> HIDE DEF a, c
  <2>2. a \in Nat /\ c \in Nat
    BY <2>1
  <2>3. ~(c < a)
    <3>1. c < a => Cardinality(Below(S, c)) < Cardinality(Below(S, a))
      BY <2>1, BelowGrows
    <3> QED
      BY <1>1, <1>6, <2>1, <3>1
  <2>4. a # c
    BY <1>1, <1>6, <2>1
  <2>5. a < c
    BY <2>2, <2>3, <2>4
  <2> QED
    BY <1>2, <2>5 DEF a, c
<1> QED
  BY <1>2, <1>3, <1>4, <1>5, <1>6 DEF n

(* e lists the n numbers of S in ascending order.                            *)
InOrder(e, n, S) ==
  /\ e \in [1 .. n -> S]
  /\ \A i, j \in 1 .. n : i < j => e[i] < e[j]
  /\ \A a \in S : \E k \in 1 .. n : e[k] = a

(* A list ascends if each element is below the next one.                     *)
LEMMA Ascends ==
  ASSUME NEW n \in Nat, NEW e, \A k \in 1 .. n : e[k] \in Nat, \A k \in 1 .. n - 1 : e[k] < e[k + 1]
  PROVE  \A i, j \in 1 .. n : i < j => e[i] < e[j]
<1> SUFFICES ASSUME NEW i \in 1 .. n, NEW j \in 1 .. n, i < j PROVE e[i] < e[j]
  OBVIOUS
<1> DEFINE T == {d \in 0 .. (j - i) - 1 : e[i] < e[(i + 1) + d]}
<1>1. (j - i) - 1 \in Nat /\ i \in Nat /\ j \in Nat
  OBVIOUS
<1>2. 0 \in T
  BY <1>1
<1>3. ASSUME NEW d \in 0 .. ((j - i) - 1) - 1, d \in T PROVE d + 1 \in T
  <2>1. /\ d + 1 \in 0 .. (j - i) - 1 /\ (i + 1) + d \in 1 .. n - 1 /\ (i + 1) + d \in 1 .. n
        /\ ((i + 1) + d) + 1 = (i + 1) + (d + 1) /\ ((i + 1) + d) + 1 \in 1 .. n /\ i \in 1 .. n
    BY <1>1
  <2>2. e[(i + 1) + d] < e[((i + 1) + d) + 1] /\ e[i] < e[(i + 1) + d]
    BY <1>3, <2>1
  <2>3. e[i] < e[((i + 1) + d) + 1]
    BY <2>1, <2>2
  <2> QED
    BY <2>1, <2>3
<1> HIDE DEF T
<1>4. 0 .. (j - i) - 1 \subseteq T
  BY <1>1, <1>2, <1>3, UpTo
<1>5. (j - i) - 1 \in T /\ (i + 1) + ((j - i) - 1) = j
  BY <1>1, <1>4
<1> QED
  BY <1>5 DEF T

(* A list in order has as many elements as the set.                          *)
LEMMA InOrderCounts ==
  ASSUME NEW S \in SUBSET Nat, NEW n \in Nat, NEW e, InOrder(e, n, S)
  PROVE  IsFiniteSet(S) /\ Cardinality(S) = n
<1>1. IsFiniteSet(1 .. n) /\ Cardinality(1 .. n) = n
  <2>1. 1 \in Int /\ n \in Int
    OBVIOUS
  <2>2. IsFiniteSet(1 .. n) /\ Cardinality(1 .. n) = IF 1 > n THEN 0 ELSE n - 1 + 1
    BY <2>1, FS_Interval
  <2> QED
    BY <2>2
<1>2. ASSUME NEW i \in 1 .. n, NEW j \in 1 .. n, e[i] = e[j] PROVE i = j
  <2>1. ~(i < j) /\ ~(j < i)
    <3>1. e[i] \in Nat /\ e[j] \in Nat
      BY Zenon DEF InOrder
    <3> QED
      BY <1>2, <3>1 DEF InOrder
  <2> QED
    BY <2>1
<1>3. e \in Bijection(1 .. n, S)
  <2>1. e \in [1 .. n -> S] /\ \A a \in S : \E k \in 1 .. n : e[k] = a
    BY DEF InOrder
  <2>2. e \in Injection(1 .. n, S)
    BY <1>2, <2>1 DEF Injection, IsInjective
  <2>3. e \in Surjection(1 .. n, S)
    BY <2>1 DEF Surjection
  <2> QED
    BY <2>2, <2>3 DEF Bijection
<1>4. ExistsBijection(1 .. n, S)
  BY <1>3 DEF ExistsBijection
<1> QED
  BY <1>1, <1>4, FS_Bijection

(* It is the sorted list, and there is no other.                             *)
LEMMA InOrderIsSorted ==
  ASSUME NEW S \in SUBSET Nat, NEW n \in Nat, NEW e, InOrder(e, n, S)
  PROVE  /\ IsFiniteSet(S) /\ Cardinality(S) = n
         /\ \A k \in 1 .. n : Nth(S, k - 1) = e[k]
         /\ sorted(S) = e
<1>1. IsFiniteSet(S) /\ Cardinality(S) = n
  BY InOrderCounts
<1>2. ASSUME NEW k \in 1 .. n PROVE Nth(S, k - 1) = e[k]
  <2> DEFINE B == Below(S, e[k])
             d == [i \in 1 .. k - 1 |-> e[i]]
  <2>1. k - 1 \in Nat /\ e[k] \in S /\ \A i \in 1 .. k - 1 : i \in 1 .. n /\ i < k
    BY DEF InOrder
  <2>2. d \in [1 .. k - 1 -> B]
    BY <2>1 DEF InOrder, Below
  <2>3. \A i, j \in 1 .. k - 1 : i < j => d[i] < d[j]
    BY <2>1 DEF InOrder
  <2>4. ASSUME NEW a \in B PROVE \E i \in 1 .. k - 1 : d[i] = a
    <3>1. a \in S /\ a < e[k] /\ a \in Nat /\ e[k] \in Nat
      BY <2>1, Zenon DEF Below
    <3>2. PICK i \in 1 .. n : e[i] = a
      BY <3>1 DEF InOrder
    <3>3. i # k /\ ~(k < i)
      BY <3>1, <3>2 DEF InOrder
    <3>4. i \in 1 .. k - 1
      BY <3>3
    <3> QED
      BY <3>2, <3>4
  <2> HIDE DEF d
  <2>5. InOrder(d, k - 1, B)
    BY <2>2, <2>3, <2>4 DEF InOrder
  <2>6. B \in SUBSET Nat
    BY Zenon DEF Below
  <2>7. Cardinality(B) = k - 1
    BY <2>1, <2>5, <2>6, InOrderCounts
  <2> QED
    BY <1>1, <2>1, <2>7, NthEnumerates, Zenon
<1>3. sorted(S) = [k \in 1 .. n |-> Nth(S, k - 1)]
  BY <1>1 DEF sorted
<1>4. e = [k \in 1 .. n |-> e[k]]
  BY DEF InOrder
<1> QED
  BY <1>1, <1>2, <1>3, <1>4

(* Any set of places in a list can be put in order.                          *)
LEMMA OrderExists ==
  ASSUME NEW n \in Nat, NEW S \in SUBSET (0 .. n)
  PROVE  \E m \in Nat : \E e : InOrder(e, m, S)
<1>1. IsFiniteSet(S) /\ S \in SUBSET Nat
  <2>1. IsFiniteSet(0 .. n)
    BY FS_Interval
  <2>2. IsFiniteSet(S)
    BY <2>1, FS_Subset, Zenon
  <2> QED
    BY <2>2
<1>2. Cardinality(S) \in Nat
  BY <1>1, FS_CardinalityType
<1>3. InOrder(sorted(S), Cardinality(S), S)
  <2>1. /\ DOMAIN sorted(S) = 1 .. Cardinality(S)
        /\ \A k \in DOMAIN sorted(S) : sorted(S)[k] \in S
        /\ \A a \in S : \E k \in DOMAIN sorted(S) : sorted(S)[k] = a
        /\ \A i, j \in DOMAIN sorted(S) : i < j => sorted(S)[i] < sorted(S)[j]
    BY <1>1, SortedIs
  <2>2. sorted(S) = [k \in 1 .. Cardinality(S) |-> sorted(S)[k]]
    BY DEF sorted
  <2>3. sorted(S) \in [1 .. Cardinality(S) -> S]
    BY <2>1, <2>2
  <2> QED
    BY <2>1, <2>3 DEF InOrder
<1> QED
  BY <1>2, <1>3

(* A function on places is a list.                                           *)
LEMMA FunctionIsList ==
  ASSUME NEW n \in Nat, NEW w, w = [k \in 1 .. n |-> w[k]]
  PROVE  IsList(w) /\ Len(w) = n /\ DOMAIN w = 1 .. n
<1>1. DOMAIN w = 1 .. n
  OBVIOUS
<1>2. w \in [1 .. n -> {w[i] : i \in DOMAIN w}]
  BY <1>1
<1>3. w \in Seq({w[i] : i \in DOMAIN w}) /\ Len(w) = n
  BY <1>1, <1>2
<1> QED
  BY <1>1, <1>3 DEF IsList

(* A function on no places is the empty list.                                *)
LEMMA NoPlaces ==
  ASSUME NEW w, DOMAIN w = 1 .. 0, w = [k \in DOMAIN w |-> w[k]]
  PROVE  w = <<>>
  OBVIOUS

(* Two lists, one after the other.                                           *)
LEMMA Joined ==
  ASSUME NEW S, NEW s \in Seq(S), NEW t \in Seq(S)
  PROVE  /\ s \o t \in Seq(S) /\ Len(s \o t) = Len(s) + Len(t)
         /\ \A i \in 1 .. Len(s) + Len(t) : (s \o t)[i] = IF i <= Len(s) THEN s[i] ELSE t[i - Len(s)]
  OBVIOUS

(* The part of a list between two places, a list again.                      *)
LEMMA SliceIs ==
  ASSUME NEW list, IsList(list), NEW a \in Nat, NEW b \in Nat, a < b, b <= Len(list) + 1
  PROVE  /\ DOMAIN SubSeq(list, a + 1, b - 1) = 1 .. (b - a) - 1
         /\ Len(SubSeq(list, a + 1, b - 1)) = (b - a) - 1
         /\ \A i \in 1 .. (b - a) - 1 : SubSeq(list, a + 1, b - 1)[i] = list[a + i]
         /\ IsList(SubSeq(list, a + 1, b - 1))
         /\ SubSeq(list, a + 1, b - 1) = [i \in 1 .. (b - a) - 1 |-> list[a + i]]
<1> DEFINE s == SubSeq(list, a + 1, b - 1)
           m == (b - a) - 1
<1>1. Len(list) \in Nat /\ DOMAIN list = 1 .. Len(list)
  BY DEF IsList
<1>2. m \in Nat
  BY <1>1
<1>3. /\ s \in Seq({list[i] : i \in DOMAIN list}) /\ Len(s) = m
      /\ \A i \in 1 .. m : s[i] = list[a + i]
  <2> DEFINE S == {list[i] : i \in DOMAIN list}
  <2>1. list \in Seq(S) /\ a + 1 \in 1 .. Len(list) + 1 /\ b - 1 \in (a + 1) - 1 .. Len(list)
    BY <1>1 DEF IsList
  <2>2. /\ s \in Seq(S) /\ Len(s) = IF a + 1 <= b - 1 THEN (b - 1) - (a + 1) + 1 ELSE 0
        /\ \A i \in 1 .. (b - 1) - (a + 1) + 1 : s[i] = list[(a + 1) + i - 1]
    BY <2>1
  <2> HIDE DEF s
  <2>3. Len(s) = m /\ (b - 1) - (a + 1) + 1 = m /\ \A i \in 1 .. m : (a + 1) + i - 1 = a + i
    BY <2>2
  <2> QED
    BY <2>2, <2>3
<1> HIDE DEF m, s
<1>4. DOMAIN s = 1 .. m /\ s = [i \in 1 .. m |-> s[i]] /\ s \in Seq({s[i] : i \in DOMAIN s})
  BY <1>2, <1>3
<1>5. s = [i \in 1 .. m |-> list[a + i]]
  BY <1>3, <1>4
<1> QED
  BY <1>3, <1>4, <1>5 DEF s, m, IsList

(* The part between neighbours is empty, the part around one element is it.  *)
LEMMA ShortSlice ==
  ASSUME NEW list, IsList(list), NEW a \in Nat, NEW b \in Nat, a < b, b <= Len(list) + 1
  PROVE  /\ b = a + 1 => SubSeq(list, a + 1, b - 1) = <<>>
         /\ b = a + 2 => /\ Len(SubSeq(list, a + 1, b - 1)) = 1
                         /\ SubSeq(list, a + 1, b - 1)[1] = list[a + 1]
<1> DEFINE s == SubSeq(list, a + 1, b - 1)
<1>1. /\ Len(s) = (b - a) - 1 /\ \A i \in 1 .. (b - a) - 1 : s[i] = list[a + i]
      /\ IsList(s)
  BY SliceIs, Zenon
<1> HIDE DEF s
<1>2. ASSUME b = a + 1 PROVE s = <<>>
  <2>1. Len(s) = 0
    BY <1>1, <1>2
  <2>2. s \in Seq({s[i] : i \in DOMAIN s})
    BY <1>1 DEF IsList
  <2> QED
    BY <2>1, <2>2
<1>3. ASSUME b = a + 2 PROVE Len(s) = 1 /\ s[1] = list[a + 1]
  <2>1. (b - a) - 1 = 1
    BY <1>3
  <2> QED
    BY <1>1, <2>1
<1> QED
  BY <1>2, <1>3 DEF s

(* All of a list is between its ends.                                        *)
LEMMA SliceAll ==
  ASSUME NEW list, IsList(list)
  PROVE  /\ Len(list) \in Nat /\ DOMAIN list = 1 .. Len(list)
         /\ SubSeq(list, 0 + 1, (Len(list) + 1) - 1) = list
<1>1. Len(list) \in Nat /\ DOMAIN list = 1 .. Len(list) /\ list = [i \in 1 .. Len(list) |-> list[i]]
  BY DEF IsList
<1>2. SubSeq(list, 0 + 1, (Len(list) + 1) - 1) = [i \in 1 .. ((Len(list) + 1) - 0) - 1 |-> list[0 + i]]
  BY <1>1, SliceIs
<1>3. ((Len(list) + 1) - 0) - 1 = Len(list) /\ \A i \in 1 .. Len(list) : 0 + i = i
  BY <1>1
<1> QED
  BY <1>1, <1>2, <1>3

(* The places between two others that a filter does not drop.                *)
KeptIn(list, drop, a, b) == {i \in a + 1 .. b - 1 : list[i] \notin drop}

(* What a filter leaves of a part of a list: the elements at those places.   *)
LEMMA RejectIs ==
  ASSUME NEW list, IsList(list), NEW drop, NEW a \in Nat, NEW b \in Nat, a < b, b <= Len(list) + 1,
         NEW m \in Nat, NEW e, InOrder(e, m, KeptIn(list, drop, a, b))
  PROVE  reject(SubSeq(list, a + 1, b - 1), drop) = [k \in 1 .. m |-> list[e[k]]]
<1> DEFINE s == SubSeq(list, a + 1, b - 1)
           kept == {i \in DOMAIN s : s[i] \in {s[x] : x \in DOMAIN s} \ drop}
           d == [k \in 1 .. m |-> e[k] - a]
<1>1. DOMAIN s = 1 .. (b - a) - 1 /\ \A i \in DOMAIN s : s[i] = list[a + i]
  BY SliceIs
<1>2. reject(s, drop) = [k \in 1 .. Cardinality(kept) |-> s[Nth(kept, k - 1)]]
  BY DEF reject, retain
<1> HIDE DEF s
<1>3. \A k \in 1 .. m : e[k] \in a + 1 .. b - 1 /\ list[e[k]] \notin drop
  BY DEF InOrder, KeptIn
<1>4. \A k \in 1 .. m : e[k] - a \in 1 .. (b - a) - 1 /\ a + (e[k] - a) = e[k]
  BY <1>3
<1>5. \A k \in 1 .. m : e[k] - a \in kept /\ s[e[k] - a] = list[e[k]]
  BY <1>1, <1>3, <1>4
<1>6. InOrder(d, m, kept)
  <2>1. d \in [1 .. m -> kept]
    BY <1>5
  <2>2. ASSUME NEW i \in 1 .. m, NEW j \in 1 .. m, i < j PROVE d[i] < d[j]
    <3>1. e[i] < e[j] /\ e[i] \in Int /\ e[j] \in Int
      BY <1>3, <2>2 DEF InOrder
    <3> QED
      BY <3>1
  <2>3. ASSUME NEW i \in kept PROVE \E k \in 1 .. m : d[k] = i
    <3>1. i \in 1 .. (b - a) - 1 /\ s[i] = list[a + i] /\ s[i] \notin drop
      BY <1>1
    <3>2. a + i \in a + 1 .. b - 1 /\ (a + i) - a = i
      BY <3>1
    <3>3. PICK k \in 1 .. m : e[k] = a + i
      BY <3>1, <3>2 DEF InOrder, KeptIn
    <3> QED
      BY <3>2, <3>3
  <2> HIDE DEF d, kept
  <2> QED
    BY <2>1, <2>2, <2>3 DEF InOrder
<1>7. kept \in SUBSET Nat
  BY <1>1
<1>8. \A k \in 1 .. m : s[d[k]] = list[e[k]]
  BY <1>5
<1> HIDE DEF d, kept
<1>9. Cardinality(kept) = m /\ \A k \in 1 .. m : Nth(kept, k - 1) = d[k]
  BY <1>6, <1>7, InOrderIsSorted
<1>10. \A k \in 1 .. m : s[Nth(kept, k - 1)] = list[e[k]]
  BY <1>8, <1>9, Zenon
<1>11. reject(s, drop) = [k \in 1 .. m |-> s[Nth(kept, k - 1)]]
  BY <1>2, <1>9
<1>12. reject(s, drop) = [k \in 1 .. m |-> list[e[k]]]
  BY <1>10, <1>11
<1> QED
  BY <1>12 DEF s

(* The places of all of a list that a filter does not drop.                  *)
Undropped(list, drop) == {i \in 1 .. Len(list) : list[i] \notin drop}

(* What it leaves of all of the list.                                        *)
LEMMA RejectAll ==
  ASSUME NEW list, IsList(list), NEW drop
  PROVE  /\ \A m \in Nat : \A e : InOrder(e, m, Undropped(list, drop)) =>
                                 reject(list, drop) = [k \in 1 .. m |-> list[e[k]]]
         /\ \E m \in Nat : \E e : /\ InOrder(e, m, Undropped(list, drop))
                                  /\ reject(list, drop) = [k \in 1 .. m |-> list[e[k]]]
                                  /\ Len(reject(list, drop)) = m
<1> DEFINE n == Len(list) + 1
<1>1. Len(list) \in Nat /\ SubSeq(list, 0 + 1, n - 1) = list
  BY SliceAll
<1>2. 0 \in Nat /\ n \in Nat /\ 0 < n /\ n <= Len(list) + 1
  BY <1>1
<1>3. KeptIn(list, drop, 0, n) = Undropped(list, drop)
  <2>1. 0 + 1 .. n - 1 = 1 .. Len(list)
    BY <1>1
  <2> QED
    BY <2>1 DEF KeptIn, Undropped
<1> HIDE DEF n
<1>4. ASSUME NEW m \in Nat, NEW e, InOrder(e, m, KeptIn(list, drop, 0, n))
      PROVE  reject(SubSeq(list, 0 + 1, n - 1), drop) = [k \in 1 .. m |-> list[e[k]]]
  BY <1>2, <1>4, RejectIs
<1>5. \A m \in Nat : \A e : InOrder(e, m, Undropped(list, drop)) =>
                            reject(list, drop) = [k \in 1 .. m |-> list[e[k]]]
  BY <1>1, <1>3, <1>4, Zenon
<1>6. PICK m \in Nat : \E e : InOrder(e, m, Undropped(list, drop))
  <2>1. Undropped(list, drop) \in SUBSET (0 .. Len(list))
    BY <1>1 DEF Undropped
  <2> QED
    BY <1>1, <2>1, OrderExists, Zenon
<1>7. PICK e : InOrder(e, m, Undropped(list, drop))
  BY <1>6
<1>8. reject(list, drop) = [k \in 1 .. m |-> list[e[k]]]
  BY <1>5, <1>7
<1>9. Len([k \in 1 .. m |-> list[e[k]]]) = m
  OBVIOUS
<1> QED
  BY <1>5, <1>7, <1>8, <1>9

(* The ends of a list and the places of c in it.                             *)
Cuts(list, c) == {i \in 0 .. Len(list) + 1 : i \in DOMAIN list => list[i] = c}

(* The parts that split makes are between them.                              *)
LEMMA SplitIs ==
  ASSUME NEW list, IsList(list), NEW c, NEW n \in Nat, NEW e, InOrder(e, n, Cuts(list, c))
  PROVE  /\ split(list, c) = [k \in 1 .. n - 1 |-> SubSeq(list, e[k] + 1, e[k + 1] - 1)]
         /\ Len(split(list, c)) = n - 1 /\ n >= 2 /\ e[1] = 0 /\ e[n] = Len(list) + 1
         /\ \A k \in 1 .. n - 1 : e[k] \in Nat /\ e[k + 1] \in Nat /\ e[k] < e[k + 1] /\ e[k + 1] <= Len(list) + 1
<1>1. Len(list) \in Nat /\ DOMAIN list = 1 .. Len(list)
  BY SliceAll
<1>2. Cuts(list, c) \in SUBSET Nat
  BY <1>1 DEF Cuts
<1>3. sorted(Cuts(list, c)) = e
  BY <1>2, InOrderIsSorted
<1>4. Len(e) = n
  BY DEF InOrder
<1>5. split(list, c) = [k \in 1 .. n - 1 |-> SubSeq(list, e[k] + 1, e[k + 1] - 1)]
  BY <1>3, <1>4, Zenon DEF split, Cuts
<1>6. 0 \in Cuts(list, c) /\ Len(list) + 1 \in Cuts(list, c)
  BY <1>1 DEF Cuts
<1>7. PICK x \in 1 .. n : e[x] = 0
  BY <1>6 DEF InOrder
<1>8. PICK y \in 1 .. n : e[y] = Len(list) + 1
  BY <1>6 DEF InOrder
<1>9. \A k \in 1 .. n : e[k] \in 0 .. Len(list) + 1
  BY DEF InOrder, Cuts
<1>10. x = 1 /\ y = n
  <2>1. ~(1 < x)
    <3>1. 1 \in 1 .. n
      BY <1>7
    <3> QED
      BY <1>1, <1>7, <1>9, <3>1 DEF InOrder
  <2>2. ~(y < n)
    <3>1. n \in 1 .. n
      BY <1>7
    <3> QED
      BY <1>1, <1>8, <1>9, <3>1 DEF InOrder
  <2> QED
    BY <2>1, <2>2
<1>11. n >= 2
  BY <1>1, <1>7, <1>8, <1>10
<1>12. ASSUME NEW k \in 1 .. n - 1
       PROVE  e[k] \in Nat /\ e[k + 1] \in Nat /\ e[k] < e[k + 1] /\ e[k + 1] <= Len(list) + 1
  <2>1. k \in 1 .. n /\ k + 1 \in 1 .. n /\ k < k + 1
    OBVIOUS
  <2> QED
    BY <1>1, <1>9, <2>1 DEF InOrder
<1>13. Len(split(list, c)) = n - 1
  <2>1. n - 1 \in Nat
    BY <1>11
  <2> QED
    BY <1>5, <2>1
<1> QED
  BY <1>5, <1>7, <1>8, <1>10, <1>11, <1>12, <1>13

(* The first place of a set is its least one.                                *)
LEMMA FirstIs ==
  ASSUME NEW S \in SUBSET Nat, S # {}
  PROVE  FirstOf(S) \in S /\ \A i \in S : FirstOf(S) <= i
<1>1. \E i \in S : \A j \in S : i <= j
  BY Least
<1> QED
  BY <1>1, Zenon DEF FirstOf

(* The last place is its greatest one.                                       *)
LEMMA LastIs ==
  ASSUME NEW n \in Nat, NEW S \in SUBSET (0 .. n), S # {}
  PROVE  LastOf(S) \in S /\ \A i \in S : LastOf(S) >= i
<1> DEFINE T == {n - i : i \in S}
<1>1. T \in SUBSET Nat /\ T # {}
  <2>1. \A i \in S : n - i \in Nat
    OBVIOUS
  <2> QED
    BY <2>1, Zenon
<1>2. PICK t \in T : \A u \in T : t <= u
  BY <1>1, Least, Zenon
<1>3. PICK i \in S : t = n - i
  OBVIOUS
<1>4. \A j \in S : i >= j
  <2> SUFFICES ASSUME NEW j \in S PROVE i >= j
    OBVIOUS
  <2>1. n - i <= n - j /\ i \in 0 .. n /\ j \in 0 .. n
    BY <1>2, <1>3, Zenon
  <2> QED
    BY <2>1
<1>5. \E x \in S : \A j \in S : x >= j
  BY <1>4
<1> QED
  BY <1>5, Zenon DEF LastOf

-----------------------------------------------------------------------------
(* A part of a part of a list.                                               *)
LEMMA SliceOfSlice ==
  ASSUME NEW list, IsList(list), NEW a \in Nat, NEW b \in Nat, a < b, b <= Len(list) + 1,
         NEW c \in Nat, NEW d \in Nat, c < d, d <= b - a
  PROVE  SubSeq(SubSeq(list, a + 1, b - 1), c + 1, d - 1) = SubSeq(list, (a + c) + 1, (a + d) - 1)
<1> DEFINE s == SubSeq(list, a + 1, b - 1)
<1>1. IsList(s) /\ Len(s) = (b - a) - 1 /\ \A i \in 1 .. (b - a) - 1 : s[i] = list[a + i]
  BY SliceIs
<1> HIDE DEF s
<1>2. d <= Len(s) + 1
  BY <1>1
<1>3. SubSeq(s, c + 1, d - 1) = [i \in 1 .. (d - c) - 1 |-> s[c + i]]
  BY <1>1, <1>2, SliceIs
<1>4. PICK x \in Nat, y \in Nat : x = a + c /\ y = a + d
  OBVIOUS
<1>5. x < y /\ y <= Len(list) + 1 /\ (y - x) - 1 = (d - c) - 1
  <2>1. Len(list) \in Nat
    BY SliceAll
  <2> QED
    BY <1>4, <2>1
<1>6. SubSeq(list, x + 1, y - 1) = [i \in 1 .. (y - x) - 1 |-> list[x + i]]
  BY <1>5, SliceIs
<1>7. \A i \in 1 .. (d - c) - 1 : c + i \in 1 .. (b - a) - 1 /\ a + (c + i) = x + i
  BY <1>4
<1>8. \A i \in 1 .. (d - c) - 1 : s[c + i] = list[x + i]
  BY <1>1, <1>7, Zenon
<1>9. SubSeq(s, c + 1, d - 1) = SubSeq(list, x + 1, y - 1)
  BY <1>3, <1>5, <1>6, <1>8, Zenon
<1> QED
  BY <1>4, <1>9 DEF s

(* trim of a part of a list: from its first to its last word.                *)
LEMMA TrimIs ==
  ASSUME NEW list, IsList(list), NEW a \in Nat, NEW b \in Nat, a < b, b <= Len(list) + 1,
         NEW f \in KeptIn(list, Blanks, a, b), NEW g \in KeptIn(list, Blanks, a, b),
         \A i \in KeptIn(list, Blanks, a, b) : f <= i /\ i <= g
  PROVE  trim(SubSeq(list, a + 1, b - 1)) = SubSeq(list, f, g)
<1> DEFINE s == SubSeq(list, a + 1, b - 1)
           kept == {i \in DOMAIN s : s[i] \notin Blanks}
<1>1. /\ IsList(s) /\ DOMAIN s = 1 .. (b - a) - 1 /\ Len(s) = (b - a) - 1
      /\ \A i \in 1 .. (b - a) - 1 : s[i] = list[a + i]
  BY SliceIs
<1>2. f \in a + 1 .. b - 1 /\ g \in a + 1 .. b - 1 /\ list[f] \notin Blanks /\ list[g] \notin Blanks
  BY DEF KeptIn
<1> HIDE DEF s
<1>3. f - a \in kept /\ g - a \in kept
  <2>1. /\ f - a \in 1 .. (b - a) - 1 /\ a + (f - a) = f
        /\ g - a \in 1 .. (b - a) - 1 /\ a + (g - a) = g
    BY <1>2
  <2> QED
    BY <1>1, <1>2, <2>1
<1>4. ASSUME NEW i \in kept PROVE f - a <= i /\ i <= g - a
  <2>1. i \in 1 .. (b - a) - 1 /\ s[i] \notin Blanks
    BY <1>1
  <2>2. a + i \in a + 1 .. b - 1 /\ list[a + i] \notin Blanks
    BY <1>1, <2>1
  <2>3. f <= a + i /\ a + i <= g
    BY <2>2 DEF KeptIn
  <2> QED
    BY <1>2, <2>1, <2>3
<1>5. kept \in SUBSET (0 .. (b - a) - 1) /\ (b - a) - 1 \in Nat /\ kept # {}
  <2>1. kept \in SUBSET (0 .. (b - a) - 1)
    BY <1>1
  <2>2. (b - a) - 1 \in Nat
    OBVIOUS
  <2> QED
    BY <1>3, <2>1, <2>2
<1> HIDE DEF kept
<1>6. FirstOf(kept) = f - a
  <2>1. kept \in SUBSET Nat
    BY <1>5
  <2>2. FirstOf(kept) \in kept /\ \A i \in kept : FirstOf(kept) <= i
    BY <1>5, <2>1, FirstIs
  <2>3. FirstOf(kept) \in Nat /\ f - a \in Nat
    BY <1>3, <2>1, <2>2, Zenon
  <2>4. f - a <= FirstOf(kept) /\ FirstOf(kept) <= f - a
    BY <1>3, <1>4, <2>2
  <2> QED
    BY <2>3, <2>4
<1>7. LastOf(kept) = g - a
  <2>1. LastOf(kept) \in kept /\ \A i \in kept : LastOf(kept) >= i
    <3>1. PICK m \in Nat : m = (b - a) - 1
      BY <1>5
    <3> QED
      BY <1>5, <3>1, LastIs, Zenon
  <2>2. kept \in SUBSET Nat
    BY <1>5
  <2>3. LastOf(kept) \in Nat /\ g - a \in Nat
    BY <1>3, <2>1, <2>2, Zenon
  <2>4. LastOf(kept) >= g - a /\ LastOf(kept) <= g - a
    BY <1>3, <1>4, <2>1
  <2> QED
    BY <2>3, <2>4
<1>8. trim(s) = SubSeq(s, f - a, g - a)
  BY <1>5, <1>6, <1>7, Zenon DEF trim, kept
<1>9. PICK c \in Nat, d \in Nat : c = (f - a) - 1 /\ d = (g - a) + 1
  BY <1>2
<1>10. /\ c < d /\ d <= b - a /\ c + 1 = f - a /\ d - 1 = g - a
       /\ (a + c) + 1 = f /\ (a + d) - 1 = g
  <2>1. f <= g
    OBVIOUS
  <2> QED
    BY <1>2, <1>9, <2>1
<1>11. SubSeq(s, c + 1, d - 1) = SubSeq(list, (a + c) + 1, (a + d) - 1)
  BY <1>10, SliceOfSlice DEF s
<1> QED
  BY <1>8, <1>10, <1>11, Zenon DEF s

(* What parse makes of a trimmed line from its first word to its last one.   *)
Parsed(body) ==
  LET space == FirstOf({i \in DOMAIN body : body[i] = "SP"})
      verb  == IF space = 0 THEN body ELSE SubSeq(body, 1, space - 1)
      known == Len(verb) = 1 /\ to_ascii_uppercase(verb[1]) \in Verbs
  IN  [verb |-> IF known THEN to_ascii_uppercase(verb[1]) ELSE "Unknown",
       arg  |-> IF space = 0 THEN <<>> ELSE trim(SubSeq(body, space + 1, Len(body)))]

LEMMA ParsedIs ==
  ASSUME NEW line, IsList(line), NEW f \in 1 .. Len(line), NEW g \in f .. Len(line),
         line[f] \notin Blanks, line[g] \notin Blanks
  PROVE  LET p == Parsed(SubSeq(line, f, g))
             alone == f = g \/ line[f + 1] = "SP"
         IN  /\ p.verb = IF alone /\ to_ascii_uppercase(line[f]) \in Verbs THEN to_ascii_uppercase(line[f]) ELSE "Unknown"
             /\ f = g => p.arg = <<>>
             /\ f < g /\ line[f + 1] = "SP" => p.arg = trim(SubSeq(line, (f + 1) + 1, (g + 1) - 1))
<1> DEFINE body == SubSeq(line, f, g)
           n == (g - f) + 1
           spaces == {i \in DOMAIN body : body[i] = "SP"}
           space == FirstOf(spaces)
           verb == IF space = 0 THEN body ELSE SubSeq(body, 1, space - 1)
           known == Len(verb) = 1 /\ to_ascii_uppercase(verb[1]) \in Verbs
           alone == f = g \/ line[f + 1] = "SP"
           p == Parsed(body)
<1>1. Len(line) \in Nat /\ f \in Nat /\ g \in Nat /\ 1 <= f /\ f <= g /\ g <= Len(line) /\ n \in Nat
  <2>1. Len(line) \in Nat
    BY SliceAll
  <2> QED
    BY <2>1
<1>2. PICK a \in Nat, b \in Nat : a = f - 1 /\ b = g + 1
  BY <1>1
<1>3. /\ a < b /\ b <= Len(line) + 1 /\ a + 1 = f /\ b - 1 = g /\ (b - a) - 1 = n
      /\ \A i \in 1 .. n : a + i = (f - 1) + i
  BY <1>1, <1>2
<1>4. IsList(body) /\ DOMAIN body = 1 .. n /\ Len(body) = n /\ \A i \in 1 .. n : body[i] = line[(f - 1) + i]
  <2>1. /\ IsList(SubSeq(line, a + 1, b - 1)) /\ DOMAIN SubSeq(line, a + 1, b - 1) = 1 .. (b - a) - 1
        /\ Len(SubSeq(line, a + 1, b - 1)) = (b - a) - 1
        /\ \A i \in 1 .. (b - a) - 1 : SubSeq(line, a + 1, b - 1)[i] = line[a + i]
    <3>1. a < b /\ b <= Len(line) + 1
      BY <1>3
    <3> QED
      BY <3>1, SliceIs
  <2> QED
    BY <1>3, <2>1
<1>5. /\ p.verb = IF known THEN to_ascii_uppercase(verb[1]) ELSE "Unknown"
      /\ p.arg = IF space = 0 THEN <<>> ELSE trim(SubSeq(body, space + 1, Len(body)))
  BY Zenon DEF Parsed
<1> HIDE DEF body, n, p
<1>6. n >= 1 /\ body[1] = line[f] /\ (f < g => n >= 2 /\ body[2] = line[f + 1]) /\ (n >= 2 => f < g) /\ (n = 1 <=> f = g)
  <2>1. n >= 1 /\ (f < g => n >= 2) /\ (n >= 2 => f < g) /\ (n = 1 <=> f = g)
    BY <1>1 DEF n
  <2>2. 1 \in 1 .. n /\ (f - 1) + 1 = f /\ (f - 1) + 2 = f + 1 /\ (n >= 2 => 2 \in 1 .. n)
    BY <1>1, <2>1
  <2> QED
    BY <1>4, <2>1, <2>2
<1>7. body[1] # "SP"
  BY <1>6 DEF Blanks
<1>8. /\ space = 0 <=> spaces = {}
      /\ spaces # {} => space \in spaces /\ \A i \in spaces : space <= i
  <2>1. spaces \in SUBSET Nat /\ 0 \notin spaces
    BY <1>1, <1>4
  <2> HIDE DEF spaces
  <2>2. ASSUME spaces = {} PROVE space = 0
    BY <2>2 DEF FirstOf
  <2>3. ASSUME spaces # {} PROVE space \in spaces /\ \A i \in spaces : space <= i
    BY <2>1, <2>3, FirstIs
  <2> QED
    BY <2>1, <2>2, <2>3
<1> HIDE DEF space
<1>9. space = 0 \/ (space \in 2 .. n /\ body[space] = "SP")
  <2>1. space # 0 => space \in 1 .. n /\ body[space] = "SP"
    BY <1>4, <1>8
  <2>2. space # 1
    <3>1. ASSUME space = 1 PROVE FALSE
      BY <1>7, <2>1, <3>1
    <3> QED
      BY <3>1
  <2> QED
    BY <1>1, <2>1, <2>2
<1>10. f < g /\ line[f + 1] = "SP" => space = 2
  <2> SUFFICES ASSUME f < g, line[f + 1] = "SP" PROVE space = 2
    OBVIOUS
  <2>1. 2 \in spaces
    <3>1. n >= 2 /\ body[2] = "SP"
      BY <1>6
    <3>2. 2 \in 1 .. n
      BY <1>1, <3>1
    <3> QED
      BY <1>4, <3>1, <3>2
  <2>2. space # 0 /\ space <= 2
    BY <1>8, <2>1
  <2> QED
    BY <1>1, <1>9, <2>2
<1>11. space = 2 => f < g /\ line[f + 1] = "SP"
  BY <1>1, <1>6, <1>9
<1>12. /\ verb[1] = line[f]
       /\ Len(verb) = IF space = 0 THEN n ELSE space - 1
  <2>1. CASE space = 0
    BY <1>4, <1>6, <2>1
  <2>2. CASE space # 0
    <3>1. space \in Nat /\ space <= n /\ space >= 2
      BY <1>1, <1>9, <2>2
    <3>2. PICK x \in Nat : x = 0
      OBVIOUS
    <3>3. x < space /\ space <= Len(body) + 1 /\ (space - x) - 1 = space - 1 /\ x + 1 = 1
      BY <1>1, <1>4, <3>1, <3>2
    <3>4. /\ Len(SubSeq(body, x + 1, space - 1)) = (space - x) - 1
          /\ \A i \in 1 .. (space - x) - 1 : SubSeq(body, x + 1, space - 1)[i] = body[x + i]
      BY <1>4, <3>1, <3>3, SliceIs
    <3>5. verb = SubSeq(body, 1, space - 1)
      BY <2>2, Zenon
    <3>6. Len(verb) = space - 1
      BY <3>3, <3>4, <3>5, Zenon
    <3>7. 1 \in 1 .. space - 1
      BY <3>1
    <3>8. verb[1] = body[1]
      <4>1. SubSeq(body, x + 1, space - 1)[1] = body[x + 1]
        BY <3>3, <3>4, <3>7, Zenon
      <4> QED
        BY <3>3, <3>5, <4>1, Zenon
    <3> QED
      BY <1>6, <2>2, <3>6, <3>8, Zenon
  <2> QED
    BY <2>1, <2>2, Zenon
<1> HIDE DEF verb
<1>13. Len(verb) = 1 <=> alone
  <2>1. ASSUME alone PROVE Len(verb) = 1
    <3>1. CASE f = g
      <4>1. n = 1 /\ space = 0
        BY <1>1, <1>6, <1>9, <3>1
      <4> QED
        BY <1>12, <4>1
    <3>2. CASE f # g
      <4>1. space = 2
        BY <1>1, <1>10, <2>1, <3>2
      <4> QED
        BY <1>12, <4>1
    <3> QED
      BY <3>1, <3>2
  <2>2. ASSUME Len(verb) = 1 PROVE alone
    <3>1. CASE space = 0
      BY <1>6, <1>12, <2>2, <3>1, Zenon
    <3>2. CASE space # 0
      <4>1. space = 2
        <5>1. space - 1 = 1 /\ space \in 2 .. n
          BY <1>9, <1>12, <2>2, <3>2, Zenon
        <5> QED
          BY <1>1, <5>1
      <4> QED
        BY <1>11, <4>1
    <3> QED
      BY <3>1, <3>2
  <2> QED
    BY <2>1, <2>2
<1>14. p.verb = IF alone /\ to_ascii_uppercase(line[f]) \in Verbs THEN to_ascii_uppercase(line[f]) ELSE "Unknown"
  <2> HIDE DEF alone
  <2> QED
    BY <1>5, <1>12, <1>13
<1>15. ASSUME f = g PROVE p.arg = <<>>
  <2>1. n = 1 /\ space = 0
    BY <1>1, <1>6, <1>9, <1>15
  <2> QED
    BY <1>5, <2>1
<1>16. ASSUME f < g, line[f + 1] = "SP" PROVE p.arg = trim(SubSeq(line, (f + 1) + 1, (g + 1) - 1))
  <2>1. space = 2
    BY <1>10, <1>16
  <2>2. p.arg = trim(SubSeq(body, 2 + 1, n))
    BY <1>4, <1>5, <2>1
  <2>3. PICK c \in Nat, d \in Nat : c = 2 /\ d = n + 1
    BY <1>1
  <2>4. c < d /\ d <= b - a /\ c + 1 = 2 + 1 /\ d - 1 = n /\ (a + c) + 1 = (f + 1) + 1 /\ (a + d) - 1 = (g + 1) - 1
    BY <1>1, <1>2, <1>3, <1>6, <1>16, <2>3
  <2>5. SubSeq(SubSeq(line, a + 1, b - 1), c + 1, d - 1) = SubSeq(line, (a + c) + 1, (a + d) - 1)
    BY <1>3, <2>4, SliceOfSlice
  <2>6. body = SubSeq(line, a + 1, b - 1)
    BY <1>3 DEF body
  <2>7. SubSeq(body, 2 + 1, n) = SubSeq(line, (f + 1) + 1, (g + 1) - 1)
    BY <2>4, <2>5, <2>6
  <2> QED
    BY <2>2, <2>7, Zenon
<1> QED
  BY <1>14, <1>15, <1>16 DEF p, body

(* The rest of an order, behind its first element.                           *)
LEMMA OrderRest ==
  ASSUME NEW S \in SUBSET Nat, NEW m \in Nat, NEW e, InOrder(e, m, S), S # {}
  PROVE  LET rest == [k \in 1 .. m - 1 |-> e[k + 1]]
         IN  /\ m >= 1 /\ m - 1 \in Nat /\ e[1] \in S /\ \A i \in S : e[1] <= i
             /\ InOrder(rest, m - 1, S \ {e[1]})
<1> DEFINE rest == [k \in 1 .. m - 1 |-> e[k + 1]]
<1>1. /\ \A k \in 1 .. m : e[k] \in S /\ e[k] \in Nat
      /\ \A i, j \in 1 .. m : i < j => e[i] < e[j]
      /\ \A i \in S : \E k \in 1 .. m : e[k] = i
  BY Zenon DEF InOrder
<1>2. m >= 1 /\ 1 \in 1 .. m
  <2>1. PICK k \in 1 .. m : TRUE
    BY <1>1, Zenon
  <2> QED
    BY <2>1
<1>3. e[1] \in S /\ \A i \in S : e[1] <= i
  <2>1. ASSUME NEW i \in S PROVE e[1] <= i
    <3>1. PICK k \in 1 .. m : e[k] = i
      BY <1>1
    <3>2. k = 1 \/ 1 < k
      OBVIOUS
    <3>3. e[1] = i \/ e[1] < i
      BY <1>1, <1>2, <3>1, <3>2
    <3>4. e[1] \in Nat /\ i \in Nat
      BY <1>1, <1>2
    <3> QED
      BY <3>3, <3>4
  <2> QED
    BY <1>1, <1>2, <2>1
<1>4. \A k \in 1 .. m - 1 : k + 1 \in 1 .. m /\ 1 < k + 1
  OBVIOUS
<1>5. rest \in [1 .. m - 1 -> S \ {e[1]}]
  <2>1. ASSUME NEW k \in 1 .. m - 1 PROVE e[k + 1] \in S \ {e[1]}
    <3>1. e[1] < e[k + 1] /\ e[1] \in Nat /\ e[k + 1] \in S /\ e[k + 1] \in Nat
      BY <1>1, <1>2, <1>4
    <3> QED
      BY <3>1
  <2> QED
    BY <2>1
<1>6. ASSUME NEW i \in 1 .. m - 1, NEW j \in 1 .. m - 1, i < j PROVE rest[i] < rest[j]
  <2>1. i + 1 < j + 1
    BY <1>6
  <2> QED
    BY <1>1, <1>4, <2>1
<1>7. ASSUME NEW i \in S \ {e[1]} PROVE \E k \in 1 .. m - 1 : rest[k] = i
  <2>1. PICK k \in 1 .. m : e[k] = i
    BY <1>1
  <2>2. k # 1
    BY <2>1
  <2>3. k - 1 \in 1 .. m - 1 /\ (k - 1) + 1 = k
    BY <2>2
  <2>4. rest[k - 1] = i
    BY <2>1, <2>3
  <2> QED
    BY <2>3, <2>4
<1>8. m - 1 \in Nat
  BY <1>2
<1> HIDE DEF rest
<1>9. InOrder(rest, m - 1, S \ {e[1]})
  BY <1>5, <1>6, <1>7 DEF InOrder
<1> QED
  BY <1>2, <1>3, <1>8, <1>9 DEF rest

(* Where the line ends, its line breaks left out.                            *)
LEMMA LineEnds ==
  ASSUME NEW line, IsList(line)
  PROVE  \E l \in 0 .. Len(line) :
           /\ trim_end_matches(line, Breaks) = SubSeq(line, 0 + 1, (l + 1) - 1)
           /\ \A i \in 1 .. Len(line) : line[i] \notin Breaks => i <= l
           /\ has_embedded_line_break(trim_end_matches(line, Breaks)) <=>
                ~\A i, j \in DOMAIN line : i < j /\ line[i] \in Breaks => line[j] \in Breaks
<1> DEFINE n == Len(line)
           others == {i \in DOMAIN line : line[i] \notin Breaks}
           l == LastOf(others)
           t == trim_end_matches(line, Breaks)
<1>1. n \in Nat /\ DOMAIN line = 1 .. n
  BY SliceAll
<1>2. /\ l \in 0 .. n /\ (l # 0 => line[l] \notin Breaks)
      /\ \A i \in 1 .. n : line[i] \notin Breaks => i <= l
  <2>1. others \in SUBSET (0 .. n) /\ \A i \in others : i \in 1 .. n
    BY <1>1
  <2>2. CASE others = {}
    <3>1. l = 0
      BY <2>2 DEF LastOf
    <3> QED
      BY <1>1, <2>2, <3>1
  <2>3. CASE others # {}
    <3> HIDE DEF others, n
    <3>1. l \in others /\ \A i \in others : l >= i
      BY <1>1, <2>1, <2>3, LastIs, Zenon
    <3>2. l \in 1 .. n /\ line[l] \notin Breaks
      BY <2>1, <3>1 DEF others
    <3>3. \A i \in 1 .. n : line[i] \notin Breaks => i <= l
      <4>1. ASSUME NEW i \in 1 .. n, line[i] \notin Breaks PROVE i <= l
        <5>1. l >= i
          BY <1>1, <3>1, <4>1 DEF others
        <5> QED
          BY <1>1, <3>2, <5>1
      <4> QED
        BY <4>1
    <3> QED
      BY <1>1, <3>2, <3>3
  <2> QED
    BY <2>2, <2>3
<1>3. t = SubSeq(line, 1, l)
  BY DEF trim_end_matches
<1> HIDE DEF l, n
<1>4. 0 + 1 = 1 /\ (l + 1) - 1 = l
  BY <1>1, <1>2
<1>5. DOMAIN t = 1 .. l /\ \A i \in 1 .. l : t[i] = line[i]
  <2>1. PICK a \in Nat, b \in Nat : a = 0 /\ b = l + 1
    BY <1>1, <1>2
  <2>2. a < b /\ b <= Len(line) + 1 /\ (b - a) - 1 = l /\ a + 1 = 1 /\ b - 1 = l
    BY <1>1, <1>2, <2>1 DEF n
  <2>3. /\ DOMAIN SubSeq(line, a + 1, b - 1) = 1 .. (b - a) - 1
        /\ \A i \in 1 .. (b - a) - 1 : SubSeq(line, a + 1, b - 1)[i] = line[a + i]
    <3>1. a < b /\ b <= Len(line) + 1
      BY <2>2
    <3> QED
      BY <3>1, SliceIs
  <2>4. \A i \in 1 .. l : a + i = i
    BY <1>1, <1>2, <2>1
  <2> QED
    BY <1>3, <2>2, <2>3, <2>4
<1> HIDE DEF t
<1>6. ASSUME has_embedded_line_break(t)
      PROVE  \E i, j \in DOMAIN line : i < j /\ line[i] \in Breaks /\ line[j] \notin Breaks
  <2>1. PICK k \in 1 .. l : line[k] \in Breaks
    BY <1>5, <1>6 DEF has_embedded_line_break
  <2>2. l # 0 /\ line[l] \notin Breaks /\ l \in 1 .. n /\ k \in 1 .. n
    BY <1>1, <1>2, <2>1
  <2>3. k < l
    BY <1>1, <2>1, <2>2
  <2> QED
    BY <1>1, <2>1, <2>2, <2>3
<1>7. ASSUME NEW i \in DOMAIN line, NEW j \in DOMAIN line, i < j, line[i] \in Breaks, line[j] \notin Breaks
      PROVE  has_embedded_line_break(t)
  <2>1. j <= l
    BY <1>1, <1>2, <1>7
  <2>2. i \in 1 .. l
    BY <1>1, <1>2, <1>7, <2>1
  <2> QED
    BY <1>5, <1>7, <2>2 DEF has_embedded_line_break
<1>8. has_embedded_line_break(t) <=>
        ~\A i, j \in DOMAIN line : i < j /\ line[i] \in Breaks => line[j] \in Breaks
  BY <1>6, <1>7
<1> QED
  BY <1>2, <1>3, <1>4, <1>8 DEF t, n

(* A line is taken if and only if it is one command, and read as that.       *)
LEMMA CommandsAreRight ==
  ASSUME NEW line, IsList(line)
  PROVE  CommandsRight(line)
<1> DEFINE n == Len(line)
           t == trim_end_matches(line, Breaks)
           words == reject(line, Blanks)
           kept == Undropped(line, Blanks)
           start == FirstOf(kept)
           unbroken == \A i, j \in DOMAIN line : i < j /\ line[i] \in Breaks => line[j] \in Breaks
           ends == start < n => line[start + 1] = "SP" \/ \A k \in start + 1 .. n : line[k] \in Blanks
           cmd == Command(line)
<1>1. n \in Nat /\ DOMAIN line = 1 .. n
  BY SliceAll
<1>2. PICK l \in 0 .. n : /\ t = SubSeq(line, 0 + 1, (l + 1) - 1)
                          /\ \A i \in 1 .. n : line[i] \notin Breaks => i <= l
                          /\ has_embedded_line_break(t) <=> ~unbroken
  BY LineEnds
<1>3. Handle(line) = "taken" <=> unbroken /\ cmd.verb # "Unknown"
  BY <1>2 DEF Handle
<1>4. cmd = Parsed(trim(t))
  BY DEF Command, parse, Parsed
<1>5. {i \in DOMAIN line : line[i] \notin Blanks} = kept
  BY <1>1 DEF Undropped
<1>6. PICK m \in Nat : \E e : InOrder(e, m, kept) /\ words = [k \in 1 .. m |-> line[e[k]]] /\ Len(words) = m
  BY RejectAll, Zenon
<1>7. PICK e : InOrder(e, m, kept) /\ words = [k \in 1 .. m |-> line[e[k]]] /\ Len(words) = m
  BY <1>6
<1>8. /\ \A i : i \in kept <=> i \in 1 .. n /\ line[i] \notin Blanks
      /\ kept \in SUBSET Nat
  <2>1. \A i : i \in kept <=> i \in 1 .. n /\ line[i] \notin Blanks
    BY DEF Undropped
  <2> QED
    BY <1>1, <2>1
<1> HIDE DEF n, t, words, kept, unbroken, cmd
<1> DEFINE Right == /\ Handle(line) = "taken" <=>
                         unbroken /\ words # <<>> /\ to_ascii_uppercase(Head(words)) \in Verbs /\ ends
                    /\ Handle(line) = "taken" =>
                         cmd.verb = to_ascii_uppercase(Head(words)) /\ reject(cmd.arg, Blanks) = Tail(words)
<1>9. \A i \in kept : i <= l
  <2>1. Breaks \subseteq Blanks
    BY DEF Blanks
  <2> QED
    BY <1>2, <1>8, <2>1
<1>10. PICK a \in Nat, b \in Nat : a = 0 /\ b = l + 1
  BY <1>1, <1>2
<1>11. a < b /\ b <= Len(line) + 1 /\ t = SubSeq(line, a + 1, b - 1)
  BY <1>1, <1>2, <1>10 DEF n
<1>12. KeptIn(line, Blanks, a, b) = kept
  <2>1. \A i \in kept : i \in a + 1 .. b - 1
    BY <1>1, <1>8, <1>9, <1>10
  <2>2. \A i \in a + 1 .. b - 1 : i \in 1 .. n
    BY <1>1, <1>2, <1>10
  <2> QED
    BY <1>8, <2>1, <2>2 DEF KeptIn
<1>13. ASSUME kept = {} PROVE Right
  <2>1. words = <<>>
    <3>1. m = 0
      <4>1. \A k \in 1 .. m : FALSE
        BY <1>7, <1>13 DEF InOrder
      <4> QED
        BY <4>1
    <3> QED
      BY <1>7, <3>1
  <2>2. trim(t) = <<>>
    <3>1. DOMAIN t = 1 .. (b - a) - 1 /\ \A i \in 1 .. (b - a) - 1 : t[i] = line[a + i]
      <4>1. a < b /\ b <= Len(line) + 1
        BY <1>11
      <4>2. /\ DOMAIN SubSeq(line, a + 1, b - 1) = 1 .. (b - a) - 1
            /\ \A i \in 1 .. (b - a) - 1 : SubSeq(line, a + 1, b - 1)[i] = line[a + i]
        BY <4>1, SliceIs
      <4> QED
        BY <1>11, <4>2
    <3>2. \A i \in 1 .. (b - a) - 1 : a + i \in a + 1 .. b - 1
      OBVIOUS
    <3>3. {i \in DOMAIN t : t[i] \notin Blanks} = {}
      BY <1>12, <1>13, <3>1, <3>2 DEF KeptIn
    <3> QED
      BY <3>3 DEF trim
  <2>3. cmd.verb = "Unknown"
    <3>1. FirstOf({}) = 0 /\ {i \in DOMAIN <<>> : <<>>[i] = "SP"} = {} /\ Len(<<>>) = 0
      BY DEF FirstOf
    <3> QED
      BY <1>4, <2>2, <3>1 DEF Parsed
  <2> QED
    BY <1>3, <2>1, <2>3
<1>14. ASSUME kept # {} PROVE Right
  <2>1. /\ m >= 1 /\ m - 1 \in Nat /\ e[1] \in kept /\ \A i \in kept : e[1] <= i
        /\ InOrder([k \in 1 .. m - 1 |-> e[k + 1]], m - 1, kept \ {e[1]})
    BY <1>7, <1>8, <1>14, OrderRest, Zenon
  <2> DEFINE f == e[1]
             g == LastOf(kept)
             rest == [k \in 1 .. m - 1 |-> e[k + 1]]
             alone == f = g \/ line[f + 1] = "SP"
  <2>2. g \in kept /\ \A i \in kept : g >= i
    <3>1. kept \in SUBSET (0 .. n)
      BY <1>1, <1>8
    <3> QED
      BY <1>1, <1>14, <3>1, LastIs, Zenon
  <2>3. start = f
    <3>1. start \in kept /\ \A i \in kept : start <= i
      BY <1>8, <1>14, FirstIs
    <3>2. start \in Nat /\ f \in Nat /\ start <= f /\ f <= start
      BY <1>8, <2>1, <3>1
    <3> QED
      BY <3>2
  <2> HIDE DEF f, g, start
  <2>4. /\ f \in 1 .. n /\ g \in f .. n /\ line[f] \notin Blanks /\ line[g] \notin Blanks
        /\ f \in Nat /\ g \in Nat /\ f <= g /\ g <= n
    <3>1. f \in kept /\ g \in kept /\ f <= g
      BY <2>1, <2>2 DEF f
    <3>2. f \in 1 .. n /\ g \in 1 .. n /\ line[f] \notin Blanks /\ line[g] \notin Blanks
      BY <1>8, <3>1
    <3> QED
      BY <1>1, <3>1, <3>2
  <2>5. trim(t) = SubSeq(line, f, g)
    <3>1. f \in KeptIn(line, Blanks, a, b) /\ g \in KeptIn(line, Blanks, a, b)
      BY <1>12, <2>1, <2>2 DEF f
    <3>2. \A i \in KeptIn(line, Blanks, a, b) : f <= i /\ i <= g
      <4>1. \A i \in kept : f <= i /\ g >= i /\ i \in Nat
        BY <1>8, <2>1, <2>2 DEF f
      <4> QED
        BY <1>12, <2>4, <4>1
    <3>3. trim(SubSeq(line, a + 1, b - 1)) = SubSeq(line, f, g)
      BY <1>11, <3>1, <3>2, TrimIs
    <3> QED
      BY <1>11, <3>3
  <2>6. /\ cmd.verb = IF alone /\ to_ascii_uppercase(line[f]) \in Verbs THEN to_ascii_uppercase(line[f]) ELSE "Unknown"
        /\ f = g => cmd.arg = <<>>
        /\ f < g /\ line[f + 1] = "SP" => cmd.arg = trim(SubSeq(line, (f + 1) + 1, (g + 1) - 1))
    <3>1. f \in 1 .. Len(line) /\ g \in f .. Len(line) /\ line[f] \notin Blanks /\ line[g] \notin Blanks
      BY <2>4 DEF n
    <3> QED
      BY <1>4, <2>5, <3>1, ParsedIs
  <2>7. Len(words) = m /\ words[1] = line[f] /\ words # <<>> /\ Head(words) = line[f]
    <3>1. 1 \in 1 .. m
      BY <2>1
    <3>2. words[1] = line[f] /\ Len(words) = m
      BY <1>7, <3>1 DEF f
    <3>3. words # <<>>
      BY <2>1, <3>2
    <3> QED
      BY <3>2, <3>3
  <2>8. Tail(words) = [k \in 1 .. m - 1 |-> line[rest[k]]]
    <3>1. Tail(words) = [k \in 1 .. m - 1 |-> words[k + 1]]
      BY <1>7, <2>1
    <3>2. \A k \in 1 .. m - 1 : k + 1 \in 1 .. m
      OBVIOUS
    <3>3. \A k \in 1 .. m - 1 : words[k + 1] = line[rest[k]]
      BY <1>7, <3>2
    <3> QED
      BY <3>1, <3>3
  <2>9. ends <=> alone
    <3>1. ASSUME alone PROVE ends
      <4>1. CASE f = g
        <5>1. ASSUME NEW k \in f + 1 .. n PROVE line[k] \in Blanks
          <6>1. k \in 1 .. n /\ ~(g >= k)
            BY <1>1, <2>4, <4>1
          <6> QED
            BY <1>8, <2>2, <6>1
        <5> QED
          BY <2>3, <5>1
      <4>2. CASE f # g
        BY <2>3, <3>1, <4>2
      <4> QED
        BY <4>1, <4>2
    <3>2. ASSUME ends, f # g PROVE line[f + 1] = "SP"
      <4>1. f < n /\ g \in f + 1 .. n
        BY <1>1, <2>4, <3>2
      <4> QED
        BY <2>3, <2>4, <3>2, <4>1
    <3> QED
      BY <3>1, <3>2
  <2>10. ASSUME alone PROVE reject(cmd.arg, Blanks) = Tail(words)
    <3>1. CASE f = g
      <4>1. m = 1
        <5>1. ASSUME NEW k \in 1 .. m - 1 PROVE FALSE
          <6>1. rest[k] \in kept \ {f}
            BY <2>1 DEF InOrder, f
          <6>2. rest[k] \in Nat /\ f <= rest[k] /\ g >= rest[k]
            BY <1>8, <2>1, <2>2, <6>1 DEF f
          <6> QED
            BY <2>4, <3>1, <6>1, <6>2
        <5> QED
          BY <2>1, <5>1
      <4>2. Tail(words) = <<>>
        <5>1. m - 1 = 0
          BY <4>1
        <5>2. DOMAIN Tail(words) = 1 .. 0
          BY <2>8, <5>1, Zenon
        <5>3. Tail(words) = [k \in DOMAIN Tail(words) |-> Tail(words)[k]]
          BY <2>8, Zenon
        <5> QED
          BY <5>2, <5>3, NoPlaces, Zenon
      <4>3. reject(<<>>, Blanks) = <<>>
        <5>1. Cardinality({}) = 0 /\ \A S : {i \in DOMAIN <<>> : <<>>[i] \in S} = {}
          BY FS_EmptySet
        <5> QED
          BY <5>1 DEF reject, retain
      <4> QED
        BY <2>6, <3>1, <4>2, <4>3, Zenon
    <3>2. CASE f # g
      <4>1. f < g /\ line[f + 1] = "SP"
        BY <2>4, <2>10, <3>2
      <4>2. kept \ {f} # {} /\ g \in kept \ {f}
        BY <2>2, <3>2
      <4>3. /\ kept \ {f} \in SUBSET Nat
            /\ InOrder(rest, m - 1, kept \ {f})
        BY <1>8, <2>1 DEF f
      <4> HIDE DEF rest
      <4> DEFINE h == rest[1]
      <4>4. h \in kept \ {f} /\ \A i \in kept \ {f} : h <= i
        BY <2>1, <4>2, <4>3, OrderRest, Zenon
      <4> HIDE DEF h
      <4>5. h \in Nat /\ f + 1 < h /\ h <= g
        <5>1. h \in Nat /\ f <= h /\ h # f /\ h <= g
          BY <1>8, <2>1, <4>2, <4>4 DEF f
        <5>2. h # f + 1
          <6>1. line[h] \notin Blanks /\ "SP" \in Blanks
            BY <1>8, <4>4 DEF Blanks
          <6> QED
            BY <4>1, <6>1
        <5> QED
          BY <2>4, <5>1, <5>2
      <4>6. \A i : i \in kept \ {f} <=> i \in kept /\ h <= i /\ i <= g
        <5>1. \A i \in kept : i \in Nat /\ i <= g
          BY <1>8, <2>2, <2>4
        <5>2. ~(h <= f)
          BY <2>4, <4>5
        <5> QED
          BY <4>4, <5>1, <5>2
      <4>7. ASSUME NEW c \in Nat, f <= c, c < h PROVE KeptIn(line, Blanks, c, g + 1) = kept \ {f}
        <5>1. ASSUME NEW i \in kept \ {f} PROVE i \in c + 1 .. (g + 1) - 1 /\ line[i] \notin Blanks
          <6>1. i \in Nat /\ h <= i /\ i <= g /\ line[i] \notin Blanks
            BY <1>8, <4>6
          <6> QED
            BY <2>4, <4>5, <4>7, <6>1
        <5>2. ASSUME NEW i \in c + 1 .. (g + 1) - 1, line[i] \notin Blanks PROVE i \in kept \ {f}
          <6>1. i \in 1 .. n /\ i # f
            BY <1>1, <2>4, <4>7
          <6> QED
            BY <1>8, <5>2, <6>1
        <5> QED
          BY <5>1, <5>2 DEF KeptIn
      <4>8. PICK c \in Nat, d \in Nat, x \in Nat : c = f + 1 /\ d = g + 1 /\ x = h - 1
        BY <2>4, <4>5
      <4>9. /\ f <= c /\ c < h /\ f <= x /\ x < h /\ c < d /\ x < d /\ d <= Len(line) + 1
            /\ x + 1 = h /\ d - 1 = g
        BY <1>1, <2>4, <4>1, <4>5, <4>8 DEF n
      <4>10. KeptIn(line, Blanks, c, d) = kept \ {f} /\ KeptIn(line, Blanks, x, d) = kept \ {f}
        BY <4>7, <4>8, <4>9
      <4>11. trim(SubSeq(line, c + 1, d - 1)) = SubSeq(line, h, g)
        <5>1. h \in KeptIn(line, Blanks, c, d) /\ g \in KeptIn(line, Blanks, c, d)
          BY <4>2, <4>4, <4>10
        <5>2. \A i \in KeptIn(line, Blanks, c, d) : h <= i /\ i <= g
          BY <4>6, <4>10
        <5>3. c < d /\ d <= Len(line) + 1
          BY <4>9
        <5> QED
          BY <5>1, <5>2, <5>3, TrimIs
      <4>12. reject(SubSeq(line, x + 1, d - 1), Blanks) = [k \in 1 .. m - 1 |-> line[rest[k]]]
        <5>1. InOrder(rest, m - 1, KeptIn(line, Blanks, x, d)) /\ m - 1 \in Nat
          BY <2>1, <4>3, <4>10
        <5>2. x < d /\ d <= Len(line) + 1
          BY <4>9
        <5> QED
          BY <5>1, <5>2, RejectIs
      <4>13. cmd.arg = SubSeq(line, h, g)
        BY <2>6, <4>1, <4>8, <4>11
      <4> QED
        BY <2>8, <4>9, <4>12, <4>13, Zenon
    <3> QED
      BY <3>1, <3>2
  <2> HIDE DEF ends, alone
  <2>11. "Unknown" \notin Verbs
    BY DEF Verbs
  <2> QED
    BY <1>3, <2>6, <2>7, <2>9, <2>10, <2>11
<1>15. Right
  BY <1>13, <1>14
<1> QED
  BY <1>5, <1>15, Zenon DEF CommandsRight, n, unbroken, words, start, cmd
=============================================================================
