--------------------------- MODULE RepliesProofs ---------------------------
(***************************************************************************)
(* Proofs about the passive replies of a backend: what is read of a line   *)
(* is the address that it says, and nothing is read of any other line.     *)
(***************************************************************************)
EXTENDS CommandsProofs

(* The first "(" of a line and the first ")" behind it.                      *)
Bracketed(line, s, t) ==
  /\ s \in 1 .. Len(line) /\ t \in 1 .. Len(line) /\ s < t
  /\ line[s] = Mark("(") /\ line[t] = Mark(")")
  /\ \A k \in 1 .. s - 1 : line[k] # Mark("(")
  /\ \A k \in s + 1 .. t - 1 : line[k] # Mark(")")

(* Marks are told apart by their characters, and from numbers.               *)
LEMMA Tokens ==
  /\ \A c, d : Mark(c) = Mark(d) => c = d
  /\ \A c, n : Mark(c) # Num(n)
  /\ \A m, n : Num(m) = Num(n) => m = n
  /\ \A c : Mark(c)[1] = c
  /\ \A n : Num(n)[1] = "num" /\ Num(n)[2] = n
<1>1. \A c : Mark(c)[1] = c /\ Len(Mark(c)) = 1
  BY DEF Mark
<1>2. \A n : Num(n)[1] = "num" /\ Num(n)[2] = n /\ Len(Num(n)) = 2
  BY DEF Num
<1> QED
  BY <1>1, <1>2

(* There is only one such pair of brackets.                                  *)
LEMMA OneBracket ==
  ASSUME NEW line, Len(line) \in Nat, NEW s, NEW t, NEW u, NEW v, Bracketed(line, s, t), Bracketed(line, u, v)
  PROVE  s = u /\ t = v
<1>1. /\ s \in Nat /\ t \in Nat /\ u \in Nat /\ v \in Nat
  BY DEF Bracketed
<1>2. ~(s < u) /\ ~(u < s)
  <2>1. s < u => s \in 1 .. u - 1
    BY <1>1 DEF Bracketed
  <2>2. u < s => u \in 1 .. s - 1
    BY <1>1 DEF Bracketed
  <2> QED
    BY <2>1, <2>2 DEF Bracketed
<1>3. s = u
  BY <1>1, <1>2
<1>4. ~(t < v) /\ ~(v < t)
  <2>1. t < v => t \in u + 1 .. v - 1
    BY <1>1, <1>3 DEF Bracketed
  <2>2. v < t => v \in s + 1 .. t - 1
    BY <1>1, <1>3 DEF Bracketed
  <2> QED
    BY <2>1, <2>2 DEF Bracketed
<1> QED
  BY <1>1, <1>3, <1>4

(* Inner is what is between them, if there are any.                          *)
LEMMA InnerIs ==
  ASSUME NEW line, IsList(line)
  PROVE  /\ \A s, t : Bracketed(line, s, t) => Inner(line) = {SubSeq(line, s + 1, t - 1)}
         /\ Inner(line) # {} => \E s, t : Bracketed(line, s, t)
<1> DEFINE Opening == {i \in DOMAIN line : line[i] = Mark("(")}
           start == FirstOf(Opening)
           Closing == {i \in start + 1 .. Len(line) : line[i] = Mark(")")}
           end == FirstOf(Closing)
<1>1. Len(line) \in Nat /\ DOMAIN line = 1 .. Len(line)
  BY SliceAll
<1>2. Inner(line) = IF start = 0 \/ end = 0 THEN {} ELSE {SubSeq(line, start + 1, end - 1)}
  BY DEF Inner
<1>3. Opening \in SUBSET Nat /\ 0 \notin Opening
  BY <1>1
<1>4. /\ start = 0 <=> Opening = {}
      /\ Opening # {} => start \in Opening /\ \A i \in Opening : start <= i
  <2>1. Opening = {} => start = 0
    BY DEF FirstOf
  <2>2. Opening # {} => start \in Opening /\ \A i \in Opening : start <= i
    <3> HIDE DEF Opening
    <3> QED
      BY <1>3, FirstIs
  <2> QED
    BY <1>3, <2>1, <2>2
<1> HIDE DEF start
<1>5. start \in Nat
  BY <1>3, <1>4
<1>6. Closing \in SUBSET Nat /\ 0 \notin Closing
  BY <1>1, <1>5
<1>7. /\ end = 0 <=> Closing = {}
      /\ Closing # {} => end \in Closing /\ \A i \in Closing : end <= i
  <2>1. Closing = {} => end = 0
    BY DEF FirstOf
  <2>2. Closing # {} => end \in Closing /\ \A i \in Closing : end <= i
    <3> HIDE DEF Closing
    <3> QED
      BY <1>6, FirstIs
  <2> QED
    BY <1>6, <2>1, <2>2
<1> HIDE DEF end
<1>8. ASSUME start # 0, end # 0 PROVE Bracketed(line, start, end)
  <2>1. /\ start \in 1 .. Len(line) /\ line[start] = Mark("(")
        /\ \A i \in 1 .. Len(line) : line[i] = Mark("(") => start <= i
    BY <1>1, <1>4, <1>8
  <2>2. /\ end \in start + 1 .. Len(line) /\ line[end] = Mark(")")
        /\ \A i \in start + 1 .. Len(line) : line[i] = Mark(")") => end <= i
    BY <1>7, <1>8
  <2>3. ASSUME NEW k \in 1 .. start - 1 PROVE line[k] # Mark("(")
    <3>1. k \in 1 .. Len(line) /\ ~(start <= k)
      BY <1>1, <2>1
    <3> QED
      BY <2>1, <3>1
  <2>4. ASSUME NEW k \in start + 1 .. end - 1 PROVE line[k] # Mark(")")
    <3>1. k \in start + 1 .. Len(line) /\ ~(end <= k)
      BY <1>1, <2>1, <2>2
    <3> QED
      BY <2>2, <3>1
  <2>5. end \in 1 .. Len(line) /\ start < end
    BY <1>1, <2>1, <2>2
  <2> QED
    BY <2>1, <2>2, <2>3, <2>4, <2>5 DEF Bracketed
<1>9. ASSUME NEW s, NEW t, Bracketed(line, s, t) PROVE Inner(line) = {SubSeq(line, s + 1, t - 1)}
  <2>1. s \in Opening
    BY <1>1, <1>9 DEF Bracketed
  <2>2. start # 0 /\ start <= s
    BY <1>4, <2>1
  <2>3. t \in Closing
    BY <1>1, <1>5, <1>9, <2>2 DEF Bracketed
  <2>4. end # 0
    BY <1>7, <2>3
  <2>5. start = s /\ end = t
    BY <1>1, <1>8, <1>9, <2>2, <2>4, OneBracket
  <2> QED
    BY <1>2, <2>2, <2>4, <2>5
<1> QED
  BY <1>2, <1>8, <1>9

(* What a line announces is what is between them.                            *)
LEMMA AnnouncedIsInner ==
  ASSUME NEW line, IsList(line)
  PROVE  Announced(line) = Inner(line)
<1>1. Len(line) \in Nat /\ DOMAIN line = 1 .. Len(line)
  BY SliceAll
<1> DEFINE Pairs == [from : DOMAIN line, to : DOMAIN line]
           Right(b) == /\ b.from < b.to /\ line[b.from] = Mark("(") /\ line[b.to] = Mark(")")
                       /\ \A k \in 1 .. b.to - 1 : line[k] = Mark("(") => k >= b.from
                       /\ \A k \in b.from .. b.to - 1 : line[k] # Mark(")")
<1>2. Announced(line) = {SubSeq(line, b.from + 1, b.to - 1) : b \in {b \in Pairs : Right(b)}}
  BY DEF Announced
<1>3. ASSUME NEW b \in Pairs PROVE Right(b) <=> Bracketed(line, b.from, b.to)
  <2>1. b.from \in 1 .. Len(line) /\ b.to \in 1 .. Len(line)
    BY <1>1
  <2>2. ASSUME Right(b) PROVE Bracketed(line, b.from, b.to)
    <3>1. ASSUME NEW k \in 1 .. b.from - 1 PROVE line[k] # Mark("(")
      <4>1. k \in 1 .. b.to - 1 /\ ~(k >= b.from)
        BY <1>1, <2>1, <2>2
      <4> QED
        BY <2>2, <4>1
    <3>2. \A k \in b.from + 1 .. b.to - 1 : k \in b.from .. b.to - 1
      BY <1>1, <2>1
    <3> QED
      BY <2>1, <2>2, <3>1, <3>2 DEF Bracketed
  <2>3. ASSUME Bracketed(line, b.from, b.to) PROVE Right(b)
    <3>1. ASSUME NEW k \in 1 .. b.to - 1, line[k] = Mark("(") PROVE k >= b.from
      <4>1. k \notin 1 .. b.from - 1
        BY <2>3, <3>1 DEF Bracketed
      <4> QED
        BY <1>1, <2>1, <4>1
    <3>2. ASSUME NEW k \in b.from .. b.to - 1 PROVE line[k] # Mark(")")
      <4>1. k = b.from \/ k \in b.from + 1 .. b.to - 1
        BY <1>1, <2>1
      <4>2. Mark("(") # Mark(")")
        BY Tokens
      <4> QED
        BY <2>3, <4>1, <4>2 DEF Bracketed
    <3> QED
      BY <2>3, <3>1, <3>2 DEF Bracketed
  <2> QED
    BY <2>2, <2>3
<1> HIDE DEF Right
<1>4. ASSUME NEW x \in Announced(line) PROVE x \in Inner(line)
  <2>1. PICK b \in Pairs : Right(b) /\ x = SubSeq(line, b.from + 1, b.to - 1)
    BY <1>2
  <2>2. Bracketed(line, b.from, b.to)
    BY <1>3, <2>1
  <2>3. Inner(line) = {SubSeq(line, b.from + 1, b.to - 1)}
    BY <2>2, InnerIs
  <2> QED
    BY <2>1, <2>3
<1>5. ASSUME NEW x \in Inner(line) PROVE x \in Announced(line)
  <2>1. PICK s, t : Bracketed(line, s, t)
    BY InnerIs
  <2>2. x = SubSeq(line, s + 1, t - 1)
    BY <2>1, InnerIs
  <2> DEFINE b == [from |-> s, to |-> t]
  <2>3. b \in Pairs /\ b.from = s /\ b.to = t
    BY <1>1, <2>1 DEF Bracketed
  <2> HIDE DEF b
  <2> QED
    BY <1>2, <1>3, <2>1, <2>2, <2>3, Zenon
<1> QED
  BY <1>4, <1>5

(* Blanks do not matter to where the brackets are.                           *)
LEMMA InnerWithoutBlanks ==
  ASSUME NEW line, IsList(line)
  PROVE  LET drop == {Mark("SP")}
         IN  IsList(reject(line, drop)) /\ Inner(reject(line, drop)) = {reject(x, drop) : x \in Inner(line)}
<1> DEFINE drop == {Mark("SP")}
           n == Len(line)
           w == reject(line, drop)
           kept == Undropped(line, drop)
<1>1. n \in Nat
  BY SliceAll
<1>2. PICK m \in Nat : \E e : InOrder(e, m, kept) /\ w = [k \in 1 .. m |-> line[e[k]]] /\ Len(w) = m
  BY RejectAll, Zenon
<1>3. PICK e : InOrder(e, m, kept) /\ w = [k \in 1 .. m |-> line[e[k]]] /\ Len(w) = m
  BY <1>2, Zenon
<1>4. Mark("(") \notin drop /\ Mark(")") \notin drop
  BY Tokens
<1>5. \A i : i \in kept <=> i \in 1 .. n /\ line[i] \notin drop
  BY DEF Undropped
<1> HIDE DEF drop, n, kept, w
<1>6. /\ \A k \in 1 .. m : e[k] \in 1 .. n /\ line[e[k]] \notin drop /\ w[k] = line[e[k]]
      /\ \A i, j \in 1 .. m : i < j => e[i] < e[j]
      /\ \A i \in 1 .. n : line[i] \notin drop => \E k \in 1 .. m : e[k] = i
  BY <1>3, <1>5, Zenon DEF InOrder
<1>7. \A i, j \in 1 .. m : e[i] < e[j] => i < j
  <2> SUFFICES ASSUME NEW i \in 1 .. m, NEW j \in 1 .. m, e[i] < e[j] PROVE i < j
    OBVIOUS
  <2>1. e[i] \in Int /\ e[j] \in Int
    BY <1>1, <1>6
  <2>2. i # j /\ ~(j < i)
    BY <1>6, <2>1
  <2> QED
    BY <2>2
<1>8. IsList(w)
  <2>1. w = [k \in 1 .. m |-> w[k]]
    BY <1>3
  <2> QED
    BY <2>1, FunctionIsList
<1>9. ASSUME NEW a, NEW b, Bracketed(w, a, b) PROVE Bracketed(line, e[a], e[b])
  <2>1. a \in 1 .. m /\ b \in 1 .. m /\ a < b /\ w[a] = Mark("(") /\ w[b] = Mark(")")
    BY <1>3, <1>9 DEF Bracketed
  <2>2. e[a] \in 1 .. n /\ e[b] \in 1 .. n /\ e[a] < e[b] /\ line[e[a]] = Mark("(") /\ line[e[b]] = Mark(")")
    BY <1>6, <2>1
  <2>3. ASSUME NEW k \in 1 .. e[a] - 1, line[k] = Mark("(") PROVE FALSE
    <3>1. k \in 1 .. n /\ k < e[a]
      BY <1>1, <2>2
    <3>2. PICK j \in 1 .. m : e[j] = k
      BY <1>4, <1>6, <2>3, <3>1
    <3>3. j < a
      BY <1>7, <2>1, <3>1, <3>2
    <3>4. j \in 1 .. a - 1 /\ w[j] = Mark("(")
      BY <1>6, <2>1, <2>3, <3>2, <3>3
    <3> QED
      BY <1>9, <3>4 DEF Bracketed
  <2>4. ASSUME NEW k \in e[a] + 1 .. e[b] - 1, line[k] = Mark(")") PROVE FALSE
    <3>1. k \in 1 .. n /\ k < e[b] /\ e[a] < k
      BY <1>1, <2>2
    <3>2. PICK j \in 1 .. m : e[j] = k
      BY <1>4, <1>6, <2>4, <3>1
    <3>3. a < j /\ j < b
      BY <1>7, <2>1, <3>1, <3>2
    <3>4. j \in a + 1 .. b - 1 /\ w[j] = Mark(")")
      BY <1>6, <2>1, <2>4, <3>2, <3>3
    <3> QED
      BY <1>9, <3>4 DEF Bracketed
  <2> QED
    BY <2>2, <2>3, <2>4 DEF Bracketed, n
<1>10. ASSUME NEW s, NEW t, Bracketed(line, s, t)
       PROVE  Inner(w) = {reject(SubSeq(line, s + 1, t - 1), drop)}
  <2>1. /\ s \in 1 .. n /\ t \in 1 .. n /\ s < t /\ line[s] = Mark("(") /\ line[t] = Mark(")")
        /\ \A k \in 1 .. s - 1 : line[k] # Mark("(")
        /\ \A k \in s + 1 .. t - 1 : line[k] # Mark(")")
    BY <1>10 DEF Bracketed, n
  <2>2. PICK a \in 1 .. m : e[a] = s
    BY <1>4, <1>6, <2>1
  <2>3. PICK b \in 1 .. m : e[b] = t
    BY <1>4, <1>6, <2>1
  <2>4. a < b /\ w[a] = Mark("(") /\ w[b] = Mark(")")
    BY <1>6, <1>7, <2>1, <2>2, <2>3
  <2>5. ASSUME NEW k \in 1 .. a - 1 PROVE w[k] # Mark("(")
    <3>1. k \in 1 .. m /\ k < a
      OBVIOUS
    <3>2. e[k] < s /\ e[k] \in 1 .. n
      BY <1>6, <2>2, <3>1
    <3>3. e[k] \in 1 .. s - 1
      BY <1>1, <2>1, <3>2
    <3> QED
      BY <1>6, <2>1, <3>1, <3>3
  <2>6. ASSUME NEW k \in a + 1 .. b - 1
        PROVE  k \in 1 .. m /\ e[k] \in s + 1 .. t - 1 /\ w[k] = line[e[k]] /\ w[k] # Mark(")")
    <3>1. k \in 1 .. m /\ k < b /\ a < k
      OBVIOUS
    <3>2. s < e[k] /\ e[k] < t /\ e[k] \in 1 .. n
      BY <1>6, <2>2, <2>3, <3>1
    <3>3. e[k] \in s + 1 .. t - 1
      BY <1>1, <2>1, <3>2
    <3> QED
      BY <1>6, <2>1, <3>1, <3>3
  <2>7. Bracketed(w, a, b)
    BY <1>3, <2>4, <2>5, <2>6, Zenon DEF Bracketed
  <2>8. Inner(w) = {SubSeq(w, a + 1, b - 1)}
    BY <1>8, <2>7, InnerIs
  <2> DEFINE c == (b - a) - 1
             f == [k \in 1 .. c |-> e[a + k]]
  <2>9. c \in Nat /\ \A k \in 1 .. c : a + k \in a + 1 .. b - 1
    BY <2>4
  <2>10. SubSeq(w, a + 1, b - 1) = [k \in 1 .. c |-> w[a + k]]
    <3>1. a \in Nat /\ b \in Nat /\ b <= Len(w) + 1
      BY <1>3
    <3> QED
      BY <1>8, <2>4, <3>1, SliceIs
  <2>11. \A k \in 1 .. c : f[k] = e[a + k] /\ w[a + k] = line[e[a + k]]
    BY <2>6, <2>9
  <2>12. InOrder(f, c, KeptIn(line, drop, s, t))
    <3>1. \A k \in 1 .. c : f[k] \in KeptIn(line, drop, s, t)
      BY <1>6, <2>6, <2>9, <2>11 DEF KeptIn
    <3>2. f \in [1 .. c -> KeptIn(line, drop, s, t)]
      BY <3>1
    <3>3. ASSUME NEW i \in 1 .. c, NEW j \in 1 .. c, i < j PROVE f[i] < f[j]
      <4>1. a + i \in 1 .. m /\ a + j \in 1 .. m /\ a + i < a + j
        BY <2>6, <2>9, <3>3
      <4> QED
        BY <1>6, <2>11, <4>1
    <3>4. ASSUME NEW i \in KeptIn(line, drop, s, t) PROVE \E k \in 1 .. c : f[k] = i
      <4>1. i \in s + 1 .. t - 1 /\ line[i] \notin drop
        BY DEF KeptIn
      <4>2. i \in 1 .. n /\ s < i /\ i < t
        BY <1>1, <2>1, <4>1
      <4>3. PICK k \in 1 .. m : e[k] = i
        BY <1>6, <4>1, <4>2
      <4>4. a < k /\ k < b
        BY <1>7, <2>2, <2>3, <4>2, <4>3
      <4>5. k - a \in 1 .. c /\ a + (k - a) = k
        BY <4>4
      <4> QED
        BY <2>11, <4>3, <4>5
    <3> HIDE DEF f
    <3> QED
      BY <3>2, <3>3, <3>4 DEF InOrder
  <2> HIDE DEF f, c
  <2>13. reject(SubSeq(line, s + 1, t - 1), drop) = [k \in 1 .. c |-> line[f[k]]]
    <3>1. s \in Nat /\ t \in Nat /\ t <= Len(line) + 1
      BY <1>1, <2>1 DEF n
    <3> QED
      BY <2>1, <2>9, <2>12, <3>1, RejectIs
  <2>14. SubSeq(w, a + 1, b - 1) = reject(SubSeq(line, s + 1, t - 1), drop)
    <3>1. \A k \in 1 .. c : w[a + k] = line[f[k]]
      BY <2>11
    <3>2. [k \in 1 .. c |-> w[a + k]] = [k \in 1 .. c |-> line[f[k]]]
      BY ONLY <3>1
    <3> QED
      BY <2>10, <2>13, <3>2, Zenon
  <2> QED
    BY <2>8, <2>14
<1>11. Inner(w) = {reject(x, drop) : x \in Inner(line)}
  <2>1. CASE Inner(line) = {}
    <3>1. Inner(w) = {}
      <4>1. \A s, t : ~Bracketed(line, s, t)
        BY <2>1, InnerIs, Zenon
      <4> QED
        BY <1>8, <1>9, <4>1, InnerIs
    <3> QED
      BY <2>1, <3>1
  <2>2. CASE Inner(line) # {}
    <3>1. PICK s, t : Bracketed(line, s, t)
      BY <2>2, InnerIs
    <3>2. Inner(line) = {SubSeq(line, s + 1, t - 1)}
      BY <3>1, InnerIs
    <3>3. Inner(w) = {reject(SubSeq(line, s + 1, t - 1), drop)}
      BY <1>10, <3>1
    <3> QED
      BY <3>2, <3>3
  <2> QED
    BY <2>1, <2>2
<1> QED
  BY <1>8, <1>11 DEF drop, w

-----------------------------------------------------------------------------
(* What a 227 reply says for six fields.                                     *)
Text227(f) == [k \in 1 .. 11 |-> IF k % 2 = 0 THEN Mark(",") ELSE Num(f[k \div 2 + 1])]

(* Its commas and its numbers.                                               *)
LEMMA Text227Is ==
  ASSUME NEW f
  PROVE  /\ Len(Text227(f)) = 11 /\ DOMAIN Text227(f) = 1 .. 11
         /\ \A j \in 1 .. 5 : Text227(f)[2 * j] = Mark(",")
         /\ \A j \in 1 .. 6 : Text227(f)[2 * j - 1] = Num(f[j])
<1>1. \A j \in 1 .. 5 : 2 * j \in 1 .. 11 /\ (2 * j) % 2 = 0
  OBVIOUS
<1>2. \A j \in 1 .. 6 : 2 * j - 1 \in 1 .. 11 /\ (2 * j - 1) % 2 # 0 /\ (2 * j - 1) \div 2 + 1 = j
  OBVIOUS
<1>3. DOMAIN Text227(f) = 1 .. 11 /\ Len(Text227(f)) = 11
  BY DEF Text227
<1>4. \A k \in 1 .. 11 : Text227(f)[k] = IF k % 2 = 0 THEN Mark(",") ELSE Num(f[k \div 2 + 1])
  BY Zenon DEF Text227
<1> QED
  BY <1>1, <1>2, <1>3, <1>4, Zenon

(* Every place of such a text is one or the other.                           *)
LEMMA OddOrEven ==
  \A k \in 1 .. 11 : (\E j \in 1 .. 5 : k = 2 * j) \/ (\E j \in 1 .. 6 : k = 2 * j - 1)
<1> SUFFICES ASSUME NEW k \in 1 .. 11 PROVE (\E j \in 1 .. 5 : k = 2 * j) \/ (\E j \in 1 .. 6 : k = 2 * j - 1)
  OBVIOUS
<1>1. CASE k % 2 = 0
  <2>1. k \div 2 \in 1 .. 5 /\ k = 2 * (k \div 2)
    BY <1>1
  <2> QED
    BY <2>1
<1>2. CASE k % 2 # 0
  <2>1. k \div 2 + 1 \in 1 .. 6 /\ k = 2 * (k \div 2 + 1) - 1
    BY <1>2
  <2> QED
    BY <2>1
<1> QED
  BY <1>1, <1>2

(* A text with that in it, blanks apart, has those fields.                   *)
LEMMA FieldsOfText ==
  ASSUME NEW inner, IsList(inner), NEW f, reject(inner, {Mark("SP")}) = Text227(f)
  PROVE  Fields(inner) = [j \in 1 .. 6 |-> {f[j]} \cap U16]
<1> DEFINE n == Len(inner)
           drop == {Mark("SP")}
           kept == Undropped(inner, drop)
           comma == Mark(",")
<1>1. n \in Nat /\ DOMAIN inner = 1 .. n
  BY SliceAll
<1>2. PICK m \in Nat : \E e : /\ InOrder(e, m, kept)
                              /\ reject(inner, drop) = [k \in 1 .. m |-> inner[e[k]]]
                              /\ Len(reject(inner, drop)) = m
  BY RejectAll, Zenon
<1>3. PICK e : /\ InOrder(e, m, kept)
               /\ reject(inner, drop) = [k \in 1 .. m |-> inner[e[k]]]
               /\ Len(reject(inner, drop)) = m
  BY <1>2, Zenon
<1>4. m = 11
  BY <1>3, Text227Is, Zenon
<1>5. \A k \in 1 .. 11 : inner[e[k]] = Text227(f)[k]
  BY <1>3, <1>4
<1>6. /\ \A j \in 1 .. 5 : inner[e[2 * j]] = comma
      /\ \A j \in 1 .. 6 : inner[e[2 * j - 1]] = Num(f[j])
  <2>1. /\ \A j \in 1 .. 5 : 2 * j \in 1 .. 11
        /\ \A j \in 1 .. 6 : 2 * j - 1 \in 1 .. 11
    OBVIOUS
  <2> QED
    BY <1>5, <2>1, Text227Is, Zenon
<1>7. /\ \A k \in 1 .. 11 : e[k] \in 1 .. n /\ inner[e[k]] \notin drop
      /\ \A i, j \in 1 .. 11 : i < j => e[i] < e[j]
      /\ \A i \in 1 .. n : inner[i] \notin drop => \E k \in 1 .. 11 : e[k] = i
  BY <1>3, <1>4, Zenon DEF InOrder, Undropped
<1>8. comma \notin drop /\ \A x : Num(x) # comma
  BY Tokens, Zenon
<1>0. \A k \in 1 .. 11 : e[k] \in Int
  <2>1. 1 .. n \subseteq Int
    BY <1>1
  <2> HIDE DEF n, drop
  <2> QED
    BY <1>7, <2>1
<1> HIDE DEF n, drop, kept, comma
<1> DEFINE c == [j \in 1 .. 7 |-> IF j = 1 THEN 0 ELSE IF j = 7 THEN n + 1 ELSE e[2 * (j - 1)]]
<1>9. c[1] = 0 /\ c[7] = n + 1 /\ \A j \in 1 .. 5 : c[j + 1] = e[2 * j]
  <2>1. \A j \in 1 .. 5 : j + 1 \in 1 .. 7 /\ j + 1 # 1 /\ j + 1 # 7 /\ (j + 1) - 1 = j
    OBVIOUS
  <2>2. 1 \in 1 .. 7 /\ 7 \in 1 .. 7 /\ 7 # 1
    OBVIOUS
  <2> QED
    BY <2>1, <2>2
<1>10. DOMAIN c = 1 .. 7 /\ c = [j \in 1 .. 7 |-> c[j]]
  OBVIOUS
<1> HIDE DEF c
<1>11. ASSUME NEW j \in 1 .. 6
       PROVE  /\ c[j] \in Nat /\ c[j + 1] \in Nat /\ c[j] < e[2 * j - 1] /\ e[2 * j - 1] < c[j + 1]
              /\ c[j + 1] <= n + 1
              /\ \A k \in 1 .. 11 : c[j] < e[k] /\ e[k] < c[j + 1] => k = 2 * j - 1
  <2>1. 2 * j - 1 \in 1 .. 11 /\ e[2 * j - 1] \in 1 .. n
    BY <1>7
  <2>2. /\ c[j] \in Nat /\ c[j] < e[2 * j - 1]
        /\ \A k \in 1 .. 11 : c[j] < e[k] => k >= 2 * j - 1
    <3>1. CASE j = 1
      BY <1>1, <1>9, <2>1, <3>1
    <3>2. CASE j # 1
      <4>1. j - 1 \in 1 .. 5 /\ 2 * (j - 1) \in 1 .. 11 /\ 2 * (j - 1) < 2 * j - 1 /\ (j - 1) + 1 = j
        BY <3>2
      <4>2. c[j] = e[2 * (j - 1)]
        BY <1>9, <4>1
      <4>3. c[j] \in 1 .. n /\ c[j] < e[2 * j - 1]
        BY <1>7, <2>1, <4>1, <4>2
      <4>4. ASSUME NEW k \in 1 .. 11, c[j] < e[k] PROVE k >= 2 * j - 1
        <5>1. ~(k < 2 * (j - 1)) /\ k # 2 * (j - 1)
          <6>1. e[k] \in Int /\ c[j] \in Int
            BY <1>0, <4>1, <4>2
          <6>2. ~(e[k] < c[j]) /\ e[k] # c[j]
            BY ONLY <4>4, <6>1
          <6> QED
            BY <1>7, <4>1, <4>2, <6>2
        <5> QED
          BY <5>1
      <4> QED
        BY <1>1, <4>3, <4>4
    <3> QED
      BY <3>1, <3>2
  <2>3. /\ c[j + 1] \in Nat /\ e[2 * j - 1] < c[j + 1] /\ c[j + 1] <= n + 1
        /\ \A k \in 1 .. 11 : e[k] < c[j + 1] => k <= 2 * j - 1
    <3>1. CASE j = 6
      BY <1>1, <1>9, <2>1, <3>1
    <3>2. CASE j # 6
      <4>1. j \in 1 .. 5 /\ 2 * j \in 1 .. 11 /\ 2 * j - 1 < 2 * j
        BY <3>2
      <4>2. c[j + 1] = e[2 * j]
        BY <1>9, <4>1
      <4>3. c[j + 1] \in 1 .. n /\ e[2 * j - 1] < c[j + 1]
        BY <1>7, <2>1, <4>1, <4>2
      <4>4. ASSUME NEW k \in 1 .. 11, e[k] < c[j + 1] PROVE k <= 2 * j - 1
        <5>1. ~(2 * j < k) /\ k # 2 * j
          <6>1. e[k] \in Int /\ c[j + 1] \in Int
            BY <1>0, <4>1, <4>2
          <6>2. ~(c[j + 1] < e[k]) /\ e[k] # c[j + 1]
            BY ONLY <4>4, <6>1
          <6> QED
            BY <1>7, <4>1, <4>2, <6>2
        <5> QED
          BY <5>1
      <4> QED
        BY <1>1, <4>3, <4>4
    <3> QED
      BY <3>1, <3>2
  <2> QED
    BY <2>2, <2>3
<1>12. InOrder(c, 7, Cuts(inner, comma))
  <2>1. ASSUME NEW j \in 1 .. 7 PROVE c[j] \in Cuts(inner, comma)
    <3>1. CASE j = 1 \/ j = 7
      BY <1>1, <1>9, <3>1 DEF Cuts, n
    <3>2. CASE ~(j = 1 \/ j = 7)
      <4>1. j - 1 \in 1 .. 5 /\ (j - 1) + 1 = j /\ 2 * (j - 1) \in 1 .. 11
        BY <3>2
      <4>2. c[j] \in 1 .. n /\ inner[c[j]] = comma
        BY <1>6, <1>7, <1>9, <4>1
      <4> QED
        BY <1>1, <4>2 DEF Cuts, n
    <3> QED
      BY <3>1, <3>2
  <2>2. c \in [1 .. 7 -> Cuts(inner, comma)]
    BY <1>10, <2>1
  <2>3. \A i, j \in 1 .. 7 : i < j => c[i] < c[j]
    <3>1. \A j \in 1 .. 7 : c[j] \in Nat
      <4>1. Cuts(inner, comma) \subseteq Nat
        BY <1>1 DEF Cuts, n
      <4> QED
        BY <2>1, <4>1
    <3>2. ASSUME NEW j \in 1 .. 7 - 1 PROVE c[j] < c[j + 1]
      <4>1. j \in 1 .. 6 /\ 2 * j - 1 \in 1 .. 11
        OBVIOUS
      <4>2. e[2 * j - 1] \in Int
        BY <1>0, <4>1
      <4>3. c[j] \in Nat /\ c[j + 1] \in Nat /\ c[j] < e[2 * j - 1] /\ e[2 * j - 1] < c[j + 1]
        BY <1>11, <4>1
      <4> QED
        BY ONLY <4>2, <4>3
    <3> QED
      BY <3>1, <3>2, Ascends
  <2>4. ASSUME NEW a \in Cuts(inner, comma) PROVE \E j \in 1 .. 7 : c[j] = a
    <3>1. a \in 0 .. n + 1 /\ (a \in 1 .. n => inner[a] = comma)
      BY <1>1 DEF Cuts, n
    <3>2. CASE a = 0 \/ a = n + 1
      BY <1>9, <3>2
    <3>3. CASE ~(a = 0 \/ a = n + 1)
      <4>1. a \in 1 .. n /\ inner[a] = comma
        BY <1>1, <3>1, <3>3
      <4>2. PICK k \in 1 .. 11 : e[k] = a
        BY <1>7, <1>8, <4>1
      <4>3. \A j \in 1 .. 6 : k # 2 * j - 1
        BY <1>6, <1>8, <4>1, <4>2
      <4>4. PICK j \in 1 .. 5 : k = 2 * j
        BY <4>3, OddOrEven
      <4>5. c[j + 1] = a /\ j + 1 \in 1 .. 7
        BY <1>9, <4>2, <4>4
      <4> QED
        BY <4>5
    <3> QED
      BY <3>2, <3>3
  <2> QED
    BY <2>2, <2>3, <2>4 DEF InOrder
<1>13. split(inner, comma) = [j \in 1 .. 6 |-> SubSeq(inner, c[j] + 1, c[j + 1] - 1)]
  <2>1. PICK x \in Nat : x = 7
    OBVIOUS
  <2>2. InOrder(c, x, Cuts(inner, comma))
    BY <1>12, <2>1
  <2>3. split(inner, comma) = [j \in 1 .. x - 1 |-> SubSeq(inner, c[j] + 1, c[j + 1] - 1)]
    BY <2>2, SplitIs
  <2>4. x - 1 = 6
    BY <2>1
  <2> QED
    BY <2>3, <2>4
<1>14. ASSUME NEW j \in 1 .. 6
       PROVE  ParseU16(Trim(SubSeq(inner, c[j] + 1, c[j + 1] - 1))) = {f[j]} \cap U16
  <2> DEFINE d == [k \in 1 .. 1 |-> e[2 * j - 1]]
             s == SubSeq(inner, c[j] + 1, c[j + 1] - 1)
  <2>1. /\ c[j] \in Nat /\ c[j + 1] \in Nat /\ c[j] < e[2 * j - 1] /\ e[2 * j - 1] < c[j + 1]
        /\ c[j + 1] <= n + 1
    BY <1>11
  <2>2. 2 * j - 1 \in 1 .. 11 /\ e[2 * j - 1] \in Int /\ inner[e[2 * j - 1]] \notin drop
    BY <1>0, <1>7
  <2>3. d[1] = e[2 * j - 1] /\ DOMAIN d = 1 .. 1
    OBVIOUS
  <2>4. d \in [1 .. 1 -> KeptIn(inner, drop, c[j], c[j + 1])]
    <3>1. e[2 * j - 1] \in c[j] + 1 .. c[j + 1] - 1
      BY ONLY <2>1, <2>2
    <3>2. e[2 * j - 1] \in KeptIn(inner, drop, c[j], c[j + 1])
      BY <2>2, <3>1 DEF KeptIn
    <3> QED
      BY <3>2
  <2>5. ASSUME NEW i \in KeptIn(inner, drop, c[j], c[j + 1]) PROVE \E k \in 1 .. 1 : d[k] = i
    <3>1. i \in c[j] + 1 .. c[j + 1] - 1 /\ inner[i] \notin drop
      BY DEF KeptIn
    <3>2. i \in 1 .. n /\ c[j] < i /\ i < c[j + 1]
      BY ONLY <1>1, <2>1, <3>1
    <3>3. PICK k \in 1 .. 11 : e[k] = i
      BY <1>7, <3>1, <3>2
    <3>4. k = 2 * j - 1
      BY <1>11, <3>2, <3>3
    <3> QED
      BY <2>3, <3>3, <3>4
  <2> HIDE DEF d
  <2>6. InOrder(d, 1, KeptIn(inner, drop, c[j], c[j + 1]))
    <3>1. \A i, k \in 1 .. 1 : ~(i < k)
      OBVIOUS
    <3> QED
      BY <2>4, <2>5, <3>1 DEF InOrder
  <2>7. c[j] < c[j + 1] /\ c[j + 1] <= Len(inner) + 1
    BY <2>1, <2>2 DEF n
  <2>8. reject(s, drop) = [k \in 1 .. 1 |-> inner[d[k]]]
    <3>1. PICK x \in Nat : x = 1
      OBVIOUS
    <3>2. InOrder(d, x, KeptIn(inner, drop, c[j], c[j + 1]))
      BY <2>6, <3>1
    <3>3. reject(s, drop) = [k \in 1 .. x |-> inner[d[k]]]
      BY <2>1, <2>7, <3>2, RejectIs
    <3> QED
      BY <3>1, <3>3
  <2> HIDE DEF s
  <2>9. Len(reject(s, drop)) = 1 /\ reject(s, drop)[1] = Num(f[j])
    <3>1. inner[d[1]] = Num(f[j])
      BY <1>6, <2>3
    <3> QED
      BY <2>8, <3>1
  <2>10. ParseU16(reject(s, drop)) = {f[j]} \cap U16
    BY <2>9, Tokens DEF ParseU16
  <2> QED
    BY <2>10 DEF Trim, drop, s
<1>15. Fields(inner) = [j \in DOMAIN split(inner, comma) |-> ParseU16(Trim(split(inner, comma)[j]))]
  BY DEF Fields, comma
<1>16. \A j \in 1 .. 6 : split(inner, comma)[j] = SubSeq(inner, c[j] + 1, c[j + 1] - 1)
  BY <1>13, Zenon
<1>17. DOMAIN split(inner, comma) = 1 .. 6
  BY <1>13
<1>18. \A j \in 1 .. 6 : ParseU16(Trim(split(inner, comma)[j])) = {f[j]} \cap U16
  BY <1>14, <1>16, Zenon
<1> QED
  BY <1>15, <1>17, <1>18

(* Of the tokens of a line, only a number says that it is one.               *)
LEMMA NumberToken ==
  ASSUME NEW x, IsToken(x), x[1] = "num"
  PROVE  x = Num(x[2])
<1>1. \A c \in Delimiter \cup {")", "SP"} : c # "num"
  BY Zenon DEF Delimiter
<1>2. x \notin {Mark(c) : c \in Delimiter \cup {")", "SP"}}
  BY <1>1, Tokens
<1> QED
  BY <1>2 DEF IsToken

(* Six fields that are all numbers are such a text, blanks apart.            *)
LEMMA TextOfFields ==
  ASSUME NEW inner, IsList(inner), \A i \in DOMAIN inner : IsToken(inner[i]),
         Len(Fields(inner)) = 6, AllNumbers(Fields(inner))
  PROVE  \E f \in [1 .. 6 -> U16] : reject(inner, {Mark("SP")}) = Text227(f)
<1> DEFINE n == Len(inner)
           drop == {Mark("SP")}
           comma == Mark(",")
           parts == split(inner, comma)
<1>1. n \in Nat /\ DOMAIN inner = 1 .. n
  BY SliceAll
<1>2. PICK m \in Nat : \E e : InOrder(e, m, Cuts(inner, comma))
  <2>1. Cuts(inner, comma) \in SUBSET (0 .. n + 1)
    BY Zenon DEF Cuts
  <2>2. n + 1 \in Nat
    BY <1>1
  <2> HIDE DEF n, comma
  <2> QED
    BY <2>1, <2>2, OrderExists, Zenon
<1>3. PICK c : InOrder(c, m, Cuts(inner, comma))
  BY <1>2, Zenon
<1>4. /\ parts = [k \in 1 .. m - 1 |-> SubSeq(inner, c[k] + 1, c[k + 1] - 1)]
      /\ Len(parts) = m - 1 /\ m >= 2 /\ c[1] = 0 /\ c[m] = n + 1
      /\ \A k \in 1 .. m - 1 : c[k] \in Nat /\ c[k + 1] \in Nat /\ c[k] < c[k + 1] /\ c[k + 1] <= n + 1
  BY <1>3, SplitIs, Zenon
<1>5. Fields(inner) = [k \in DOMAIN parts |-> ParseU16(Trim(parts[k]))]
  BY Zenon DEF Fields
<1>6. comma \notin drop /\ \A x : Num(x) # comma
  BY Tokens, Zenon
<1> HIDE DEF n, drop, comma, parts
<1>7. m = 7
  <2>1. DOMAIN parts = 1 .. m - 1
    BY <1>4
  <2>2. Len(Fields(inner)) = m - 1
    BY <1>4, <1>5, <2>1
  <2> QED
    <3>1. m - 1 = 6
      BY <2>2, Zenon
    <3>2. m \in Nat
      BY <1>2
    <3> QED
      BY ONLY <3>1, <3>2
<1>8. /\ c[1] = 0 /\ c[7] = n + 1
      /\ \A j \in 1 .. 6 : c[j] \in Nat /\ c[j + 1] \in Nat /\ c[j] < c[j + 1] /\ c[j + 1] <= n + 1
      /\ \A j \in 1 .. 6 : parts[j] = SubSeq(inner, c[j] + 1, c[j + 1] - 1)
      /\ DOMAIN parts = 1 .. 6
  <2>1. m - 1 = 6
    BY <1>7
  <2> QED
    BY <1>4, <1>7, <2>1, Zenon
<1>9. /\ \A j \in 1 .. 7 : c[j] \in 0 .. n + 1 /\ (c[j] \in 1 .. n => inner[c[j]] = comma)
      /\ \A i \in 1 .. n : inner[i] = comma => \E j \in 1 .. 7 : c[j] = i
      /\ \A i, j \in 1 .. 7 : i < j => c[i] < c[j]
  <2>1. \A i : i \in Cuts(inner, comma) <=> i \in 0 .. n + 1 /\ (i \in 1 .. n => inner[i] = comma)
    BY <1>1 DEF Cuts, n
  <2>2. \A i \in 1 .. n : i \in 0 .. n + 1
    BY <1>1
  <2> QED
    BY <1>3, <1>7, <2>1, <2>2 DEF InOrder
<1> DEFINE Only(j, q) == /\ KeptIn(inner, drop, c[j], c[j + 1]) = {q}
                         /\ inner[q] = Num(inner[q][2]) /\ inner[q][2] \in U16
<1>10. ASSUME NEW j \in 1 .. 6 PROVE \E q : Only(j, q)
  <2> DEFINE s == SubSeq(inner, c[j] + 1, c[j + 1] - 1)
  <2>1. c[j] \in Nat /\ c[j + 1] \in Nat /\ c[j] < c[j + 1] /\ c[j + 1] <= Len(inner) + 1
    BY <1>8, Zenon DEF n
  <2>2. PICK x \in Nat : \E e : InOrder(e, x, KeptIn(inner, drop, c[j], c[j + 1]))
    <3>1. KeptIn(inner, drop, c[j], c[j + 1]) \in SUBSET (0 .. c[j + 1])
      BY <2>1 DEF KeptIn
    <3> QED
      BY <2>1, <3>1, OrderExists, Zenon
  <2>3. PICK e : InOrder(e, x, KeptIn(inner, drop, c[j], c[j + 1]))
    BY <2>2
  <2>4. reject(s, drop) = [k \in 1 .. x |-> inner[e[k]]]
    BY <2>1, <2>3, RejectIs
  <2>5. Len(reject(s, drop)) = x
    BY <2>4
  <2>6. Fields(inner)[j] # {} /\ Fields(inner)[j] = ParseU16(reject(s, drop))
    <3>1. DOMAIN Fields(inner) = 1 .. 6
      BY <1>5, <1>8
    <3>2. Fields(inner)[j] # {}
      BY <3>1 DEF AllNumbers
    <3>3. Trim(s) = reject(s, drop)
      BY DEF Trim, drop
    <3>4. Fields(inner)[j] = ParseU16(Trim(s))
      BY <1>5, <1>8, Zenon
    <3> QED
      BY <3>2, <3>3, <3>4
  <2> HIDE DEF s
  <2>7. /\ Len(reject(s, drop)) = 1 /\ reject(s, drop)[1][1] = "num"
        /\ reject(s, drop)[1][2] \in U16
    BY <2>6 DEF ParseU16
  <2>8. x = 1 /\ inner[e[1]][1] = "num" /\ inner[e[1]][2] \in U16
    BY <2>4, <2>5, <2>7
  <2>9. KeptIn(inner, drop, c[j], c[j + 1]) = {e[1]}
    <3>1. \A k \in 1 .. 1 : k = 1
      OBVIOUS
    <3>2. e[1] \in KeptIn(inner, drop, c[j], c[j + 1])
      BY <2>3, <2>8 DEF InOrder
    <3>3. \A i \in KeptIn(inner, drop, c[j], c[j + 1]) : i = e[1]
      BY <2>3, <2>8, <3>1 DEF InOrder
    <3> QED
      BY <3>2, <3>3
  <2>10. e[1] \in 1 .. n
    <3>1. e[1] \in c[j] + 1 .. c[j + 1] - 1
      BY <2>9 DEF KeptIn
    <3> QED
      BY <1>1, <2>1, <3>1 DEF n
  <2>11. IsToken(inner[e[1]])
    BY <1>1, <2>10
  <2>12. inner[e[1]] = Num(inner[e[1]][2])
    BY <2>8, <2>11, NumberToken
  <2> QED
    BY <2>8, <2>9, <2>12
<1> DEFINE q == [j \in 1 .. 6 |-> CHOOSE x : Only(j, x)]
           f == [j \in 1 .. 6 |-> inner[q[j]][2]]
<1>11. \A j \in 1 .. 6 : Only(j, q[j])
  <2> HIDE DEF Only
  <2> QED
    BY <1>10, Zenon
<1>12. f \in [1 .. 6 -> U16] /\ \A j \in 1 .. 6 : inner[q[j]] = Num(f[j])
  BY <1>11, Zenon
<1>13. ASSUME NEW j \in 1 .. 6
       PROVE  /\ q[j] \in Int /\ c[j] < q[j] /\ q[j] < c[j + 1] /\ q[j] \in 1 .. n /\ inner[q[j]] \notin drop
              /\ \A i : i \in c[j] + 1 .. c[j + 1] - 1 /\ inner[i] \notin drop => i = q[j]
  <2>1. KeptIn(inner, drop, c[j], c[j + 1]) = {q[j]}
    BY <1>11, Zenon
  <2> HIDE DEF q
  <2>2. q[j] \in c[j] + 1 .. c[j + 1] - 1 /\ inner[q[j]] \notin drop
    BY <2>1 DEF KeptIn
  <2>3. c[j] \in Nat /\ c[j + 1] \in Nat /\ c[j + 1] <= n + 1
    BY <1>8, Zenon
  <2>4. q[j] \in Int /\ c[j] < q[j] /\ q[j] < c[j + 1] /\ q[j] \in 1 .. n
    BY ONLY <1>1, <2>2, <2>3
  <2> QED
    BY <2>1, <2>2, <2>4 DEF KeptIn
<1> HIDE DEF q, f, Only
<1> DEFINE e == [k \in 1 .. 11 |-> IF k % 2 = 0 THEN c[k \div 2 + 1] ELSE q[k \div 2 + 1]]
<1>14. /\ \A j \in 1 .. 5 : e[2 * j] = c[j + 1]
       /\ \A j \in 1 .. 6 : e[2 * j - 1] = q[j]
  <2>1. \A j \in 1 .. 5 : 2 * j \in 1 .. 11 /\ (2 * j) % 2 = 0 /\ (2 * j) \div 2 + 1 = j + 1
    OBVIOUS
  <2>2. \A j \in 1 .. 6 : 2 * j - 1 \in 1 .. 11 /\ (2 * j - 1) % 2 # 0 /\ (2 * j - 1) \div 2 + 1 = j
    OBVIOUS
  <2> QED
    BY <2>1, <2>2
<1>15. DOMAIN e = 1 .. 11 /\ e = [k \in 1 .. 11 |-> e[k]]
  OBVIOUS
<1> HIDE DEF e
<1>16. ASSUME NEW j \in 1 .. 5 PROVE c[j + 1] \in 1 .. n /\ inner[c[j + 1]] = comma
  <2>1. /\ j \in 1 .. 6 /\ j + 1 \in 1 .. 6 /\ j + 1 \in 1 .. 7 /\ (j + 1) + 1 \in 1 .. 7
    OBVIOUS
  <2>2. c[j] \in Nat /\ c[j] < c[j + 1] /\ c[j + 1] \in Nat
    BY <1>8, <2>1, Zenon
  <2>3. c[j + 1] < c[(j + 1) + 1] /\ c[(j + 1) + 1] <= n + 1 /\ c[(j + 1) + 1] \in Nat
    BY <1>8, <2>1, Zenon
  <2>4. c[j + 1] \in 1 .. n
    BY ONLY <1>1, <2>2, <2>3
  <2> QED
    BY <1>9, <2>1, <2>4
<1>17. \A k \in 1 .. 11 : e[k] \in 1 .. n /\ inner[e[k]] \notin drop /\ inner[e[k]] = Text227(f)[k]
  <2> SUFFICES ASSUME NEW k \in 1 .. 11
               PROVE  e[k] \in 1 .. n /\ inner[e[k]] \notin drop /\ inner[e[k]] = Text227(f)[k]
    OBVIOUS
  <2>1. ASSUME NEW j \in 1 .. 5, k = 2 * j PROVE e[k] \in 1 .. n /\ inner[e[k]] = comma /\ Text227(f)[k] = comma
    BY <1>14, <1>16, <2>1, Text227Is, Zenon DEF comma
  <2>2. ASSUME NEW j \in 1 .. 6, k = 2 * j - 1
        PROVE  e[k] \in 1 .. n /\ inner[e[k]] \notin drop /\ inner[e[k]] = Text227(f)[k]
    <3>1. e[k] = q[j]
      BY <1>14, <2>2
    <3>2. q[j] \in 1 .. n /\ inner[q[j]] \notin drop
      BY <1>13
    <3>3. inner[q[j]] = Num(f[j])
      BY <1>12
    <3>4. Text227(f)[k] = Num(f[j])
      BY <2>2, Text227Is, Zenon
    <3> QED
      BY <3>1, <3>2, <3>3, <3>4
  <2> QED
    BY <1>6, <2>1, <2>2, OddOrEven
<1>18. InOrder(e, 11, Undropped(inner, drop))
  <2>1. e \in [1 .. 11 -> Undropped(inner, drop)]
    BY <1>15, <1>17 DEF Undropped, n
  <2>2. \A i, j \in 1 .. 11 : i < j => e[i] < e[j]
    <3>1. \A k \in 1 .. 11 : e[k] \in Nat
      <4>1. 1 .. n \subseteq Nat
        BY <1>1
      <4> QED
        BY <1>17, <4>1
    <3>2. ASSUME NEW k \in 1 .. 11 - 1 PROVE e[k] < e[k + 1]
      <4>1. k \in 1 .. 11
        OBVIOUS
      <4>2. ASSUME NEW j \in 1 .. 5, k = 2 * j PROVE e[k] < e[k + 1]
        <5>1. j + 1 \in 1 .. 6 /\ k + 1 = 2 * (j + 1) - 1
          BY <4>2
        <5>2. e[k] = c[j + 1] /\ e[k + 1] = q[j + 1]
          BY <1>14, <4>2, <5>1
        <5> QED
          BY <1>13, <5>1, <5>2
      <4>3. ASSUME NEW j \in 1 .. 6, k = 2 * j - 1 PROVE e[k] < e[k + 1]
        <5>1. j \in 1 .. 5 /\ k + 1 = 2 * j
          BY <4>3
        <5>2. e[k] = q[j] /\ e[k + 1] = c[j + 1]
          BY <1>14, <4>3, <5>1
        <5> QED
          BY <1>13, <5>2
      <4> QED
        BY <4>1, <4>2, <4>3, OddOrEven
    <3>3. PICK x \in Nat : x = 11
      OBVIOUS
    <3> QED
      BY <3>1, <3>2, <3>3, Ascends
  <2>3. ASSUME NEW i \in Undropped(inner, drop) PROVE \E k \in 1 .. 11 : e[k] = i
    <3>1. i \in 1 .. n /\ inner[i] \notin drop
      BY DEF Undropped, n
    <3>2. CASE inner[i] = comma
      <4>1. PICK j \in 1 .. 7 : c[j] = i
        BY <1>9, <3>1, <3>2
      <4>2. j # 1 /\ j # 7
        <5>1. c[1] = 0 /\ c[7] = n + 1
          BY <1>8
        <5>2. i # 0 /\ i # n + 1
          BY <1>1, <3>1
        <5> QED
          BY <4>1, <5>1, <5>2
      <4>3. j - 1 \in 1 .. 5 /\ (j - 1) + 1 = j /\ 2 * (j - 1) \in 1 .. 11
        BY <4>2
      <4> QED
        BY <1>14, <4>1, <4>3
    <3>3. CASE inner[i] # comma
      <4>1. \E j \in 1 .. 6 : c[j] < i /\ i < c[j + 1]
        <5>1. \A j \in 1 .. 6 : c[j] \in Nat /\ c[j + 1] \in Nat
          BY <1>8, Zenon
        <5>2. \A j \in 1 .. 5 : i # c[j + 1]
          BY <1>16, <3>3
        <5>3. /\ c[1] \in Nat /\ c[2] \in Nat /\ c[3] \in Nat /\ c[4] \in Nat /\ c[5] \in Nat /\ c[6] \in Nat /\ c[7] \in Nat
              /\ i # c[2] /\ i # c[3] /\ i # c[4] /\ i # c[5] /\ i # c[6] /\ c[1] < i /\ i < c[7] /\ i \in Int
          <6>1. 1 + 1 = 2 /\ 2 + 1 = 3 /\ 3 + 1 = 4 /\ 4 + 1 = 5 /\ 5 + 1 = 6 /\ 6 + 1 = 7
            OBVIOUS
          <6>2. c[1] < i /\ i < c[7] /\ i \in Int
            <7>1. c[1] = 0 /\ c[7] = n + 1
              BY <1>8
            <7> QED
              BY <1>1, <3>1, <7>1
          <6> QED
            BY <5>1, <5>2, <6>1, <6>2
        <5>4. \/ c[1] < i /\ i < c[2]
              \/ c[2] < i /\ i < c[3]
              \/ c[3] < i /\ i < c[4]
              \/ c[4] < i /\ i < c[5]
              \/ c[5] < i /\ i < c[6]
              \/ c[6] < i /\ i < c[7]
          BY ONLY <5>3
        <5>5. \/ c[1] < i /\ i < c[1 + 1]
              \/ c[2] < i /\ i < c[2 + 1]
              \/ c[3] < i /\ i < c[3 + 1]
              \/ c[4] < i /\ i < c[4 + 1]
              \/ c[5] < i /\ i < c[5 + 1]
              \/ c[6] < i /\ i < c[6 + 1]
          BY <5>4
        <5> QED
          BY <5>5
      <4>2. PICK j \in 1 .. 6 : c[j] < i /\ i < c[j + 1]
        BY <4>1
      <4>3. i \in c[j] + 1 .. c[j + 1] - 1
        <5>1. c[j] \in Nat /\ c[j + 1] \in Nat /\ i \in Int
          <6>1. c[j] \in Nat /\ c[j + 1] \in Nat
            BY <1>8, Zenon
          <6>2. i \in Int
            BY <1>1, <3>1
          <6> QED
            BY <6>1, <6>2
        <5> QED
          BY ONLY <4>2, <5>1
      <4>4. i = q[j]
        BY <1>13, <3>1, <4>3
      <4>5. 2 * j - 1 \in 1 .. 11 /\ e[2 * j - 1] = i
        BY <1>14, <4>4
      <4> QED
        BY <4>5
    <3> QED
      BY <3>2, <3>3
  <2> QED
    BY <2>1, <2>2, <2>3 DEF InOrder
<1>19. reject(inner, drop) = [k \in 1 .. 11 |-> inner[e[k]]]
  <2>1. PICK x \in Nat : x = 11
    OBVIOUS
  <2>2. InOrder(e, x, Undropped(inner, drop))
    BY <1>18, <2>1
  <2>3. reject(inner, drop) = [k \in 1 .. x |-> inner[e[k]]]
    BY <2>2, RejectAll
  <2> QED
    BY <2>1, <2>3
<1>20. Text227(f) = [k \in 1 .. 11 |-> Text227(f)[k]]
  BY DEF Text227
<1>21. reject(inner, drop) = Text227(f)
  BY <1>17, <1>19, <1>20
<1> QED
  BY <1>12, <1>21 DEF drop

(* What a reply says in brackets is what was put into them.                  *)
LEMMA BracketsHold ==
  ASSUME NEW w, IsList(w), \A i \in DOMAIN w : w[i] # Mark(")")
  PROVE  Announced(InBrackets(w)) = {w}
<1> DEFINE n == Len(w)
           front == <<Mark("x"), Mark("(")>>
           back == <<Mark(")"), Mark("x")>>
           S == {w[i] : i \in DOMAIN w} \cup {Mark("x"), Mark("("), Mark(")")}
           l == InBrackets(w)
<1>1. n \in Nat /\ DOMAIN w = 1 .. n
  BY SliceAll
<1>2. w \in Seq(S)
  <2>1. \A i \in 1 .. n : w[i] \in S
    BY <1>1
  <2>2. w \in Seq({w[i] : i \in DOMAIN w})
    BY DEF IsList
  <2> QED
    BY <1>1, <2>1, <2>2
<1>3. front \in Seq(S) /\ back \in Seq(S) /\ Len(front) = 2 /\ Len(back) = 2
  OBVIOUS
<1>4. front[1] = Mark("x") /\ front[2] = Mark("(") /\ back[1] = Mark(")") /\ back[2] = Mark("x")
  OBVIOUS
<1>5. l = (front \o w) \o back
  BY DEF InBrackets
<1> HIDE DEF front, back, S
<1>6. /\ front \o w \in Seq(S) /\ Len(front \o w) = 2 + n
      /\ \A i \in 1 .. 2 + n : (front \o w)[i] = IF i <= 2 THEN front[i] ELSE w[i - 2]
  <2>1. /\ front \o w \in Seq(S) /\ Len(front \o w) = Len(front) + Len(w)
        /\ \A i \in 1 .. Len(front) + Len(w) : (front \o w)[i] = IF i <= Len(front) THEN front[i] ELSE w[i - Len(front)]
    BY <1>2, <1>3, Joined, Zenon
  <2> QED
    BY <1>3, <2>1
<1>7. /\ l \in Seq(S) /\ Len(l) = (2 + n) + 2
      /\ \A i \in 1 .. (2 + n) + 2 : l[i] = IF i <= 2 + n THEN (front \o w)[i] ELSE back[i - (2 + n)]
  BY <1>3, <1>5, <1>6, Joined
<1> HIDE DEF l, n
<1>8. l[1] = Mark("x") /\ l[2] = Mark("(") /\ \A i \in 1 .. n : l[2 + i] = w[i]
  <2>1. /\ 1 \in 1 .. 2 + n /\ 2 \in 1 .. 2 + n /\ 1 \in 1 .. (2 + n) + 2 /\ 2 \in 1 .. (2 + n) + 2
        /\ 1 <= 2 + n /\ 2 <= 2 + n
    BY <1>1
  <2>2. \A i \in 1 .. n : /\ 2 + i \in 1 .. 2 + n /\ 2 + i \in 1 .. (2 + n) + 2 /\ 2 + i <= 2 + n
                         /\ ~(2 + i <= 2) /\ (2 + i) - 2 = i
    BY <1>1
  <2>3. l[1] = Mark("x") /\ l[2] = Mark("(")
    <3>1. (front \o w)[1] = front[1] /\ (front \o w)[2] = front[2]
      BY <1>6, <2>1
    <3>2. l[1] = (front \o w)[1] /\ l[2] = (front \o w)[2]
      BY <1>7, <2>1, Zenon
    <3> QED
      BY <1>4, <3>1, <3>2
  <2>4. ASSUME NEW i \in 1 .. n PROVE l[2 + i] = w[i]
    BY <1>6, <1>7, <2>2, Zenon
  <2> QED
    BY <2>3, <2>4
<1>9. l[n + 3] = Mark(")")
  <2>1. n + 3 \in 1 .. (2 + n) + 2 /\ ~(n + 3 <= 2 + n) /\ (n + 3) - (2 + n) = 1
    BY <1>1
  <2> QED
    BY <1>4, <1>7, <2>1
<1>10. IsList(l) /\ DOMAIN l = 1 .. n + 4 /\ Len(l) = n + 4
  <2>1. (2 + n) + 2 = n + 4 /\ n + 4 \in Nat
    BY <1>1
  <2>2. Len(l) = n + 4 /\ l = [i \in 1 .. n + 4 |-> l[i]]
    BY <1>7, <2>1
  <2> QED
    BY <2>1, <2>2, FunctionIsList
<1>11. Bracketed(l, 2, n + 3)
  <2>1. 2 \in 1 .. Len(l) /\ n + 3 \in 1 .. Len(l) /\ 2 < n + 3
    BY <1>1, <1>10
  <2>2. \A k \in 1 .. 2 - 1 : l[k] # Mark("(")
    <3>1. \A k \in 1 .. 2 - 1 : k = 1
      OBVIOUS
    <3> QED
      BY <1>8, <3>1, Tokens
  <2>3. ASSUME NEW k \in 2 + 1 .. (n + 3) - 1 PROVE l[k] # Mark(")")
    <3>1. k - 2 \in 1 .. n /\ 2 + (k - 2) = k
      BY <1>1
    <3> QED
      BY <1>1, <1>8, <3>1, Zenon
  <2> QED
    BY <1>8, <1>9, <2>1, <2>2, <2>3 DEF Bracketed
<1>12. SubSeq(l, 2 + 1, (n + 3) - 1) = w
  <2>1. PICK a \in Nat : a = 2
    OBVIOUS
  <2>2. PICK b \in Nat : b = n + 3
    BY <1>1
  <2>3. a < b /\ b <= Len(l) + 1 /\ (b - a) - 1 = n
    BY <1>1, <1>10, <2>1, <2>2
  <2>4. SubSeq(l, a + 1, b - 1) = [i \in 1 .. (b - a) - 1 |-> l[a + i]]
    BY <1>10, <2>3, SliceIs
  <2>5. SubSeq(l, a + 1, b - 1) = [i \in 1 .. n |-> w[i]]
    BY <1>8, <2>1, <2>3, <2>4
  <2>6. w = [i \in 1 .. n |-> w[i]]
    BY <1>1, <1>2
  <2> QED
    BY <2>1, <2>2, <2>5, <2>6
<1>13. Inner(l) = {w}
  BY <1>10, <1>11, <1>12, InnerIs, Zenon
<1> QED
  BY <1>10, <1>13, AnnouncedIsInner DEF l

(* Two octets make a u16, which has them back.                               *)
LEMMA TwoOctets ==
  /\ \A h, l \in Octet : /\ h * Base + l \in U16 /\ (h * Base + l) % (Base * Base) = h * Base + l
                         /\ (h * Base + l) \div Base = h /\ (h * Base + l) % Base = l
  /\ \A p \in U16 : p \div Base \in Octet /\ p % Base \in Octet
  /\ Octet \subseteq U16
<1>1. Base \in Nat /\ Base >= 2
  BY ProtocolAssumption
<1>2. Base * Base \in Nat /\ Base * Base >= Base
  BY <1>1
<1>3. Octet \subseteq U16
  BY <1>1, <1>2 DEF Octet, U16
<1>4. ASSUME NEW h \in Octet, NEW l \in Octet
      PROVE  /\ h * Base + l \in U16 /\ (h * Base + l) % (Base * Base) = h * Base + l
             /\ (h * Base + l) \div Base = h /\ (h * Base + l) % Base = l
  <2>1. h \in Nat /\ l \in Nat /\ h <= Base - 1 /\ l <= Base - 1
    BY <1>1 DEF Octet
  <2>2. h * Base <= (Base - 1) * Base /\ h * Base \in Nat
    BY <1>1, <2>1
  <2>3. (Base - 1) * Base = Base * Base - Base
    BY <1>1
  <2>4. h * Base + l \in 0 .. Base * Base - 1
    BY ONLY <1>1, <1>2, <2>1, <2>2, <2>3
  <2>5. \A x, y \in Nat : x < y => x % y = x
    OBVIOUS
  <2>6. (h * Base + l) % (Base * Base) = h * Base + l
    BY <1>2, <2>4, <2>5
  <2>7. (h * Base + l) \div Base = h /\ (h * Base + l) % Base = l
    BY <1>1, <2>1, <2>2
  <2> QED
    BY <2>4, <2>6, <2>7 DEF U16
<1>5. ASSUME NEW p \in U16 PROVE p \div Base \in Octet /\ p % Base \in Octet
  <2>1. p \in Nat /\ p < Base * Base
    BY <1>2 DEF U16
  <2>2. p % Base \in 0 .. Base - 1
    BY <1>1, <2>1
  <2>3. PICK d \in Int : d = p \div Base
    BY <1>1, <2>1
  <2>4. d * Base <= p /\ d >= 0
    BY <1>1, <2>1, <2>3
  <2>5. ~(d >= Base)
    <3>1. ASSUME d >= Base PROVE d * Base >= Base * Base
      BY <1>1, <2>4, <3>1
    <3> QED
      BY <1>1, <1>2, <2>1, <2>4, <3>1
  <2> QED
    BY <1>1, <2>2, <2>3, <2>4, <2>5 DEF Octet
<1> QED
  BY <1>3, <1>4, <1>5

(* The six numbers of an address.                                            *)
Numbers(a) == a.ip \o <<a.port \div Base, a.port % Base>>

(* They are six octets.                                                      *)
LEMMA NumbersAre ==
  ASSUME NEW a \in Addresses
  PROVE  /\ Numbers(a) \in [1 .. 6 -> Octet]
         /\ \A k \in 1 .. 4 : Numbers(a)[k] = a.ip[k]
         /\ Numbers(a)[5] = a.port \div Base /\ Numbers(a)[6] = a.port % Base
<1> DEFINE last == <<a.port \div Base, a.port % Base>>
<1>1. a.ip \in [1 .. 4 -> Octet] /\ a.port \in U16
  BY DEF Addresses
<1>2. a.ip \in Seq(Octet) /\ Len(a.ip) = 4
  <2>1. PICK x \in Nat : x = 4
    OBVIOUS
  <2>2. a.ip \in [1 .. x -> Octet]
    BY <1>1, <2>1
  <2>3. a.ip \in Seq(Octet) /\ Len(a.ip) = x
    BY <2>2
  <2> QED
    BY <2>1, <2>3
<1>3. a.port \div Base \in Octet /\ a.port % Base \in Octet
  BY <1>1, TwoOctets
<1>4. last \in Seq(Octet) /\ Len(last) = 2 /\ last[1] = a.port \div Base /\ last[2] = a.port % Base
  BY <1>3
<1> HIDE DEF last
<1>5. /\ a.ip \o last \in Seq(Octet) /\ Len(a.ip \o last) = Len(a.ip) + Len(last)
      /\ \A i \in 1 .. Len(a.ip) + Len(last) :
           (a.ip \o last)[i] = IF i <= Len(a.ip) THEN a.ip[i] ELSE last[i - Len(a.ip)]
  BY <1>2, <1>4, Joined, Zenon
<1>6. /\ a.ip \o last \in Seq(Octet) /\ Len(a.ip \o last) = 6
      /\ \A i \in 1 .. 6 : (a.ip \o last)[i] = IF i <= 4 THEN a.ip[i] ELSE last[i - 4]
  <2>1. Len(a.ip) + Len(last) = 6
    BY <1>2, <1>4
  <2> QED
    BY <1>2, <1>5, <2>1
<1>7. Numbers(a) = a.ip \o last
  BY DEF Numbers, last
<1>8. Numbers(a) \in [1 .. 6 -> Octet]
  <2>1. PICK x \in Nat : x = 6
    OBVIOUS
  <2>2. Numbers(a) \in Seq(Octet) /\ Len(Numbers(a)) = x
    BY <1>6, <1>7, <2>1
  <2>3. Numbers(a) \in [1 .. x -> Octet]
    BY <2>2
  <2> QED
    BY <2>1, <2>3
<1>9. \A i \in 1 .. 6 : Numbers(a)[i] = IF i <= 4 THEN a.ip[i] ELSE last[i - 4]
  <2> SUFFICES ASSUME NEW i \in 1 .. 6 PROVE Numbers(a)[i] = IF i <= 4 THEN a.ip[i] ELSE last[i - 4]
    OBVIOUS
  <2>1. (a.ip \o last)[i] = IF i <= 4 THEN a.ip[i] ELSE last[i - 4]
    BY <1>6, Zenon
  <2> QED
    BY <1>7, <2>1
<1>10. \A k \in 1 .. 4 : k \in 1 .. 6 /\ k <= 4
  OBVIOUS
<1>11. Numbers(a)[5] = last[5 - 4] /\ Numbers(a)[6] = last[6 - 4]
  BY <1>9
<1> QED
  BY <1>4, <1>8, <1>9, <1>10, <1>11

(* A 227 says them.                                                          *)
LEMMA Says227Is ==
  ASSUME NEW a \in Addresses
  PROVE  Says227(a) = {Text227(Numbers(a))}
<1> DEFINE f == Numbers(a)
           w == Text227(f)
<1>1. pasv_reply(a.ip, a.port) = InBrackets(w)
  BY DEF pasv_reply, Text227, Numbers
<1>2. IsList(w) /\ DOMAIN w = 1 .. 11
  <2>1. PICK x \in Nat : x = 11
    OBVIOUS
  <2>2. w = [k \in 1 .. x |-> w[k]]
    BY <2>1 DEF Text227
  <2> QED
    BY <2>1, <2>2, FunctionIsList, Zenon
<1>3. ASSUME NEW k \in 1 .. 11 PROVE w[k] # Mark(")")
  <2> HIDE DEF f
  <2>1. ASSUME NEW j \in 1 .. 5, k = 2 * j PROVE w[k] = Mark(",")
    BY <2>1, Text227Is, Zenon
  <2>2. ASSUME NEW j \in 1 .. 6, k = 2 * j - 1 PROVE w[k] = Num(f[j])
    BY <2>2, Text227Is, Zenon
  <2>3. Mark(",") # Mark(")") /\ \A j : Num(f[j]) # Mark(")")
    BY Tokens, Zenon
  <2> QED
    BY <2>1, <2>2, <2>3, OddOrEven, Zenon
<1> HIDE DEF w
<1>4. Announced(InBrackets(w)) = {w}
  BY <1>2, <1>3, BracketsHold
<1> QED
  BY <1>1, <1>4 DEF Says227, w

(* Six octets are the numbers of one address, which is what Address returns. *)
LEMMA AddressIs ==
  ASSUME NEW f \in [1 .. 6 -> U16], NEW fields, fields = [j \in 1 .. 6 |-> {f[j]} \cap U16]
  PROVE  /\ (\A j \in 1 .. 6 : f[j] \in Octet) => \E a \in Addresses : Address(fields) = {a} /\ Numbers(a) = f
         /\ (\E j \in 1 .. 6 : f[j] \notin Octet) => Address(fields) = {}
<1>1. Len(fields) = 6 /\ DOMAIN fields = 1 .. 6 /\ \A j \in 1 .. 6 : fields[j] = {f[j]}
  <2>1. \A j \in 1 .. 6 : {f[j]} \cap U16 = {f[j]}
    OBVIOUS
  <2>2. Len(fields) = 6 /\ DOMAIN fields = 1 .. 6 /\ \A j \in 1 .. 6 : fields[j] = {f[j]} \cap U16
    BY DEF U16
  <2> QED
    BY <2>1, <2>2
<1>2. IsAddress(fields) <=> \A j \in 1 .. 6 : f[j] \in Octet
  BY <1>1 DEF IsAddress, AllNumbers
<1>3. ASSUME \E j \in 1 .. 6 : f[j] \notin Octet PROVE Address(fields) = {}
  BY <1>2, <1>3, Zenon DEF Address
<1>4. ASSUME \A j \in 1 .. 6 : f[j] \in Octet
      PROVE  \E a \in Addresses : Address(fields) = {a} /\ Numbers(a) = f
  <2> DEFINE n == [k \in 1 .. 6 |-> CHOOSE x \in fields[k] : TRUE]
             a == [ip |-> SubSeq(f, 1, 4), port |-> (f[5] * Base + f[6]) % (Base * Base)]
  <2>1. n = f
    <3>1. \A k \in 1 .. 6 : (CHOOSE x \in fields[k] : TRUE) = f[k]
      BY <1>1
    <3> QED
      BY <3>1
  <2>2. Address(fields) = {[ip |-> SubSeq(n, 1, 4), port |-> (n[5] * Base + n[6]) % (Base * Base)]}
    BY <1>2, <1>4, Zenon DEF Address
  <2>3. Address(fields) = {a}
    BY <2>1, <2>2
  <2>4. /\ f[5] * Base + f[6] \in U16 /\ (f[5] * Base + f[6]) % (Base * Base) = f[5] * Base + f[6]
        /\ (f[5] * Base + f[6]) \div Base = f[5] /\ (f[5] * Base + f[6]) % Base = f[6]
    <3>1. f[5] \in Octet /\ f[6] \in Octet
      BY <1>4
    <3> QED
      BY <3>1, TwoOctets
  <2>5. SubSeq(f, 1, 4) \in [1 .. 4 -> Octet] /\ \A k \in 1 .. 4 : SubSeq(f, 1, 4)[k] = f[k]
    <3>1. PICK x \in Nat : x = 0
      OBVIOUS
    <3>2. PICK y \in Nat : y = 5
      OBVIOUS
    <3>3. PICK z \in Nat : z = 6
      OBVIOUS
    <3>4. f = [k \in 1 .. z |-> f[k]]
      BY <3>3
    <3>5. IsList(f) /\ Len(f) = z
      BY <3>4, FunctionIsList
    <3>6. SubSeq(f, x + 1, y - 1) = [i \in 1 .. (y - x) - 1 |-> f[x + i]]
      <4>1. x < y /\ y <= Len(f) + 1
        BY <3>1, <3>2, <3>3, <3>5
      <4> QED
        BY <3>5, <4>1, SliceIs
    <3>7. x + 1 = 1 /\ y - 1 = 4 /\ (y - x) - 1 = 4 /\ \A i \in 1 .. 4 : x + i = i
      BY <3>1, <3>2
    <3>8. SubSeq(f, 1, 4) = [i \in 1 .. 4 |-> f[i]]
      BY <3>6, <3>7
    <3> QED
      <4>1. \A k \in 1 .. 4 : k \in 1 .. 6
        OBVIOUS
      <4>2. \A k \in 1 .. 4 : f[k] \in Octet
        BY <1>4, <4>1
      <4> QED
        BY <3>8, <4>2, Zenon
  <2>6. /\ a.ip = SubSeq(f, 1, 4) /\ a.port = f[5] * Base + f[6] /\ a \in Addresses
    BY <2>4, <2>5 DEF Addresses
  <2> HIDE DEF a
  <2>7. Numbers(a) = f
    <3>1. /\ Numbers(a) \in [1 .. 6 -> Octet] /\ \A k \in 1 .. 4 : Numbers(a)[k] = a.ip[k]
          /\ Numbers(a)[5] = a.port \div Base /\ Numbers(a)[6] = a.port % Base
      BY <2>6, NumbersAre
    <3>2. \A k \in 1 .. 4 : Numbers(a)[k] = f[k]
      BY <2>5, <2>6, <3>1
    <3>3. Numbers(a)[5] = f[5] /\ Numbers(a)[6] = f[6]
      BY <2>4, <2>6, <3>1
    <3>4. \A k \in 1 .. 6 : k \in 1 .. 4 \/ k = 5 \/ k = 6
      OBVIOUS
    <3>5. \A k \in 1 .. 6 : Numbers(a)[k] = f[k]
      BY <3>2, <3>3, <3>4
    <3> QED
      BY <3>1, <3>5
  <2> QED
    BY <2>3, <2>6, <2>7
<1> QED
  BY <1>3, <1>4

(* A 227 is read as the address that it says, and nothing else is read as    *)
(* one.                                                                      *)
LEMMA PasvRepliesRight ==
  ASSUME NEW line, IsReply(line)
  PROVE  LET said == Announced(reject(line, {Mark("SP")}))
         IN  /\ parse_pasv_reply(line) = {} <=> said \cap AllOf227 = {}
             /\ \A a \in parse_pasv_reply(line) : said = Says227(a)
<1> DEFINE drop == {Mark("SP")}
           said == Announced(reject(line, drop))
<1>1. IsList(line)
  BY DEF IsReply
<1>2. said = {reject(x, drop) : x \in Inner(line)}
  BY <1>1, InnerWithoutBlanks, AnnouncedIsInner, Zenon
<1>3. parse_pasv_reply(line) = UNION {Address(Fields(x)) : x \in Inner(line)}
  BY DEF parse_pasv_reply
<1> HIDE DEF said
<1> DEFINE Right == /\ parse_pasv_reply(line) = {} <=> said \cap AllOf227 = {}
                    /\ \A a \in parse_pasv_reply(line) : said = Says227(a)
<1>4. ASSUME Inner(line) = {} PROVE Right
  <2>1. said = {} /\ parse_pasv_reply(line) = {}
    BY <1>2, <1>3, <1>4
  <2> QED
    BY <2>1
<1>5. ASSUME Inner(line) # {} PROVE Right
  <2>1. PICK s, t : Bracketed(line, s, t)
    BY <1>1, <1>5, InnerIs
  <2> DEFINE inner == SubSeq(line, s + 1, t - 1)
  <2>2. Inner(line) = {inner}
    BY <1>1, <2>1, InnerIs
  <2>3. /\ IsList(inner) /\ \A i \in DOMAIN inner : IsToken(inner[i])
    <3>1. s \in Nat /\ t \in Nat /\ s < t /\ t <= Len(line) + 1 /\ DOMAIN line = 1 .. Len(line) /\ Len(line) \in Nat
      <4>1. Len(line) \in Nat /\ DOMAIN line = 1 .. Len(line)
        BY <1>1, SliceAll
      <4> QED
        BY <2>1, <4>1 DEF Bracketed
    <3>2. /\ IsList(inner) /\ DOMAIN inner = 1 .. (t - s) - 1
          /\ \A i \in 1 .. (t - s) - 1 : inner[i] = line[s + i]
      BY <1>1, <3>1, SliceIs
    <3>3. ASSUME NEW i \in DOMAIN inner PROVE IsToken(inner[i])
      <4>1. s + i \in 1 .. Len(line) /\ inner[i] = line[s + i]
        BY <3>1, <3>2
      <4> QED
        BY <3>1, <4>1 DEF IsReply
    <3> QED
      BY <3>2, <3>3, Zenon
  <2>4. said = {reject(inner, drop)} /\ parse_pasv_reply(line) = Address(Fields(inner))
    BY <1>2, <1>3, <2>2
  <2> HIDE DEF inner
  <2>5. ASSUME NEW a \in Addresses, said = Says227(a) PROVE Address(Fields(inner)) # {}
    <3> DEFINE f == Numbers(a)
    <3>1. f \in [1 .. 6 -> Octet] /\ f \in [1 .. 6 -> U16]
      BY NumbersAre, TwoOctets
    <3>2. reject(inner, drop) = Text227(f)
      BY <2>4, <2>5, Says227Is
    <3> HIDE DEF f
    <3>3. Fields(inner) = [j \in 1 .. 6 |-> {f[j]} \cap U16]
      BY <2>3, <3>2, FieldsOfText
    <3> QED
      BY <3>1, <3>3, AddressIs
  <2>6. ASSUME NEW b \in Address(Fields(inner)) PROVE b \in Addresses /\ said = Says227(b)
    <3>1. Len(Fields(inner)) = 6 /\ AllNumbers(Fields(inner))
      BY <2>6 DEF Address, IsAddress
    <3>2. PICK f \in [1 .. 6 -> U16] : reject(inner, drop) = Text227(f)
      BY <2>3, <3>1, TextOfFields
    <3>3. Fields(inner) = [j \in 1 .. 6 |-> {f[j]} \cap U16]
      BY <2>3, <3>2, FieldsOfText
    <3>4. PICK a \in Addresses : Address(Fields(inner)) = {a} /\ Numbers(a) = f
      BY <2>6, <3>3, AddressIs, Zenon
    <3> QED
      BY <2>4, <2>6, <3>2, <3>4, Says227Is
  <2>7. ASSUME said \cap AllOf227 # {} PROVE parse_pasv_reply(line) # {}
    <3>1. PICK a \in Addresses : said \cap Says227(a) # {}
      BY <2>7 DEF AllOf227
    <3>2. said = Says227(a)
      BY <2>4, <3>1, Says227Is
    <3> QED
      BY <2>4, <2>5, <3>2
  <2>8. ASSUME parse_pasv_reply(line) # {} PROVE said \cap AllOf227 # {}
    <3>1. PICK b \in Addresses : said = Says227(b)
      BY <2>4, <2>6, <2>8
    <3> QED
      BY <2>4, <3>1 DEF AllOf227
  <2> QED
    BY <2>4, <2>6, <2>7, <2>8
<1> QED
  BY <1>4, <1>5 DEF said

-----------------------------------------------------------------------------
(* A 229's text is read as its port.                                         *)
LEMMA PortOfText ==
  ASSUME NEW d \in Delimiter, NEW p \in U16 \ {0}, NEW inner,
         inner = <<Mark(d), Mark(d), Mark(d), Num(p), Mark(d)>>
  PROVE  Port(inner) = {p}
<1> DEFINE e == <<0, 1, 2, 3, 5, 6>>
           c == Mark(d)
<1>1. /\ Len(inner) = 5 /\ DOMAIN inner = 1 .. 5
      /\ inner[1] = c /\ inner[2] = c /\ inner[3] = c /\ inner[4] = Num(p) /\ inner[5] = c
  OBVIOUS
<1>2. Num(p) # c /\ c # Mark("SP") /\ Num(p)[1] = "num" /\ Num(p)[2] = p
  <2>1. d # "SP"
    BY Zenon DEF Delimiter
  <2> QED
    BY <2>1, Tokens
<1> HIDE DEF c
<1>3. IsList(inner)
  <2>1. PICK x \in Nat : x = 5
    OBVIOUS
  <2>2. inner = [k \in 1 .. x |-> inner[k]]
    BY <2>1
  <2> QED
    BY <2>2, FunctionIsList
<1>4. Cuts(inner, c) = {0, 1, 2, 3, 5, 6}
  <2>1. 0 .. Len(inner) + 1 = {0, 1, 2, 3, 4, 5, 6}
    BY <1>1
  <2>2. 1 \in DOMAIN inner /\ 2 \in DOMAIN inner /\ 3 \in DOMAIN inner /\ 4 \in DOMAIN inner /\ 5 \in DOMAIN inner
    BY <1>1
  <2>3. 0 \notin DOMAIN inner /\ 6 \notin DOMAIN inner
    BY <1>1
  <2> QED
    BY <1>1, <1>2, <2>1, <2>2, <2>3 DEF Cuts
<1>5. PICK m \in Nat : m = 6
  OBVIOUS
<1>6. /\ DOMAIN e = 1 .. 6 /\ e[1] = 0 /\ e[2] = 1 /\ e[3] = 2 /\ e[4] = 3 /\ e[5] = 5 /\ e[6] = 6
      /\ e = [k \in 1 .. 6 |-> e[k]]
  OBVIOUS
<1> HIDE DEF e
<1>7. InOrder(e, m, Cuts(inner, c))
  <2>1. 1 .. m = {1, 2, 3, 4, 5, 6}
    BY <1>5
  <2>2. \A k \in 1 .. m : e[k] \in Cuts(inner, c)
    BY <1>4, <1>6, <2>1
  <2>3. e \in [1 .. m -> Cuts(inner, c)]
    BY <1>5, <1>6, <2>2
  <2>4. \A i, j \in 1 .. m : i < j => e[i] < e[j]
    BY <1>6, <2>1
  <2>5. \A i \in Cuts(inner, c) : \E k \in 1 .. m : e[k] = i
    BY <1>4, <1>6, <2>1
  <2> QED
    BY <2>3, <2>4, <2>5, Zenon DEF InOrder
<1> DEFINE fields == split(inner, c)
<1>8. /\ fields = [k \in 1 .. m - 1 |-> SubSeq(inner, e[k] + 1, e[k + 1] - 1)]
      /\ Len(fields) = m - 1
  BY ONLY <1>3, <1>7, m \in Nat, SplitIs
<1> HIDE DEF fields
<1>9. Len(fields) = 5 /\ \A k \in 1 .. 5 : fields[k] = SubSeq(inner, e[k] + 1, e[k + 1] - 1)
  <2>1. m - 1 = 5
    BY <1>5
  <2> QED
    BY <1>8, <2>1, Zenon
<1>10. ASSUME NEW a \in Nat, NEW b \in Nat, a < b, b <= 6
       PROVE  /\ b = a + 1 => SubSeq(inner, a + 1, b - 1) = <<>>
              /\ b = a + 2 => /\ Len(SubSeq(inner, a + 1, b - 1)) = 1
                              /\ SubSeq(inner, a + 1, b - 1)[1] = inner[a + 1]
  <2>1. b <= Len(inner) + 1
    BY <1>1, <1>10
  <2> QED
    BY ONLY <1>3, <1>10, <2>1, a \in Nat, b \in Nat, ShortSlice
<1>11. fields[1] = <<>> /\ fields[2] = <<>> /\ fields[3] = <<>> /\ fields[5] = <<>>
  <2>1. /\ fields[1] = SubSeq(inner, e[1] + 1, e[2] - 1) /\ fields[2] = SubSeq(inner, e[2] + 1, e[3] - 1)
        /\ fields[3] = SubSeq(inner, e[3] + 1, e[4] - 1) /\ fields[5] = SubSeq(inner, e[5] + 1, e[6] - 1)
    <3>1. /\ 1 + 1 = 2 /\ 2 + 1 = 3 /\ 3 + 1 = 4 /\ 5 + 1 = 6
          /\ 1 \in 1 .. 5 /\ 2 \in 1 .. 5 /\ 3 \in 1 .. 5 /\ 5 \in 1 .. 5
      OBVIOUS
    <3> QED
      BY <1>9, <3>1, Zenon
  <2>2. /\ e[1] \in Nat /\ e[2] \in Nat /\ e[3] \in Nat /\ e[4] \in Nat /\ e[5] \in Nat /\ e[6] \in Nat
        /\ e[2] = e[1] + 1 /\ e[3] = e[2] + 1 /\ e[4] = e[3] + 1 /\ e[6] = e[5] + 1
        /\ e[1] < e[2] /\ e[2] < e[3] /\ e[3] < e[4] /\ e[5] < e[6] /\ e[2] <= 6 /\ e[3] <= 6 /\ e[4] <= 6 /\ e[6] <= 6
    BY <1>6
  <2>3. ASSUME NEW a \in Nat, NEW b \in Nat, a < b, b <= 6, b = a + 1 PROVE SubSeq(inner, a + 1, b - 1) = <<>>
    BY ONLY <1>10, <2>3, a \in Nat, b \in Nat
  <2> QED
    BY <2>1, <2>2, <2>3, Zenon
<1>12. Len(fields[4]) = 1 /\ fields[4][1] = Num(p)
  <2>1. fields[4] = SubSeq(inner, e[4] + 1, e[5] - 1)
    <3>1. 4 + 1 = 5
      OBVIOUS
    <3> QED
      BY <1>9, <3>1
  <2>2. e[4] \in Nat /\ e[5] \in Nat /\ e[4] < e[5] /\ e[5] <= 6 /\ e[5] = e[4] + 2 /\ e[4] + 1 = 4
    BY <1>6
  <2>3. Len(fields[4]) = 1 /\ fields[4][1] = inner[e[4] + 1]
    <3>1. ASSUME NEW a \in Nat, NEW b \in Nat, a < b, b <= 6, b = a + 2
          PROVE  /\ Len(SubSeq(inner, a + 1, b - 1)) = 1
                 /\ SubSeq(inner, a + 1, b - 1)[1] = inner[a + 1]
      BY <1>10, <3>1, Zenon
    <3>2. /\ Len(SubSeq(inner, e[4] + 1, e[5] - 1)) = 1
          /\ SubSeq(inner, e[4] + 1, e[5] - 1)[1] = inner[e[4] + 1]
      BY <2>2, <3>1, Zenon
    <3> QED
      BY <2>1, <3>2, Zenon
  <2> QED
    BY <1>1, <2>2, <2>3
<1>13. ParseU16(fields[4]) \ {0} = {p}
  BY <1>2, <1>12 DEF ParseU16
<1>14. Port(inner) = IF /\ inner[1] # Mark("SP") /\ Len(fields) = 5 /\ \A k \in {1, 2, 3, 5} : fields[k] = <<>>
                    THEN ParseU16(fields[4]) \ {0} ELSE {}
  BY <1>1 DEF Port, fields
<1> QED
  BY <1>1, <1>2, <1>9, <1>11, <1>13, <1>14, Zenon

(* Only such a text is.                                                      *)
LEMMA TextOfPort ==
  ASSUME NEW inner, IsList(inner), NEW p \in Port(inner)
  PROVE  /\ Len(inner) = 5 /\ inner[2] = inner[1] /\ inner[3] = inner[1] /\ inner[5] = inner[1]
         /\ inner[1] # Mark("SP") /\ inner[4][1] = "num" /\ inner[4][2] = p /\ p \in U16 \ {0}
<1> DEFINE d == inner[1]
           n == Len(inner)
           fields == split(inner, d)
<1>1. n \in Nat /\ DOMAIN inner = 1 .. n
  BY SliceAll
<1>2. /\ d # Mark("SP") /\ Len(fields) = 5 /\ \A k \in {1, 2, 3, 5} : fields[k] = <<>>
      /\ p \in ParseU16(fields[4]) \ {0}
  BY DEF Port
<1> HIDE DEF d
<1>3. PICK m \in Nat : \E e : InOrder(e, m, Cuts(inner, d))
  <2>1. Cuts(inner, d) \in SUBSET (0 .. n + 1)
    BY DEF Cuts
  <2>2. n + 1 \in Nat
    BY <1>1
  <2> HIDE DEF n
  <2> QED
    BY <2>1, <2>2, OrderExists, Zenon
<1>4. PICK c : InOrder(c, m, Cuts(inner, d))
  BY <1>3
<1>5. /\ fields = [k \in 1 .. m - 1 |-> SubSeq(inner, c[k] + 1, c[k + 1] - 1)]
      /\ Len(fields) = m - 1 /\ m >= 2 /\ c[1] = 0 /\ c[m] = n + 1
      /\ \A k \in 1 .. m - 1 : c[k] \in Nat /\ c[k + 1] \in Nat /\ c[k] < c[k + 1] /\ c[k + 1] <= n + 1
  BY <1>4, SplitIs, Zenon
<1> HIDE DEF n, fields
<1>6. m = 6 /\ m - 1 = 5
  <2>1. m - 1 = 5
    BY <1>2, <1>5
  <2>2. m \in Nat
    BY <1>3
  <2> QED
    BY ONLY <2>1, <2>2
<1>7. /\ c[1] = 0 /\ c[6] = n + 1
      /\ \A k \in 1 .. 5 : c[k] \in Nat /\ c[k + 1] \in Nat /\ c[k] < c[k + 1] /\ c[k + 1] <= n + 1
      /\ \A k \in 1 .. 5 : fields[k] = SubSeq(inner, c[k] + 1, c[k + 1] - 1)
  BY <1>5, <1>6, Zenon
<1>8. ASSUME NEW k \in 1 .. 5
      PROVE  /\ Len(fields[k]) = (c[k + 1] - c[k]) - 1
             /\ \A i \in 1 .. (c[k + 1] - c[k]) - 1 : fields[k][i] = inner[c[k] + i]
  <2>1. c[k] \in Nat /\ c[k + 1] \in Nat /\ c[k] < c[k + 1] /\ c[k + 1] <= Len(inner) + 1
    BY <1>7, Zenon DEF n
  <2>2. fields[k] = SubSeq(inner, c[k] + 1, c[k + 1] - 1)
    BY <1>7, Zenon
  <2>3. PICK a \in Nat, b \in Nat : a = c[k] /\ b = c[k + 1]
    BY <2>1
  <2>4. a < b /\ b <= Len(inner) + 1
    BY <2>1, <2>3
  <2>5. /\ Len(SubSeq(inner, a + 1, b - 1)) = (b - a) - 1
        /\ \A i \in 1 .. (b - a) - 1 : SubSeq(inner, a + 1, b - 1)[i] = inner[a + i]
    BY <2>4, SliceIs
  <2> QED
    BY <2>2, <2>3, <2>5, Zenon
<1>9. /\ Len(fields[1]) = 0 /\ Len(fields[2]) = 0 /\ Len(fields[3]) = 0 /\ Len(fields[5]) = 0
      /\ Len(fields[4]) = 1 /\ fields[4][1][1] = "num" /\ fields[4][1][2] = p /\ p \in U16 \ {0}
  <2>1. Len(<<>>) = 0
    OBVIOUS
  <2>2. fields[1] = <<>> /\ fields[2] = <<>> /\ fields[3] = <<>> /\ fields[5] = <<>>
    BY <1>2
  <2>3. Len(fields[4]) = 1 /\ fields[4][1][1] = "num" /\ fields[4][1][2] = p /\ p \in U16 \ {0}
    BY <1>2 DEF ParseU16
  <2> QED
    BY <2>1, <2>2, <2>3
<1>10. c[2] = 1 /\ c[3] = 2 /\ c[4] = 3 /\ c[5] = 5 /\ c[6] = 6
  <2>1. /\ c[1] \in Nat /\ c[2] \in Nat /\ c[3] \in Nat /\ c[4] \in Nat /\ c[5] \in Nat /\ c[6] \in Nat
        /\ Len(fields[1]) = (c[2] - c[1]) - 1 /\ Len(fields[2]) = (c[3] - c[2]) - 1
        /\ Len(fields[3]) = (c[4] - c[3]) - 1 /\ Len(fields[4]) = (c[5] - c[4]) - 1
        /\ Len(fields[5]) = (c[6] - c[5]) - 1
    <3>1. 1 + 1 = 2 /\ 2 + 1 = 3 /\ 3 + 1 = 4 /\ 4 + 1 = 5 /\ 5 + 1 = 6
      OBVIOUS
    <3>2. /\ c[1] \in Nat /\ c[1 + 1] \in Nat /\ c[2 + 1] \in Nat /\ c[3 + 1] \in Nat
          /\ c[4 + 1] \in Nat /\ c[5 + 1] \in Nat
      BY <1>7
    <3>3. /\ Len(fields[1]) = (c[1 + 1] - c[1]) - 1 /\ Len(fields[2]) = (c[2 + 1] - c[2]) - 1
          /\ Len(fields[3]) = (c[3 + 1] - c[3]) - 1 /\ Len(fields[4]) = (c[4 + 1] - c[4]) - 1
          /\ Len(fields[5]) = (c[5 + 1] - c[5]) - 1
      BY <1>8
    <3> QED
      BY <3>1, <3>2, <3>3
  <2>2. c[1] = 0
    BY <1>7
  <2> QED
    <3>1. /\ (c[2] - c[1]) - 1 = 0 /\ (c[3] - c[2]) - 1 = 0 /\ (c[4] - c[3]) - 1 = 0
          /\ (c[5] - c[4]) - 1 = 1 /\ (c[6] - c[5]) - 1 = 0
      BY <1>9, <2>1, Zenon
    <3>2. /\ c[1] \in Nat /\ c[2] \in Nat /\ c[3] \in Nat /\ c[4] \in Nat /\ c[5] \in Nat /\ c[6] \in Nat
      BY <2>1
    <3> QED
      BY ONLY <2>2, <3>1, <3>2
<1>11. n = 5
  BY <1>1, <1>7, <1>10
<1>12. inner[2] = d /\ inner[3] = d /\ inner[5] = d
  <2>1. \A k \in 1 .. 6 : c[k] \in Cuts(inner, d)
    BY <1>4, <1>6 DEF InOrder
  <2>2. 2 \in Cuts(inner, d) /\ 3 \in Cuts(inner, d) /\ 5 \in Cuts(inner, d)
    BY <1>10, <2>1
  <2>3. 2 \in DOMAIN inner /\ 3 \in DOMAIN inner /\ 5 \in DOMAIN inner
    BY <1>1, <1>11
  <2> QED
    BY <2>2, <2>3 DEF Cuts
<1>13. fields[4][1] = inner[4]
  <2>1. 1 \in 1 .. (c[4 + 1] - c[4]) - 1 /\ c[4] + 1 = 4
    BY <1>10
  <2> QED
    BY <1>8, <2>1
<1> QED
  BY <1>2, <1>9, <1>11, <1>12, <1>13 DEF d, n

(* A 229 is read as the port that it says, whatever delimiter it has, and    *)
(* nothing else is read as one.                                              *)
LEMMA EpsvRepliesRight ==
  ASSUME NEW line, IsReply(line)
  PROVE  /\ parse_epsv_reply(line) = {} <=> Announced(line) \cap AllOf229 = {}
         /\ \A p \in parse_epsv_reply(line) : \E d \in Delimiter : Announced(line) = Says229(p, d)
<1> DEFINE Text(p, d) == <<Mark(d), Mark(d), Mark(d), Num(p), Mark(d)>>
<1>1. IsList(line) /\ Len(line) \in Nat /\ DOMAIN line = 1 .. Len(line)
  BY SliceAll DEF IsReply
<1>2. Announced(line) = Inner(line)
  BY <1>1, AnnouncedIsInner
<1>3. parse_epsv_reply(line) = UNION {Port(x) : x \in Inner(line) \ {<<>>}}
  BY DEF parse_epsv_reply
<1>4. \A p, d : Says229(p, d) = {Text(p, d)} /\ Text(p, d) # <<>>
  BY DEF Says229
<1> HIDE DEF Text
<1>5. ASSUME NEW x \in Inner(line), NEW p \in U16 \ {0}, NEW d \in Delimiter, x = Text(p, d)
      PROVE  parse_epsv_reply(line) # {}
  <2>1. p \in Port(x)
    BY <1>5, PortOfText DEF Text
  <2> QED
    BY <1>3, <1>4, <1>5, <2>1
<1>6. ASSUME NEW x \in Inner(line), NEW p \in Port(x)
      PROVE  /\ Inner(line) = {x} /\ p \in U16 \ {0} /\ \E d \in Delimiter : x = Text(p, d)
  <2>1. PICK s, t : Bracketed(line, s, t)
    BY <1>1, InnerIs
  <2>2. Inner(line) = {x} /\ x = SubSeq(line, s + 1, t - 1)
    <3>1. Inner(line) = {SubSeq(line, s + 1, t - 1)}
      BY <1>1, <2>1, InnerIs
    <3> QED
      BY <3>1, Zenon
  <2>3. s \in Nat /\ t \in Nat /\ s < t /\ t <= Len(line) + 1
    BY <1>1, <2>1 DEF Bracketed
  <2>4. /\ IsList(x) /\ Len(x) = (t - s) - 1 /\ DOMAIN x = 1 .. (t - s) - 1
        /\ \A i \in 1 .. (t - s) - 1 : x[i] = line[s + i]
    BY <1>1, <2>2, <2>3, SliceIs
  <2>5. /\ Len(x) = 5 /\ x[2] = x[1] /\ x[3] = x[1] /\ x[5] = x[1]
        /\ x[1] # Mark("SP") /\ x[4][1] = "num" /\ x[4][2] = p /\ p \in U16 \ {0}
    BY <2>4, TextOfPort, Zenon
  <2>6. (t - s) - 1 = 5 /\ t = s + 6
    <3>1. (t - s) - 1 = 5
      BY <2>4, <2>5, Zenon
    <3> QED
      BY ONLY <2>3, <3>1
  <2>7. \A i \in 1 .. 5 : x[i] = line[s + i] /\ s + i \in 1 .. Len(line)
    <3>1. \A i \in 1 .. 5 : s + i \in 1 .. Len(line)
      BY <1>1, <2>1, <2>3, <2>6 DEF Bracketed
    <3> QED
      BY <2>4, <2>6, <3>1, Zenon
  <2>8. \A i \in 1 .. 5 : IsToken(x[i])
    BY <1>1, <2>7 DEF IsReply
  <2>9. x[4] = Num(p)
    BY <2>5, <2>8, NumberToken
  <2>10. x[1][1] # "num"
    <3>1. s + 1 \in 1 .. Len(line) - 1 /\ (s + 1) + 1 = s + 2
      BY <1>1, <2>1, <2>3, <2>6 DEF Bracketed
    <3>2. ~(line[s + 1][1] = "num" /\ line[(s + 1) + 1][1] = "num")
      BY <3>1 DEF IsReply
    <3>3. x[1] = line[s + 1] /\ x[2] = line[s + 2]
      BY <2>7
    <3> QED
      BY <2>5, <3>1, <3>2, <3>3
  <2>11. x[1] # Mark(")")
    <3>1. s + 1 \in s + 1 .. t - 1
      BY <2>3, <2>6
    <3>2. line[s + 1] # Mark(")")
      BY <2>1, <3>1 DEF Bracketed
    <3> QED
      BY <2>7, <3>2
  <2>12. PICK d \in Delimiter : x[1] = Mark(d)
    <3>1. \/ x[1] \in {Mark(c) : c \in Delimiter \cup {")", "SP"}}
          \/ x[1] = Num(x[1][2])
      BY <2>8 DEF IsToken
    <3>2. x[1] # Num(x[1][2])
      BY <2>10, Tokens
    <3> QED
      BY <2>5, <2>11, <3>1, <3>2
  <2>13. x = Text(p, d)
    <3> DEFINE y == <<Mark(d), Mark(d), Mark(d), Num(p), Mark(d)>>
    <3>1. /\ DOMAIN y = 1 .. 5 /\ y = [i \in 1 .. 5 |-> y[i]]
          /\ y[1] = Mark(d) /\ y[2] = Mark(d) /\ y[3] = Mark(d) /\ y[4] = Num(p) /\ y[5] = Mark(d)
      OBVIOUS
    <3>2. x = [i \in 1 .. 5 |-> x[i]]
      <4>1. DOMAIN x = 1 .. 5
        BY <2>4, <2>6
      <4>2. x \in Seq({x[i] : i \in DOMAIN x})
        BY <2>4 DEF IsList
      <4> QED
        BY <4>1, <4>2
    <3> HIDE DEF y
    <3>3. \A i \in 1 .. 5 : i = 1 \/ i = 2 \/ i = 3 \/ i = 4 \/ i = 5
      OBVIOUS
    <3>4. \A i \in 1 .. 5 : x[i] = y[i]
      BY <2>5, <2>9, <2>12, <3>1, <3>3
    <3> QED
      BY <3>1, <3>2, <3>4 DEF Text, y
  <2> QED
    BY <2>2, <2>5, <2>13, Zenon
<1>7. ASSUME NEW p \in parse_epsv_reply(line)
      PROVE  p \in U16 \ {0} /\ \E d \in Delimiter : Announced(line) = Says229(p, d)
  <2>1. PICK x \in Inner(line) : p \in Port(x)
    BY <1>3
  <2>2. PICK d \in Delimiter : Inner(line) = {x} /\ p \in U16 \ {0} /\ x = Text(p, d)
    BY <1>6, <2>1
  <2> QED
    BY <1>2, <1>4, <2>2
<1>8. ASSUME Announced(line) \cap AllOf229 # {} PROVE parse_epsv_reply(line) # {}
  <2>1. PICK p \in U16 \ {0}, d \in Delimiter : Announced(line) \cap Says229(p, d) # {}
    BY <1>8 DEF AllOf229
  <2>2. PICK x \in Inner(line) : x = Text(p, d)
    BY <1>2, <1>4, <2>1
  <2> QED
    BY <1>5, <2>2
<1>9. ASSUME parse_epsv_reply(line) # {} PROVE Announced(line) \cap AllOf229 # {}
  <2>1. PICK p \in U16 \ {0}, d \in Delimiter : Announced(line) = Says229(p, d)
    BY <1>7, <1>9
  <2>2. Text(p, d) \in Announced(line) /\ Text(p, d) \in Says229(p, d)
    BY <1>4, <2>1
  <2> QED
    BY <2>2 DEF AllOf229
<1> QED
  BY <1>7, <1>8, <1>9

(* And with the fallback, a data connection goes nowhere that is unspecified,*)
(* as the control connection came from somewhere.                            *)
LEMMA RepliesAreRight ==
  ASSUME NEW line, IsReply(line), NEW control, Unspecified \notin control, NEW fallback
  PROVE  RepliesRight(line, control, fallback)
<1>1. ASSUME fallback, control # {}, NEW command, NEW a \in DataAddr(command, line, control, fallback)
      PROVE  a.ip # Unspecified
  <2>1. CASE command = "EPSV"
    <3>1. PICK c \in control, p \in parse_epsv_reply(line) : a = [ip |-> c, port |-> p]
      BY <2>1 DEF DataAddr
    <3> QED
      BY <3>1
  <2>2. CASE command # "EPSV"
    <3>1. PICK b \in parse_pasv_reply(line) : a = [ip |-> data_ip(b.ip, control, fallback), port |-> b.port]
      BY <2>2 DEF DataAddr
    <3>2. (CHOOSE c \in control : TRUE) \in control
      BY <1>1
    <3>3. data_ip(b.ip, control, fallback) # Unspecified
      BY <1>1, <3>2 DEF data_ip
    <3> QED
      BY <3>1, <3>3
  <2> QED
    BY <2>1, <2>2
<1>2. LET said == Announced(reject(line, {Mark("SP")}))
      IN  /\ parse_pasv_reply(line) = {} <=> said \cap AllOf227 = {}
          /\ \A a \in parse_pasv_reply(line) : said = Says227(a)
  BY PasvRepliesRight
<1>3. /\ parse_epsv_reply(line) = {} <=> Announced(line) \cap AllOf229 = {}
      /\ \A p \in parse_epsv_reply(line) : \E d \in Delimiter : Announced(line) = Says229(p, d)
  BY EpsvRepliesRight
<1> QED
  BY <1>1, <1>2, <1>3 DEF RepliesRight
=============================================================================
