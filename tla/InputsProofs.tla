---------------------------- MODULE InputsProofs ----------------------------
(***************************************************************************)
(* Proofs about the pure functions: interface patterns and the selection   *)
(* of addresses, requests of the metrics endpoint, configurations, and,    *)
(* with RepliesProofs, the lines of the control connections.  The          *)
(* loops of the code are recursive functions; what they compute is proved  *)
(* by invariants of the loop, over the number of its iterations.           *)
(***************************************************************************)
EXTENDS Inputs, RepliesProofs

(* What a loop of n iterations from a knows after each of them.              *)
IsRun(g, n, A, a, step) ==
  g \in [0 .. n -> A] /\ g[0] = a /\ \A k \in 1 .. n : g[k] = step[k][g[k - 1]]

(* A loop of n iterations runs.                                              *)
LEMMA LoopRuns ==
  ASSUME NEW n \in Nat, NEW A, NEW a \in A, NEW step \in [1 .. n -> [A -> A]]
  PROVE  \E g : IsRun(g, n, A, a, step)
<1> USE DEF IsRun
<1> DEFINE Runs(m) == \E g : IsRun(g, m, A, a, step)
           T == {m \in 0 .. n : Runs(m)}
<1>1. Runs(0)
  <2> DEFINE h == [k \in 0 .. 0 |-> a]
  <2>1. h \in [0 .. 0 -> A] /\ h[0] = a /\ \A k \in 1 .. 0 : FALSE
    OBVIOUS
  <2> HIDE DEF h
  <2> QED
    BY <2>1
<1>2. ASSUME NEW m \in 0 .. n - 1, Runs(m) PROVE Runs(m + 1)
  <2>1. PICK g : IsRun(g, m, A, a, step)
    BY <1>2
  <2>2. step[m + 1][g[m]] \in A
    BY <2>1
  <2> DEFINE h == [k \in 0 .. m + 1 |-> IF k = m + 1 THEN step[m + 1][g[m]] ELSE g[k]]
  <2>3. h \in [0 .. m + 1 -> A]
    BY <2>1, <2>2
  <2>4. h[0] = a
    BY <2>1
  <2>5. ASSUME NEW k \in 1 .. m + 1 PROVE h[k] = step[k][h[k - 1]]
    <3>1. CASE k = m + 1
      <4>1. k - 1 = m /\ m # m + 1 /\ m \in 0 .. m + 1
        BY <3>1
      <4>2. h[k - 1] = g[m] /\ h[k] = step[m + 1][g[m]]
        BY <3>1, <4>1
      <4> QED
        BY <3>1, <4>2
    <3>2. CASE k # m + 1
      BY <2>1, <3>2
    <3> QED
      BY <3>1, <3>2
  <2> QED
    BY <2>3, <2>4, <2>5, Zenon
<1>3. 0 .. n \subseteq T
  <2> HIDE DEF Runs
  <2>1. 0 \in T /\ \A k \in 0 .. n - 1 : k \in T => k + 1 \in T
    BY <1>1, <1>2
  <2> HIDE DEF T
  <2> QED
    BY <2>1, UpTo, Zenon
<1> QED
  BY <1>3

-----------------------------------------------------------------------------
(* What the loop of glob_match knows.                                        *)
Positions == [p : Int, t : Int, star_p : Int, star_t : Int, failed : BOOLEAN]

(* Positions are positions again after an iteration.                         *)
LEMMA IterateIs ==
  ASSUME NEW pattern, NEW text, NEW l \in Positions
  PROVE  Iterate(pattern, text, l) \in Positions
<1>1. \A p, t, star_p, star_t \in Int : At(p, t, star_p, star_t) \in Positions
  BY DEF At, Positions
<1>2. l.p \in Int /\ l.t \in Int /\ l.star_p \in Int /\ l.star_t \in Int
  BY DEF Positions
<1>3. [l EXCEPT !.failed = TRUE] \in Positions
  BY Zenon DEF Positions
<1>4. Iterate(pattern, text, l) \in
        {l, At(l.p + 1, l.t + 1, l.star_p, l.star_t), At(l.p + 1, l.t, l.p, l.t),
         At(l.star_p + 1, l.star_t + 1, l.star_p, l.star_t + 1), [l EXCEPT !.failed = TRUE]}
  BY Zenon DEF Iterate
<1>5. /\ At(l.p + 1, l.t + 1, l.star_p, l.star_t) \in Positions
      /\ At(l.p + 1, l.t, l.p, l.t) \in Positions
      /\ At(l.star_p + 1, l.star_t + 1, l.star_p, l.star_t + 1) \in Positions
  BY <1>1, <1>2
<1> QED
  BY <1>3, <1>4, <1>5, Zenon

(* The loop runs: what it knows after each iteration, and what it returns.   *)
LEMMA GlobLoop ==
  ASSUME NEW pattern, NEW text, Len(pattern) \in Nat, Len(text) \in Nat
  PROVE  LET n == Iterations(pattern, text)
         IN  \E loop \in [0 .. n -> Positions] :
               /\ loop[0] = At(0, 0, -1, 0)
               /\ \A k \in 1 .. n : loop[k] = Iterate(pattern, text, loop[k - 1])
               /\ glob_match(pattern, text) <=>
                    ~loop[n].failed /\ \A k \in loop[n].p + 1 .. Len(pattern) : pattern[k] = "*"
<1> DEFINE n == Iterations(pattern, text)
           start == At(0, 0, -1, 0)
           Run(g) == g = [k \in 0 .. n |-> IF k = 0 THEN start ELSE Iterate(pattern, text, g[k - 1])]
           loop == CHOOSE g : Run(g)
           step == [k \in 1 .. n |-> [x \in Positions |-> Iterate(pattern, text, x)]]
<1>1. n \in Nat /\ start \in Positions
  BY DEF Iterations, At, Positions
<1>2. step \in [1 .. n -> [Positions -> Positions]]
  BY IterateIs
<1>3. \A x \in Positions, k \in 1 .. n : step[k][x] = Iterate(pattern, text, x)
  OBVIOUS
<1>4. glob_match(pattern, text) <=>
        ~loop[n].failed /\ \A k \in loop[n].p + 1 .. Len(pattern) : pattern[k] = "*"
  BY Zenon DEF glob_match
<1> HIDE DEF n, start, step
<1>5. PICK g : IsRun(g, n, Positions, start, step)
  BY <1>1, <1>2, LoopRuns
<1>6. Run(g)
  <2>1. ASSUME NEW k \in 0 .. n, k # 0 PROVE g[k] = Iterate(pattern, text, g[k - 1])
    <3>1. k \in 1 .. n /\ g[k - 1] \in Positions
      BY <1>1, <1>5, <2>1 DEF IsRun
    <3> QED
      BY <1>3, <1>5, <3>1 DEF IsRun
  <2>2. \A k \in 0 .. n : g[k] = IF k = 0 THEN start ELSE Iterate(pattern, text, g[k - 1])
    BY <1>5, <2>1 DEF IsRun
  <2> QED
    BY <1>5, <2>2 DEF IsRun
<1>7. Run(loop)
  BY <1>6, Zenon
<1> HIDE DEF loop
<1>8. loop[0] = start /\ \A k \in 1 .. n : loop[k] = Iterate(pattern, text, loop[k - 1])
  BY <1>1, <1>7
<1>9. \A k \in 0 .. n : loop[k] \in Positions
  <2> DEFINE T == {k \in 0 .. n : loop[k] \in Positions}
  <2>1. 0 \in T
    BY <1>1, <1>8
  <2>2. ASSUME NEW k \in 0 .. n - 1, k \in T PROVE k + 1 \in T
    <3>1. k + 1 \in 1 .. n /\ k + 1 \in 0 .. n /\ (k + 1) - 1 = k
      BY <1>1
    <3>2. loop[k + 1] = Iterate(pattern, text, loop[k])
      BY <1>8, <3>1
    <3> QED
      BY <2>2, <3>1, <3>2, IterateIs
  <2> HIDE DEF T
  <2>3. 0 .. n \subseteq T
    BY <1>1, <2>1, <2>2, UpTo
  <2> QED
    BY <2>3 DEF T
<1>10. loop \in [0 .. n -> Positions]
  BY <1>7, <1>9
<1> QED
  BY <1>4, <1>8, <1>10, Zenon DEF n, start

-----------------------------------------------------------------------------
(* starts[j] is where in the text the last j characters of the pattern match *)
(* all that is left of it.                                                   *)
AreStarts(starts, pattern, text) ==
  /\ starts \in [0 .. Len(pattern) -> SUBSET (0 .. Len(text))]
  /\ starts[0] = {Len(text)}
  /\ \A j \in 1 .. Len(pattern) :
       starts[j] = Starts(pattern[Len(pattern) - j + 1], text, starts[j - 1])

(* They are what Matches computes.                                           *)
LEMMA MatchesStarts ==
  ASSUME NEW pattern, NEW text, Len(pattern) \in Nat, Len(text) \in Nat
  PROVE  \E starts : /\ AreStarts(starts, pattern, text)
                     /\ Matches(pattern, text) <=> 0 \in starts[Len(pattern)]
<1> DEFINE n == Len(pattern)
           A == SUBSET (0 .. Len(text))
           start == {Len(text)}
           Run(g) == g = [j \in 0 .. n |-> IF j = 0 THEN start ELSE Starts(pattern[n - j + 1], text, g[j - 1])]
           starts == CHOOSE g : Run(g)
           step == [j \in 1 .. n |-> [x \in A |-> Starts(pattern[n - j + 1], text, x)]]
<1>1. \A c, x : Starts(c, text, x) \in A
  BY DEF Starts
<1>2. n \in Nat /\ start \in A
  OBVIOUS
<1>3. Matches(pattern, text) <=> 0 \in starts[n]
  BY Zenon DEF Matches
<1>4. \A x \in A, j \in 1 .. n : step[j][x] = Starts(pattern[n - j + 1], text, x)
  BY Zenon
<1> HIDE DEF n, start, A
<1>5. step \in [1 .. n -> [A -> A]]
  BY <1>1
<1> HIDE DEF step
<1>6. PICK g : IsRun(g, n, A, start, step)
  BY <1>2, <1>5, LoopRuns
<1>7. Run(g)
  <2>1. ASSUME NEW j \in 0 .. n, j # 0 PROVE g[j] = Starts(pattern[n - j + 1], text, g[j - 1])
    <3>1. j \in 1 .. n /\ g[j - 1] \in A
      BY <1>2, <1>6, <2>1 DEF IsRun
    <3> QED
      BY <1>4, <1>6, <3>1 DEF IsRun
  <2>2. \A j \in 0 .. n : g[j] = IF j = 0 THEN start ELSE Starts(pattern[n - j + 1], text, g[j - 1])
    BY <1>6, <2>1 DEF IsRun
  <2> QED
    BY <1>6, <2>2 DEF IsRun
<1>8. Run(starts)
  BY <1>7, Zenon
<1> HIDE DEF starts
<1>9. starts[0] = start /\ \A j \in 1 .. n : starts[j] = Starts(pattern[n - j + 1], text, starts[j - 1])
  BY <1>2, <1>8
<1>10. \A j \in 0 .. n : starts[j] \in A
  <2>1. \A j \in 0 .. n : j = 0 \/ j \in 1 .. n
    BY <1>2
  <2> QED
    BY <1>1, <1>2, <1>9, <2>1
<1>11. starts \in [0 .. n -> A]
  BY <1>8, <1>10
<1> QED
  BY <1>3, <1>9, <1>11 DEF AreStarts, n, A, start

(* The same by the position in the pattern: where in the text what is behind *)
(* the first p characters matches all that is left.                          *)
IsFrom(from, pattern, text) ==
  /\ from \in [0 .. Len(pattern) -> SUBSET (0 .. Len(text))]
  /\ from[Len(pattern)] = {Len(text)}
  /\ \A p \in 0 .. Len(pattern) - 1 : from[p] = Starts(pattern[p + 1], text, from[p + 1])

(* The pattern matches the text if it does so from the beginning of both.    *)
LEMMA MatchesFrom ==
  ASSUME NEW pattern, NEW text, Len(pattern) \in Nat, Len(text) \in Nat
  PROVE  \E from : IsFrom(from, pattern, text) /\ (Matches(pattern, text) <=> 0 \in from[0])
<1>1. PICK starts : /\ AreStarts(starts, pattern, text)
                    /\ Matches(pattern, text) <=> 0 \in starts[Len(pattern)]
  BY MatchesStarts
<1> DEFINE n == Len(pattern)
           from == [p \in 0 .. n |-> starts[n - p]]
<1>2. n \in Nat
  OBVIOUS
<1> HIDE DEF n
<1>3. \A p \in 0 .. n : n - p \in 0 .. n
  BY <1>2
<1>4. from \in [0 .. n -> SUBSET (0 .. Len(text))]
  BY <1>1, <1>3 DEF AreStarts, n
<1>5. from[n] = {Len(text)} /\ from[0] = starts[n]
  BY <1>1, <1>2 DEF AreStarts
<1>6. ASSUME NEW p \in 0 .. n - 1 PROVE from[p] = Starts(pattern[p + 1], text, from[p + 1])
  <2>1. /\ p \in 0 .. n /\ p + 1 \in 0 .. n /\ n - p \in 1 .. n
        /\ n - (n - p) + 1 = p + 1 /\ (n - p) - 1 = n - (p + 1)
    BY <1>2
  <2>2. from[p] = starts[n - p] /\ from[p + 1] = starts[n - (p + 1)]
    BY <2>1
  <2>3. starts[n - p] = Starts(pattern[n - (n - p) + 1], text, starts[(n - p) - 1])
    BY <1>1, <2>1 DEF AreStarts, n
  <2> QED
    BY <2>1, <2>2, <2>3
<1> HIDE DEF from
<1>7. IsFrom(from, pattern, text)
  BY <1>4, <1>5, <1>6 DEF IsFrom, n
<1> QED
  BY <1>1, <1>5, <1>7 DEF n

(* Characters that are no stars take one character of the text each.         *)
LEMMA PlainBlock ==
  ASSUME NEW pattern, NEW text, Len(pattern) \in Nat, Len(text) \in Nat,
         NEW from, IsFrom(from, pattern, text),
         NEW a \in 0 .. Len(pattern), NEW b \in a .. Len(pattern),
         \A k \in a + 1 .. b : pattern[k] # "*", NEW n \in from[a]
  PROVE  n \in Nat /\ n + (b - a) \in from[b]
<1> DEFINE T == {i \in 0 .. b - a : n + i \in from[a + i]}
<1>1. n \in Nat /\ b - a \in Nat /\ a \in Nat
  BY DEF IsFrom
<1>2. 0 \in T
  BY <1>1
<1>3. ASSUME NEW i \in 0 .. (b - a) - 1, i \in T PROVE i + 1 \in T
  <2>1. /\ a + i \in 0 .. Len(pattern) - 1 /\ (a + i) + 1 \in a + 1 .. b
        /\ (a + i) + 1 = a + (i + 1) /\ (n + i) + 1 = n + (i + 1) /\ i + 1 \in 0 .. b - a
    BY <1>1
  <2>2. n + i \in Starts(pattern[(a + i) + 1], text, from[(a + i) + 1]) /\ pattern[(a + i) + 1] # "*"
    BY <1>3, <2>1 DEF IsFrom
  <2>3. (n + i) + 1 \in from[(a + i) + 1]
    BY <2>2 DEF Starts
  <2> QED
    BY <2>1, <2>3
<1> HIDE DEF T
<1>4. 0 .. b - a \subseteq T
  BY <1>1, <1>2, <1>3, UpTo, Zenon
<1>5. b - a \in T /\ a + (b - a) = b
  BY <1>1, <1>4
<1> QED
  BY <1>1, <1>5 DEF T

(* At the end of the text only stars match.                                  *)
LEMMA OnlyStars ==
  ASSUME NEW pattern, NEW text, Len(pattern) \in Nat, Len(text) \in Nat,
         NEW from, IsFrom(from, pattern, text), NEW p \in 0 .. Len(pattern)
  PROVE  Len(text) \in from[p] <=> \A k \in p + 1 .. Len(pattern) : pattern[k] = "*"
<1> DEFINE n == Len(pattern)
           Right(q) == Len(text) \in from[q] <=> \A k \in q + 1 .. n : pattern[k] = "*"
           T == {i \in 0 .. n : Right(n - i)}
<1>1. n \in Nat /\ Len(text) \in Nat
  OBVIOUS
<1>2. 0 \in T
  BY <1>1 DEF IsFrom
<1>3. ASSUME NEW i \in 0 .. n - 1, i \in T PROVE i + 1 \in T
  <2> DEFINE q == n - (i + 1)
  <2>1. q \in 0 .. n - 1 /\ q + 1 = n - i /\ q + 1 \in 0 .. n /\ i + 1 \in 0 .. n
    BY <1>1
  <2>2. Right(q + 1)
    BY <1>3, <2>1
  <2> HIDE DEF q
  <2>3. from[q] = Starts(pattern[q + 1], text, from[q + 1]) /\ from[q + 1] \subseteq 0 .. Len(text)
    BY <2>1 DEF IsFrom
  <2>4. Len(text) \in from[q] <=> pattern[q + 1] = "*" /\ Len(text) \in from[q + 1]
    BY <1>1, <2>3 DEF Starts
  <2>5. (\A k \in q + 1 .. n : pattern[k] = "*") <=>
          pattern[q + 1] = "*" /\ \A k \in (q + 1) + 1 .. n : pattern[k] = "*"
    <3>1. \A k \in q + 1 .. n : k = q + 1 \/ k \in (q + 1) + 1 .. n
      BY <1>1, <2>1
    <3>2. q + 1 \in q + 1 .. n /\ \A k \in (q + 1) + 1 .. n : k \in q + 1 .. n
      BY <1>1, <2>1
    <3> QED
      BY <3>1, <3>2, Zenon
  <2>6. Right(q)
    BY <2>2, <2>4, <2>5
  <2> QED
    BY <2>1, <2>6 DEF q
<1> HIDE DEF T, Right
<1>4. 0 .. n \subseteq T
  BY <1>1, <1>2, <1>3, UpTo, Zenon
<1>5. n - p \in T /\ n - (n - p) = p
  BY <1>1, <1>4
<1>6. Right(p)
  BY <1>5 DEF T
<1> QED
  BY <1>6 DEF Right

-----------------------------------------------------------------------------
(* What the loop keeps: since the last star each character of the pattern    *)
(* took one of the text, and the pattern matches if it does from here, or if *)
(* the last star takes more.                                                 *)
GlobInv(l, from, pattern, n, m) ==
  /\ l \in Positions
  /\ l.failed => 0 \notin from[0]
  /\ ~l.failed =>
       /\ l.p \in 0 .. n /\ l.t \in 0 .. m
       /\ l.star_p \in -1 .. l.p - 1 /\ l.star_t \in 0 .. l.t
       /\ l.p - (l.star_p + 1) = l.t - l.star_t
       /\ \A k \in l.star_p + 2 .. l.p : pattern[k] # "*"
       /\ 0 \in from[0] <=>
            \/ l.t \in from[l.p]
            \/ l.star_p >= 0 /\ \E i \in from[l.star_p + 1] : i > l.star_t

(* A pattern and a text as the code has them, and where they match.          *)
IsCase(pattern, text, n, m, from) ==
  /\ n = Len(pattern) /\ n \in Nat /\ m = Len(text) /\ m \in Nat
  /\ \A k \in 1 .. m : text[k] # "*"
  /\ IsFrom(from, pattern, text)

(* The positions that the invariant allows.                                  *)
LEMMA PlacesAre ==
  ASSUME NEW pattern, NEW text, NEW n, NEW m, NEW from, IsCase(pattern, text, n, m, from),
         NEW l, GlobInv(l, from, pattern, n, m), ~l.failed
  PROVE  /\ n \in Nat /\ m \in Nat /\ l.p \in 0 .. n /\ l.t \in 0 .. m
         /\ l.star_p \in -1 .. l.p - 1 /\ l.star_t \in 0 .. l.t
         /\ l.p \in Int /\ l.t \in Int /\ l.star_p \in Int /\ l.star_t \in Int
<1>1. /\ n \in Nat /\ m \in Nat /\ l.p \in 0 .. n /\ l.t \in 0 .. m
      /\ l.star_p \in -1 .. l.p - 1 /\ l.star_t \in 0 .. l.t
  BY Zenon DEF GlobInv, IsCase
<1> QED
  BY ONLY <1>1

(* What is behind the last star matches only behind where it matches now: if *)
(* the star takes more, the rest starts later.                               *)
LEMMA Later ==
  ASSUME NEW pattern, NEW text, NEW n, NEW m, NEW from, IsCase(pattern, text, n, m, from),
         NEW l, GlobInv(l, from, pattern, n, m), ~l.failed, l.star_p >= 0,
         NEW i \in from[l.star_p + 1], i > l.star_t
  PROVE  \E j \in from[l.p] : j > l.t
<1> DEFINE a == l.star_p + 1
<1>1. /\ l.p \in Int /\ l.t \in Int /\ l.star_p \in Int /\ l.star_t \in Int
      /\ n \in Nat /\ m \in Nat
  BY PlacesAre
<1>2. a \in 0 .. n /\ l.p \in a .. n
  BY <1>1 DEF GlobInv
<1>3. \A k \in a + 1 .. l.p : pattern[k] # "*"
  BY <1>1 DEF GlobInv
<1> HIDE DEF a
<1>4. i \in Nat /\ i + (l.p - a) \in from[l.p]
  BY <1>1, <1>2, <1>3, PlainBlock, Zenon DEF IsCase, a
<1>5. i + (l.p - a) > l.t
  BY <1>1, <1>4 DEF GlobInv, a
<1> QED
  BY <1>4, <1>5

(* A character that matches.                                                 *)
LEMMA MatchKeeps ==
  ASSUME NEW pattern, NEW text, NEW n, NEW m, NEW from, IsCase(pattern, text, n, m, from),
         NEW l, GlobInv(l, from, pattern, n, m), ~l.failed, l.t < m,
         l.p < n, pattern[l.p + 1] \in {"?", text[l.t + 1]}
  PROVE  GlobInv(At(l.p + 1, l.t + 1, l.star_p, l.star_t), from, pattern, n, m)
<1> DEFINE next == At(l.p + 1, l.t + 1, l.star_p, l.star_t)
<1>1. /\ l.p \in 0 .. n - 1 /\ l.t \in 0 .. m - 1 /\ l.star_p \in Int /\ l.star_t \in Int
      /\ n \in Nat /\ m \in Nat
  BY PlacesAre
<1>2. pattern[l.p + 1] # "*"
  BY <1>1 DEF IsCase
<1>3. l.t \in from[l.p] <=> l.t + 1 \in from[l.p + 1]
  BY <1>1, <1>2, Zenon DEF IsCase, IsFrom, Starts
<1>4. /\ next.p = l.p + 1 /\ next.t = l.t + 1 /\ next.star_p = l.star_p /\ next.star_t = l.star_t
  BY DEF At
<1>5. ~next.failed /\ next \in Positions
  BY <1>1 DEF At, Positions
<1>6. \A k \in l.star_p + 2 .. l.p + 1 : pattern[k] # "*"
  <2>1. \A k \in l.star_p + 2 .. l.p + 1 : k \in l.star_p + 2 .. l.p \/ k = l.p + 1
    BY <1>1
  <2> QED
    BY <1>2, <2>1 DEF GlobInv
<1> HIDE DEF next
<1>7. l.star_p \in -1 .. l.p - 1 /\ l.star_t \in 0 .. l.t /\ l.p - (l.star_p + 1) = l.t - l.star_t
  BY DEF GlobInv
<1>8. (l.p + 1) - (l.star_p + 1) = (l.t + 1) - l.star_t
  BY <1>1, <1>7
<1>9. /\ l.p + 1 \in 0 .. n /\ l.t + 1 \in 0 .. m
      /\ l.star_p \in -1 .. (l.p + 1) - 1 /\ l.star_t \in 0 .. l.t + 1
  BY <1>1, <1>7
<1>10. 0 \in from[0] <=> \/ next.t \in from[next.p]
                         \/ next.star_p >= 0 /\ \E i \in from[next.star_p + 1] : i > next.star_t
  BY <1>3, <1>4 DEF GlobInv
<1>11. GlobInv(next, from, pattern, n, m)
  BY <1>4, <1>5, <1>6, <1>8, <1>9, <1>10, Zenon DEF GlobInv
<1> QED
  BY <1>11 DEF next

(* A star: what the last one could still take, this one can.                 *)
LEMMA StarKeeps ==
  ASSUME NEW pattern, NEW text, NEW n, NEW m, NEW from, IsCase(pattern, text, n, m, from),
         NEW l, GlobInv(l, from, pattern, n, m), ~l.failed,
         l.p < n, pattern[l.p + 1] = "*"
  PROVE  GlobInv(At(l.p + 1, l.t, l.p, l.t), from, pattern, n, m)
<1> DEFINE next == At(l.p + 1, l.t, l.p, l.t)
<1>1. /\ l.p \in 0 .. n - 1 /\ l.t \in 0 .. m
      /\ n \in Nat /\ m \in Nat
  BY PlacesAre
<1>2. /\ from[l.p] = {i \in 0 .. m : \E j \in from[l.p + 1] : i <= j}
      /\ from[l.p + 1] \subseteq 0 .. m
  <2>1. l.p + 1 \in 0 .. n /\ n = Len(pattern) /\ m = Len(text)
    BY <1>1 DEF IsCase
  <2>2. from[l.p] = Starts("*", text, from[l.p + 1]) /\ from[l.p + 1] \subseteq 0 .. m
    BY <1>1, <2>1 DEF IsCase, IsFrom
  <2> QED
    BY <2>1, <2>2 DEF Starts
<1>3. l.t \in from[l.p] <=> l.t \in from[l.p + 1] \/ \E i \in from[l.p + 1] : i > l.t
  BY <1>1, <1>2
<1>4. ASSUME l.star_p >= 0, NEW i \in from[l.star_p + 1], i > l.star_t PROVE l.t \in from[l.p]
  <2>1. PICK j \in from[l.p] : j > l.t
    BY <1>4, Later
  <2> QED
    BY <1>1, <1>2, <2>1
<1>5. /\ next.p = l.p + 1 /\ next.t = l.t /\ next.star_p = l.p /\ next.star_t = l.t
      /\ next.failed = FALSE /\ next \in Positions
  BY <1>1 DEF At, Positions
<1> HIDE DEF next
<1>6. 0 \in from[0] <=> l.t \in from[l.p]
  BY <1>4 DEF GlobInv
<1>7. \A k \in next.star_p + 2 .. next.p : pattern[k] # "*"
  BY <1>1, <1>5
<1>8. next.p \in 0 .. n /\ next.t \in 0 .. m /\ next.star_p \in -1 .. next.p - 1 /\ next.star_t \in 0 .. next.t
      /\ next.p - (next.star_p + 1) = next.t - next.star_t /\ next.star_p >= 0
  BY <1>1, <1>5
<1>9. GlobInv(next, from, pattern, n, m)
  BY <1>3, <1>5, <1>6, <1>7, <1>8 DEF GlobInv
<1> QED
  BY <1>9 DEF next

(* What does not match and is no star does not match from here.              *)
LEMMA NoMatchHere ==
  ASSUME NEW pattern, NEW text, NEW n, NEW m, NEW from, IsCase(pattern, text, n, m, from),
         NEW l, GlobInv(l, from, pattern, n, m), ~l.failed, l.t < m,
         l.p < n => pattern[l.p + 1] \notin {"?", "*", text[l.t + 1]}
  PROVE  l.t \notin from[l.p]
<1>1. /\ l.p \in 0 .. n /\ l.t \in 0 .. m - 1
      /\ n \in Nat /\ m \in Nat
  BY PlacesAre
<1>2. CASE l.p = n
  BY <1>1, <1>2 DEF IsCase, IsFrom
<1>3. CASE l.p # n
  <2>1. l.p \in 0 .. n - 1 /\ pattern[l.p + 1] \notin {"?", "*", text[l.t + 1]}
    BY <1>1, <1>3
  <2>2. from[l.p] = Starts(pattern[l.p + 1], text, from[l.p + 1])
    BY <2>1 DEF IsCase, IsFrom
  <2> QED
    BY <2>1, <2>2 DEF Starts
<1> QED
  BY <1>2, <1>3

(* The last star takes one character more.                                   *)
LEMMA RetryKeeps ==
  ASSUME NEW pattern, NEW text, NEW n, NEW m, NEW from, IsCase(pattern, text, n, m, from),
         NEW l, GlobInv(l, from, pattern, n, m), ~l.failed, l.t < m,
         l.t \notin from[l.p], l.star_p >= 0
  PROVE  GlobInv(At(l.star_p + 1, l.star_t + 1, l.star_p, l.star_t + 1), from, pattern, n, m)
<1> DEFINE next == At(l.star_p + 1, l.star_t + 1, l.star_p, l.star_t + 1)
<1>1. /\ l.p \in 0 .. n /\ l.t \in 0 .. m - 1 /\ l.star_p \in 0 .. l.p - 1 /\ l.star_t \in 0 .. l.t
      /\ n \in Nat /\ m \in Nat
  BY PlacesAre
<1>2. 0 \in from[0] <=> \E i \in from[l.star_p + 1] : i > l.star_t
  BY DEF GlobInv
<1>3. from[l.star_p + 1] \subseteq 0 .. m
  <2>1. l.star_p + 1 \in 0 .. n
    BY <1>1
  <2> QED
    BY <2>1 DEF IsCase, IsFrom
<1>4. (\E i \in from[l.star_p + 1] : i > l.star_t) <=>
        \/ l.star_t + 1 \in from[l.star_p + 1]
        \/ \E i \in from[l.star_p + 1] : i > l.star_t + 1
  BY <1>1, <1>3
<1>5. /\ next.p = l.star_p + 1 /\ next.t = l.star_t + 1 /\ next.star_p = l.star_p /\ next.star_t = l.star_t + 1
  BY DEF At
<1>10. ~next.failed /\ next \in Positions
  BY <1>1 DEF At, Positions
<1> HIDE DEF next
<1>6. \A k \in next.star_p + 2 .. next.p : pattern[k] # "*"
  BY <1>1, <1>5
<1>7. /\ l.star_p + 1 \in 0 .. n /\ l.star_t + 1 \in 0 .. m
      /\ l.star_p \in -1 .. (l.star_p + 1) - 1 /\ l.star_t + 1 \in 0 .. l.star_t + 1
      /\ (l.star_p + 1) - (l.star_p + 1) = (l.star_t + 1) - (l.star_t + 1) /\ l.star_p >= 0
  BY <1>1
<1>8. GlobInv(next, from, pattern, n, m)
  BY <1>2, <1>4, <1>5, <1>6, <1>7, <1>10, Zenon DEF GlobInv
<1> QED
  BY <1>8 DEF next

(* How much is left to do: what the last star can still take, times the      *)
(* length of the pattern, and what is left of the pattern.                   *)
Left(l, n, m) == (m - l.star_t) * (n + 1) + (n - l.p)

Done(l, m) == l.failed \/ l.t >= m

(* It is less behind a star, and if a star takes more.                       *)
LEMMA LessLeft ==
  ASSUME NEW n \in Nat, NEW m \in Nat
  PROVE  /\ \A x \in 0 .. n : \A y \in 0 .. x : (n - x) * (m + 1) <= (n - y) * (m + 1)
         /\ \A x \in 0 .. n - 1 : (n - (x + 1)) * (m + 1) = (n - x) * (m + 1) - (m + 1)
         /\ \A x \in 0 .. n : (n - x) * (m + 1) \in Nat
<1>1. \A a, c \in Nat : a * c \in Nat
  OBVIOUS
<1>2. \A a, d, c \in Nat : (a + d) * c = a * c + d * c
  OBVIOUS
<1>3. ASSUME NEW x \in 0 .. n, NEW y \in 0 .. x PROVE (n - x) * (m + 1) <= (n - y) * (m + 1)
  <2>1. n - x \in Nat /\ x - y \in Nat /\ n - y = (n - x) + (x - y) /\ m + 1 \in Nat
    OBVIOUS
  <2>2. (n - y) * (m + 1) = (n - x) * (m + 1) + (x - y) * (m + 1)
    BY <1>2, <2>1
  <2>3. (x - y) * (m + 1) \in Nat /\ (n - x) * (m + 1) \in Nat
    BY <1>1, <2>1
  <2> QED
    BY <2>2, <2>3
<1>4. ASSUME NEW x \in 0 .. n - 1 PROVE (n - (x + 1)) * (m + 1) = (n - x) * (m + 1) - (m + 1)
  <2>1. n - (x + 1) \in Nat /\ n - x = (n - (x + 1)) + 1 /\ m + 1 \in Nat
    OBVIOUS
  <2>2. (n - x) * (m + 1) = (n - (x + 1)) * (m + 1) + 1 * (m + 1)
    BY <1>2, <2>1
  <2>3. (n - (x + 1)) * (m + 1) \in Nat
    BY <1>1, <2>1
  <2> QED
    BY <2>2, <2>3
<1>5. ASSUME NEW x \in 0 .. n PROVE (n - x) * (m + 1) \in Nat
  <2>1. n - x \in Nat /\ m + 1 \in Nat
    OBVIOUS
  <2> QED
    BY <1>1, <2>1
<1> QED
  BY <1>3, <1>4, <1>5

(* An iteration keeps the invariant, and leaves less to do.                  *)
LEMMA IterateKeeps ==
  ASSUME NEW pattern, NEW text, NEW n, NEW m, NEW from, IsCase(pattern, text, n, m, from),
         NEW l, GlobInv(l, from, pattern, n, m)
  PROVE  LET next == Iterate(pattern, text, l)
         IN  /\ GlobInv(next, from, pattern, n, m)
             /\ Done(l, m) => next = l
             /\ ~Done(l, m) => next.failed \/ Left(next, n, m) < Left(l, n, m)
<1> DEFINE next == Iterate(pattern, text, l)
           Good == /\ GlobInv(next, from, pattern, n, m)
                   /\ Done(l, m) => next = l
                   /\ ~Done(l, m) => next.failed \/ Left(next, n, m) < Left(l, n, m)
           left == l.p < n
           matched == left /\ pattern[l.p + 1] \in {"?", text[l.t + 1]}
           starred == left /\ pattern[l.p + 1] = "*"
<1>0. n = Len(pattern) /\ m = Len(text)
  BY DEF IsCase
<1>1. CASE Done(l, m)
  BY <1>0, <1>1, Zenon DEF Done, Iterate
<1>2. CASE ~Done(l, m)
  <2>1. /\ ~l.failed /\ l.t < m /\ l.p \in 0 .. n /\ l.t \in 0 .. m
        /\ l.star_p \in -1 .. l.p - 1 /\ l.star_t \in 0 .. l.t
        /\ n \in Nat /\ m \in Nat
    BY <1>2 DEF Done, GlobInv, IsCase, Positions
  <2>2. CASE matched
    <3>1. next = At(l.p + 1, l.t + 1, l.star_p, l.star_t)
      BY <1>0, <1>2, <2>2, Zenon DEF Iterate, Done
    <3>2. GlobInv(next, from, pattern, n, m)
      BY <2>1, <2>2, <3>1, MatchKeeps
    <3>3. next.star_t = l.star_t /\ next.p = l.p + 1
      BY <3>1 DEF At
    <3> HIDE DEF next
    <3>4. Left(next, n, m) < Left(l, n, m)
      BY <2>1, <3>3 DEF Left
    <3> QED
      BY <1>2, <3>2, <3>4 DEF next
  <2>3. CASE ~matched /\ starred
    <3>1. next = At(l.p + 1, l.t, l.p, l.t)
      BY <1>0, <1>2, <2>3, Zenon DEF Iterate, Done
    <3>2. GlobInv(next, from, pattern, n, m)
      BY <2>1, <2>3, <3>1, StarKeeps
    <3>3. next.star_t = l.t /\ next.p = l.p + 1
      BY <3>1 DEF At
    <3> HIDE DEF next
    <3>4. Left(next, n, m) < Left(l, n, m)
      BY <2>1, <3>3, LessLeft DEF Left
    <3> QED
      BY <1>2, <3>2, <3>4 DEF next
  <2>4. CASE ~matched /\ ~starred
    <3>1. l.t \notin from[l.p]
      BY <2>1, <2>4, NoMatchHere
    <3>2. CASE l.star_p >= 0
      <4>1. next = At(l.star_p + 1, l.star_t + 1, l.star_p, l.star_t + 1)
        BY <1>0, <1>2, <2>4, <3>2, Zenon DEF Iterate, Done
      <4>2. GlobInv(next, from, pattern, n, m)
        BY <2>1, <3>1, <3>2, <4>1, RetryKeeps
      <4>3. next.star_t = l.star_t + 1 /\ next.p = l.star_p + 1
        BY <4>1 DEF At
      <4> HIDE DEF next
      <4>4. Left(next, n, m) < Left(l, n, m)
        BY <2>1, <3>2, <4>3, LessLeft DEF Left
      <4> QED
        BY <1>2, <4>2, <4>4 DEF next
    <3>3. CASE ~(l.star_p >= 0)
      <4>1. next = [l EXCEPT !.failed = TRUE]
        BY <1>0, <1>2, <2>4, <3>3, Zenon DEF Iterate, Done
      <4>2. next \in Positions /\ next.failed
        BY <4>1, Zenon DEF GlobInv, Positions
      <4>3. 0 \notin from[0]
        BY <2>1, <3>1, <3>3 DEF GlobInv
      <4> QED
        BY <1>2, <4>2, <4>3 DEF GlobInv
    <3> QED
      BY <3>2, <3>3
  <2> QED
    BY <2>2, <2>3, <2>4
<1> QED
  BY <1>1, <1>2

(* Something is left to do as long as the loop has not failed.               *)
LEMMA LeftIs ==
  ASSUME NEW pattern, NEW text, NEW n, NEW m, NEW from, IsCase(pattern, text, n, m, from),
         NEW l, GlobInv(l, from, pattern, n, m), ~l.failed
  PROVE  Left(l, n, m) \in Nat
<1>1. n \in Nat /\ m \in Nat /\ l.p \in 0 .. n /\ l.t \in 0 .. m /\ l.star_t \in 0 .. l.t
  BY PlacesAre
<1>2. l.star_t \in 0 .. m
  BY <1>1
<1>3. (m - l.star_t) * (n + 1) \in Nat
  BY <1>1, <1>2, LessLeft
<1> QED
  BY <1>1, <1>3 DEF Left

(* When the loop is over the pattern matches if only stars are left of it.   *)
LEMMA OverIsRight ==
  ASSUME NEW pattern, NEW text, NEW n, NEW m, NEW from, IsCase(pattern, text, n, m, from),
         NEW l, GlobInv(l, from, pattern, n, m), Done(l, m)
  PROVE  0 \in from[0] <=> ~l.failed /\ \A k \in l.p + 1 .. n : pattern[k] = "*"
<1>1. CASE l.failed
  BY <1>1 DEF GlobInv
<1>2. CASE ~l.failed
  <2>1. /\ n \in Nat /\ m \in Nat /\ l.p \in 0 .. n /\ l.t \in 0 .. m /\ l.t >= m
        /\ n = Len(pattern) /\ m = Len(text)
    BY <1>2 DEF GlobInv, IsCase, Done
  <2>2. l.t = m
    BY <2>1
  <2>3. from[l.p] \subseteq 0 .. m
    BY <2>1 DEF IsCase, IsFrom
  <2>4. ~ (l.star_p >= 0 /\ \E i \in from[l.star_p + 1] : i > l.star_t)
    <3>1. SUFFICES ASSUME l.star_p >= 0, NEW i \in from[l.star_p + 1], i > l.star_t PROVE FALSE
      OBVIOUS
    <3>2. PICK j \in from[l.p] : j > l.t
      BY <1>2, <3>1, Later
    <3> QED
      BY <2>1, <2>2, <2>3, <3>2
  <2>5. 0 \in from[0] <=> m \in from[l.p]
    BY <1>2, <2>2, <2>4 DEF GlobInv
  <2>6. m \in from[l.p] <=> \A k \in l.p + 1 .. n : pattern[k] = "*"
    <3>1. /\ IsFrom(from, pattern, text) /\ Len(pattern) \in Nat /\ Len(text) \in Nat
          /\ l.p \in 0 .. Len(pattern)
      BY <2>1 DEF IsCase
    <3>2. Len(text) \in from[l.p] <=> \A k \in l.p + 1 .. Len(pattern) : pattern[k] = "*"
      BY ONLY <3>1, OnlyStars
    <3> QED
      BY <2>1, <3>2, Zenon
  <2> QED
    BY <1>2, <2>5, <2>6
<1> QED
  BY <1>1, <1>2

(* The loop with one star to go back to decides what the pattern matches.    *)
LEMMA AllGlobsRight ==
  ASSUME NEW pattern, NEW text, IsList(pattern), IsName(text)
  PROVE  GlobRight(pattern, text)
<1> DEFINE n == Len(pattern)
           m == Len(text)
           N == Iterations(pattern, text)
<1>1. n \in Nat /\ m \in Nat /\ DOMAIN text = 1 .. m
  BY DEF IsList, IsName
<1>2. PICK from : IsFrom(from, pattern, text) /\ (Matches(pattern, text) <=> 0 \in from[0])
  BY <1>1, MatchesFrom
<1>3. IsCase(pattern, text, n, m, from)
  BY <1>1, <1>2 DEF IsCase, IsName
<1>4. PICK loop \in [0 .. N -> Positions] :
        /\ loop[0] = At(0, 0, -1, 0)
        /\ \A k \in 1 .. N : loop[k] = Iterate(pattern, text, loop[k - 1])
        /\ glob_match(pattern, text) <=>
             ~loop[N].failed /\ \A k \in loop[N].p + 1 .. n : pattern[k] = "*"
  BY <1>1, GlobLoop
<1> DEFINE Good(k) == /\ GlobInv(loop[k], from, pattern, n, m)
                      /\ Done(loop[k], m) \/ Left(loop[k], n, m) + k < N
           T == {k \in 0 .. N : Good(k)}
<1>5. N = (m + 1) * (n + 1)
  BY DEF Iterations
<1> HIDE DEF n, m, N
<1>6. N \in Nat /\ N = m * (n + 1) + (n + 1)
  <2>1. m + 1 \in Nat /\ 0 \in 0 .. (m + 1) - 1
    BY <1>1
  <2>2. /\ ((m + 1) - (0 + 1)) * (n + 1) = ((m + 1) - 0) * (n + 1) - (n + 1)
        /\ ((m + 1) - 0) * (n + 1) \in Nat
    BY <1>1, <2>1, LessLeft
  <2>3. (m + 1) - (0 + 1) = m /\ (m + 1) - 0 = m + 1
    BY <1>1
  <2> QED
    BY <1>1, <1>5, <2>2, <2>3
<1>7. 0 \in T
  <2> DEFINE l == At(0, 0, -1, 0)
  <2>1. l.p = 0 /\ l.t = 0 /\ l.star_p = -1 /\ l.star_t = 0 /\ ~l.failed /\ l \in Positions
    BY DEF At, Positions
  <2> HIDE DEF l
  <2>2. GlobInv(l, from, pattern, n, m)
    <3>1. /\ l.p \in 0 .. n /\ l.t \in 0 .. m /\ l.star_p \in -1 .. l.p - 1 /\ l.star_t \in 0 .. l.t
          /\ l.p - (l.star_p + 1) = l.t - l.star_t /\ ~(l.star_p >= 0)
      BY <1>1, <2>1
    <3>2. \A k \in l.star_p + 2 .. l.p : FALSE
      BY <2>1
    <3>3. 0 \in from[0] <=> l.t \in from[l.p]
      BY <2>1
    <3> QED
      BY <2>1, <3>1, <3>2, <3>3 DEF GlobInv
  <2>3. Left(l, n, m) = (m - 0) * (n + 1) + (n - 0)
    BY <2>1, Zenon DEF Left
  <2>4. m - 0 = m /\ n - 0 = n
    BY <1>1
  <2>5. m * (n + 1) \in Int
    BY <1>1
  <2>6. Left(l, n, m) + 0 < N
    BY <1>1, <1>6, <2>3, <2>4, <2>5
  <2> QED
    BY <1>4, <1>6, <2>2, <2>6 DEF l
<1>8. ASSUME NEW k \in 0 .. N - 1, k \in T PROVE k + 1 \in T
  <2> DEFINE l == loop[k]
             next == Iterate(pattern, text, l)
  <2>1. k + 1 \in 1 .. N /\ k + 1 \in 0 .. N /\ (k + 1) - 1 = k
    BY <1>6
  <2>2. loop[k + 1] = next
    BY <1>4, <2>1
  <2>3. GlobInv(l, from, pattern, n, m) /\ (Done(l, m) \/ Left(l, n, m) + k < N)
    BY <1>8
  <2> HIDE DEF l, next
  <2>4. /\ GlobInv(next, from, pattern, n, m)
        /\ Done(l, m) => next = l
        /\ ~Done(l, m) => next.failed \/ Left(next, n, m) < Left(l, n, m)
    BY <1>3, <2>3, IterateKeeps DEF next
  <2>5. Done(next, m) \/ Left(next, n, m) + (k + 1) < N
    <3>1. CASE Done(l, m)
      BY <2>4, <3>1
    <3>2. CASE next.failed
      BY <3>2 DEF Done
    <3>3. CASE ~Done(l, m) /\ ~next.failed
      <4>1. Left(l, n, m) \in Nat /\ Left(next, n, m) \in Nat
        BY <1>3, <2>3, <2>4, <3>3, LeftIs DEF Done
      <4>2. Left(next, n, m) < Left(l, n, m) /\ Left(l, n, m) + k < N
        BY <2>3, <2>4, <3>3
      <4> QED
        BY <1>6, <4>1, <4>2
    <3> QED
      BY <3>1, <3>2, <3>3
  <2> QED
    BY <2>1, <2>2, <2>4, <2>5
<1> HIDE DEF T, Good
<1>9. 0 .. N \subseteq T
  BY <1>6, <1>7, <1>8, UpTo
<1>10. Good(N)
  BY <1>6, <1>9 DEF T
<1>11. GlobInv(loop[N], from, pattern, n, m) /\ Done(loop[N], m)
  <2>1. CASE ~Done(loop[N], m)
    <3>1. Left(loop[N], n, m) \in Nat
      BY <1>3, <1>10, <2>1, LeftIs DEF Good, Done
    <3> QED
      BY <1>6, <1>10, <2>1, <3>1 DEF Good
  <2> QED
    BY <1>10, <2>1 DEF Good
<1>12. 0 \in from[0] <=> ~loop[N].failed /\ \A k \in loop[N].p + 1 .. n : pattern[k] = "*"
  BY <1>3, <1>11, OverIsRight
<1> QED
  BY <1>2, <1>4, <1>12 DEF GlobRight

(* A name without stars, taken as a pattern, matches itself.                 *)
LEMMA MatchesItself ==
  ASSUME NEW name, IsName(name) PROVE glob_match(name, name)
<1> DEFINE n == Len(name)
<1>1. n \in Nat /\ DOMAIN name = 1 .. n
  BY DEF IsName, IsList
<1>2. PICK from : IsFrom(from, name, name) /\ (Matches(name, name) <=> 0 \in from[0])
  BY <1>1, MatchesFrom
<1>3. /\ from[n] = {n}
      /\ \A p \in 0 .. n - 1 : from[p] = Starts(name[p + 1], name, from[p + 1])
  BY <1>2 DEF IsFrom
<1>4. \A k \in 1 .. n : name[k] # "*"
  BY <1>1 DEF IsName
<1>5. \A c, next : c # "*" => Starts(c, name, next) = {i \in 0 .. n - 1 : c \in {"?", name[i + 1]} /\ i + 1 \in next}
  BY DEF Starts
<1> DEFINE T == {i \in 0 .. n : n - i \in from[n - i]}
<1> HIDE DEF n
<1>6. 0 \in T
  BY <1>1, <1>3
<1>7. ASSUME NEW k \in 0 .. n - 1, k \in T PROVE k + 1 \in T
  <2> DEFINE p == n - (k + 1)
  <2>1. p \in 0 .. n - 1 /\ p + 1 = n - k /\ p + 1 \in 1 .. n /\ k + 1 \in 0 .. n
    BY <1>1
  <2>2. p + 1 \in from[p + 1]
    BY <1>7, <2>1
  <2> HIDE DEF p
  <2>3. p \in from[p]
    BY <1>3, <1>4, <1>5, <2>1, <2>2
  <2> QED
    BY <2>1, <2>3 DEF p
<1> HIDE DEF T
<1>8. n \in T
  <2>1. 0 .. n \subseteq T
    BY <1>1, <1>6, <1>7, UpTo
  <2> QED
    BY <1>1, <2>1
<1>9. 0 \in from[0]
  <2>1. n - n = 0
    BY <1>1
  <2> QED
    BY <1>8, <2>1 DEF T
<1>10. GlobRight(name, name)
  BY AllGlobsRight DEF IsName
<1> QED
  BY <1>2, <1>9, <1>10 DEF GlobRight

(* The name of an interface matches those of all its aliases.                *)
LEMMA MatchesAliases ==
  ASSUME NEW a, IsName(a.interface), NEW name, OnInterface(a, name)
  PROVE  matches_name(name, a.interface)
<1> DEFINE text == a.interface
<1>1. CASE text = name
  BY <1>1, MatchesItself DEF matches_name
<1>2. CASE text # name
  <2>1. PICK k \in DOMAIN text : text[k] = ":" /\ SubSeq(text, 1, k - 1) = name
    BY <1>2 DEF OnInterface
  <2>2. \A i \in DOMAIN name : name[i] # ":"
    BY <1>2 DEF OnInterface
  <2> DEFINE S == {text[i] : i \in DOMAIN text}
  <2>3. text \in Seq(S) /\ Len(text) \in Nat /\ DOMAIN text = 1 .. Len(text)
    BY DEF IsName, IsList
  <2>4. name = [i \in 1 .. k - 1 |-> text[i]]
    <3>1. k \in 1 .. Len(text) /\ k - 1 <= Len(text)
      BY <2>1, <2>3
    <3> QED
      BY <2>1, <2>3, <3>1
  <2>5. k \in Nat /\ k - 1 \in Nat /\ 1 .. k - 1 \subseteq DOMAIN text
    BY <2>1, <2>3
  <2>6. DOMAIN name = 1 .. k - 1 /\ \A i \in 1 .. k - 1 : name[i] = text[i]
    BY <2>4
  <2>7. name \in InterfaceOf(text)
    <3>1. \A i \in 1 .. k - 1 : text[i] # ":"
      BY <2>2, <2>6
    <3> QED
      BY <2>1, <3>1 DEF InterfaceOf
  <2>8. IsName(name)
    <3>1. \A i \in DOMAIN name : name[i] # "*"
      BY <2>5, <2>6 DEF IsName
    <3> DEFINE N == {name[i] : i \in DOMAIN name}
    <3>2. name \in [1 .. k - 1 -> N]
      BY <2>4, <2>6
    <3> HIDE DEF N
    <3>3. name \in Seq(N)
      BY <2>5, <3>2
    <3> QED
      BY <3>1, <3>3 DEF IsName, IsList, N
  <2>9. glob_match(name, name)
    BY <2>8, MatchesItself
  <2> QED
    BY <2>7, <2>9 DEF matches_name
<1> QED
  BY <1>1, <1>2

(* The values of a function on a finite set are finitely many.               *)
LEMMA FiniteImage ==
  ASSUME NEW S, IsFiniteSet(S), NEW f, DOMAIN f = S
  PROVE  IsFiniteSet({f[x] : x \in S})
<1> DEFINE g == [x \in S |-> f[x]]
           T == {f[x] : x \in S}
<1>1. g \in Surjection(S, T)
  BY DEF Surjection
<1> HIDE DEF g, T
<1>2. IsFiniteSet(T)
  BY <1>1, FS_Surjection
<1> QED
  BY <1>2 DEF T

(* The selection is right for every listing and all patterns.                *)
LEMMA AllSelectionsRight ==
  ASSUME NEW addrs, IsListing(addrs), NEW include, NEW exclude
  PROVE  SelectionRight(addrs, include, exclude)
<1> DEFINE Passes(a) == /\ a.ip \notin UnspecifiedIps
                        /\ Candidate(a, include)
                        /\ ~matches_any(exclude, a.interface)
           kept == {a \in Elements(addrs) : Passes(a)}
           S == {a.ip : a \in kept}
           chosen == select_sources(addrs, include, exclude)
<1>1. chosen = sorted(S)
  BY DEF select_sources
<1>2. \A a \in Elements(addrs) : IsName(a.interface) /\ a.ip \in Nat
  BY DEF IsListing, Elements
<1>3. IsFiniteSet(Elements(addrs))
  <2>1. Len(addrs) \in Nat /\ DOMAIN addrs = 1 .. Len(addrs)
    BY DEF IsListing, IsList
  <2>2. IsFiniteSet(DOMAIN addrs)
    BY <2>1, FS_Interval
  <2> QED
    BY <2>2, FiniteImage DEF Elements
<1>4. S \in SUBSET Nat /\ IsFiniteSet(S)
  <2>1. IsFiniteSet(kept)
    BY <1>3, FS_Subset
  <2> HIDE DEF kept
  <2>2. IsFiniteSet(S)
    <3> DEFINE ip == [a \in kept |-> a.ip]
    <3>1. {ip[a] : a \in kept} = S /\ DOMAIN ip = kept
      OBVIOUS
    <3> HIDE DEF ip, S
    <3>2. IsFiniteSet({ip[a] : a \in kept})
      BY <2>1, <3>1, FiniteImage
    <3> QED
      BY <3>1, <3>2
  <2>3. S \in SUBSET Nat
    BY <1>2 DEF kept
  <2> QED
    BY <2>2, <2>3
<1>5. \A c : c \in S <=> \E a \in Elements(addrs) : a.ip = c /\ Passes(a)
  OBVIOUS
<1> HIDE DEF S, chosen, Passes, kept
<1>6. /\ \A k \in DOMAIN chosen : chosen[k] \in S
      /\ \A c \in S : \E k \in DOMAIN chosen : chosen[k] = c
      /\ \A i, j \in DOMAIN chosen : i < j => chosen[i] < chosen[j]
  BY <1>1, <1>4, SortedIs
<1>7. ASSUME NEW k \in DOMAIN chosen
      PROVE  \E a \in Elements(addrs) :
               a.ip = chosen[k] /\ \A name \in exclude : ~OnInterface(a, name)
  <2>1. PICK a \in Elements(addrs) : a.ip = chosen[k] /\ Passes(a)
    BY <1>5, <1>6
  <2>2. \A name \in exclude : ~matches_name(name, a.interface)
    BY <2>1 DEF Passes, matches_any
  <2>3. \A name \in exclude : ~OnInterface(a, name)
    BY <1>2, <2>2, MatchesAliases
  <2> QED
    BY <2>1, <2>3
<1>8. ASSUME NEW a \in Elements(addrs), \E name \in include : OnInterface(a, name),
             a.ip \notin UnspecifiedIps, ~matches_any(exclude, a.interface)
      PROVE  \E k \in DOMAIN chosen : chosen[k] = a.ip
  <2>1. PICK name \in include : OnInterface(a, name)
    BY <1>8
  <2>2. matches_name(name, a.interface)
    BY <1>2, <2>1, MatchesAliases
  <2>3. Candidate(a, include)
    BY <2>2 DEF Candidate, matches_any
  <2>4. Passes(a)
    BY <1>8, <2>3 DEF Passes
  <2> QED
    BY <1>5, <1>6, <2>4
<1>9. ASSUME include = {}, NEW k \in DOMAIN chosen
      PROVE  chosen[k] \notin LoopbackIps \cup LinkLocalIps
  <2>1. PICK a \in Elements(addrs) : a.ip = chosen[k] /\ Passes(a)
    BY <1>5, <1>6
  <2>2. Candidate(a, include)
    BY <2>1 DEF Passes
  <2> QED
    BY <1>9, <2>1, <2>2 DEF Candidate
<1> QED
  BY <1>6, <1>7, <1>8, <1>9 DEF SelectionRight, chosen

-----------------------------------------------------------------------------
(* What the loop over the headers knows.                                     *)
Loops == [is : {"Reading", "Ok", "Malformed"}, budget : Int, bytes : Int]

(* Lines as the loop reads them.                                             *)
SomeLines(lines) == Len(lines) \in Nat /\ \A k \in 1 .. Len(lines) : lines[k].len \in Nat \ {0}

(* An iteration of the loop.                                                 *)
LEMMA NextHeaderIs ==
  ASSUME NEW loop \in Loops, NEW line, line.len \in Nat \ {0}
  PROVE  LET next == NextHeader(loop, line)
             cap  == Smaller(loop.budget, MAX_REQUEST_LINE_BYTES)
         IN  /\ next \in Loops
             /\ loop.is # "Reading" => next = loop
             /\ loop.is = "Reading" =>
                  \/ /\ loop.budget = 0 \/ TooLong(line, cap)
                     /\ next.is = "Malformed" /\ next.budget = loop.budget
                     /\ next.bytes = loop.bytes + cap
                  \/ /\ loop.budget # 0 /\ ~TooLong(line, cap)
                     /\ next.is = (IF line.blank THEN "Ok" ELSE "Reading")
                     /\ next.budget = loop.budget - line.len
                     /\ next.bytes = loop.bytes + line.len
<1> DEFINE next == NextHeader(loop, line)
           cap  == Smaller(loop.budget, MAX_REQUEST_LINE_BYTES)
<1>1. cap \in Int /\ loop.budget \in Int /\ loop.bytes \in Int
  BY RequestAssumption DEF Smaller, Loops
<1>2. CASE loop.is # "Reading"
  BY <1>2 DEF NextHeader
<1>3. CASE loop.is = "Reading" /\ (loop.budget = 0 \/ TooLong(line, cap))
  <2>1. next = [is |-> "Malformed", budget |-> loop.budget, bytes |-> loop.bytes + cap]
    BY <1>3 DEF NextHeader
  <2> HIDE DEF next, cap
  <2>2. next \in Loops /\ next.is = "Malformed" /\ next.budget = loop.budget /\ next.bytes = loop.bytes + cap
    BY <1>1, <2>1 DEF Loops
  <2> QED
    BY <1>3, <2>2 DEF next, cap
<1>4. CASE loop.is = "Reading" /\ loop.budget # 0 /\ ~TooLong(line, cap)
  <2>1. next = [is     |-> IF line.blank THEN "Ok" ELSE "Reading",
                budget |-> loop.budget - line.len,
                bytes  |-> loop.bytes + line.len]
    BY <1>4 DEF NextHeader
  <2>2. /\ next.is = (IF line.blank THEN "Ok" ELSE "Reading")
        /\ next.budget = loop.budget - line.len /\ next.bytes = loop.bytes + line.len
        /\ next \in Loops
    BY <1>1, <2>1 DEF Loops
  <2> QED
    BY <1>4, <2>2
<1> QED
  BY <1>2, <1>3, <1>4

(* The loop runs: what it knows after each line, and what it returns.        *)
LEMMA HeadersLoop ==
  ASSUME NEW lines, SomeLines(lines), NEW first \in Nat
  PROVE  \E loop \in [0 .. Len(lines) -> Loops] :
           /\ loop[0] = [is |-> "Reading", budget |-> MAX_HEADER_BYTES, bytes |-> first]
           /\ \A k \in 1 .. Len(lines) : loop[k] = NextHeader(loop[k - 1], lines[k])
           /\ ReadHeaders(lines, first) =
                LET last == loop[Len(lines)]
                IN  Outcome(IF last.is = "Reading" /\ last.budget # 0 THEN "Ok"
                            ELSE IF last.is = "Reading" THEN "Malformed"
                            ELSE last.is,
                            last.bytes)
<1> DEFINE n == Len(lines)
           start == [is |-> "Reading", budget |-> MAX_HEADER_BYTES, bytes |-> first]
           Run(g) == g = [k \in 0 .. n |-> IF k = 0 THEN start ELSE NextHeader(g[k - 1], lines[k])]
           loop == CHOOSE g : Run(g)
           step == [k \in 1 .. n |-> [x \in Loops |-> NextHeader(x, lines[k])]]
<1>1. n \in Nat /\ start \in Loops
  BY RequestAssumption DEF SomeLines, Loops
<1>2. step \in [1 .. n -> [Loops -> Loops]]
  BY NextHeaderIs DEF SomeLines
<1>3. \A x \in Loops, k \in 1 .. n : step[k][x] = NextHeader(x, lines[k])
  OBVIOUS
<1>4. ReadHeaders(lines, first) =
        LET last == loop[n]
        IN  Outcome(IF last.is = "Reading" /\ last.budget # 0 THEN "Ok"
                    ELSE IF last.is = "Reading" THEN "Malformed"
                    ELSE last.is,
                    last.bytes)
  BY Zenon DEF ReadHeaders
<1> HIDE DEF n, start, step
<1>5. PICK g : IsRun(g, n, Loops, start, step)
  BY <1>1, <1>2, LoopRuns
<1>6. Run(g)
  <2>1. \A k \in 0 .. n : g[k] = IF k = 0 THEN start ELSE NextHeader(g[k - 1], lines[k])
    <3>1. ASSUME NEW k \in 0 .. n, k # 0 PROVE g[k] = NextHeader(g[k - 1], lines[k])
      <4>1. k \in 1 .. n /\ g[k - 1] \in Loops
        BY <1>1, <1>5, <3>1 DEF IsRun
      <4> QED
        BY <1>3, <1>5, <4>1 DEF IsRun
    <3> QED
      BY <1>5, <3>1 DEF IsRun
  <2> QED
    BY <1>5, <2>1 DEF IsRun
<1>7. Run(loop)
  BY <1>6, Zenon
<1> HIDE DEF loop
<1>8. loop[0] = start /\ \A k \in 1 .. n : loop[k] = NextHeader(loop[k - 1], lines[k])
  BY <1>1, <1>7
<1>9. \A k \in 0 .. n : loop[k] \in Loops
  <2> DEFINE T == {k \in 0 .. n : loop[k] \in Loops}
  <2>1. 0 \in T
    BY <1>1, <1>8
  <2>2. ASSUME NEW k \in 0 .. n - 1, k \in T PROVE k + 1 \in T
    <3>1. k + 1 \in 1 .. n /\ (k + 1) - 1 = k
      BY <1>1
    <3>2. loop[k + 1] = NextHeader(loop[k], lines[k + 1])
      BY <1>8, <3>1
    <3> QED
      BY <1>1, <2>2, <3>1, <3>2, NextHeaderIs DEF SomeLines, n
  <2> HIDE DEF T
  <2>3. 0 .. n \subseteq T
    BY <1>1, <2>1, <2>2, UpTo
  <2> QED
    BY <2>3 DEF T
<1>10. loop \in [0 .. n -> Loops]
  BY <1>7, <1>9
<1> QED
  BY <1>4, <1>8, <1>10 DEF n, start

(* The bytes of lines add up from the first to the last.                     *)
LEMMA BytesAddUp ==
  ASSUME NEW lines, SomeLines(lines)
  PROVE  \E sum \in [0 .. Len(lines) -> Nat] :
           /\ sum[0] = 0
           /\ \A k \in 1 .. Len(lines) : sum[k] = sum[k - 1] + lines[k].len
           /\ Bytes(lines) = sum[Len(lines)]
<1> DEFINE n == Len(lines)
           Run(g) == g = [k \in 0 .. n |-> IF k = 0 THEN 0 ELSE g[k - 1] + lines[k].len]
           sum == CHOOSE g : Run(g)
           step == [k \in 1 .. n |-> [x \in Nat |-> x + lines[k].len]]
<1>1. n \in Nat /\ step \in [1 .. n -> [Nat -> Nat]]
  BY DEF SomeLines
<1>2. \A x \in Nat, k \in 1 .. n : step[k][x] = x + lines[k].len
  OBVIOUS
<1>3. Bytes(lines) = sum[n]
  BY Zenon DEF Bytes
<1> HIDE DEF n, step
<1>4. PICK g : IsRun(g, n, Nat, 0, step)
  BY <1>1, LoopRuns, Zenon
<1>5. Run(g)
  <2>1. ASSUME NEW k \in 0 .. n, k # 0 PROVE g[k] = g[k - 1] + lines[k].len
    <3>1. n \in Nat /\ k \in 1 .. n /\ k - 1 \in 0 .. n
      BY <1>1, <2>1
    <3>2. g[k - 1] \in Nat
      BY <1>4, <3>1 DEF IsRun
    <3> QED
      BY <1>2, <1>4, <3>1, <3>2 DEF IsRun
  <2>2. \A k \in 0 .. n : g[k] = IF k = 0 THEN 0 ELSE g[k - 1] + lines[k].len
    BY <1>4, <2>1 DEF IsRun
  <2> QED
    BY <1>4, <2>2 DEF IsRun
<1>6. Run(sum)
  BY <1>5, Zenon
<1> HIDE DEF sum
<1>7. sum[0] = 0 /\ \A k \in 1 .. n : sum[k] = sum[k - 1] + lines[k].len
  <2>1. n \in Nat /\ 0 \in 0 .. n /\ \A k \in 1 .. n : k \in 0 .. n /\ k # 0
    BY <1>1
  <2> QED
    BY <1>6, <2>1, Zenon
<1>8. \A k \in 0 .. n : sum[k] \in Nat
  <2> DEFINE T == {k \in 0 .. n : sum[k] \in Nat}
  <2>1. 0 \in T /\ \A k \in 0 .. n - 1 : k \in T => k + 1 \in T
    BY <1>1, <1>7 DEF SomeLines, n
  <2> HIDE DEF T
  <2>2. 0 .. n \subseteq T
    BY <1>1, <2>1, UpTo, Zenon
  <2> QED
    BY <2>2 DEF T
<1>9. sum \in [0 .. n -> Nat]
  BY <1>6, <1>8
<1> QED
  BY <1>3, <1>7, <1>9 DEF n

(* No more is read than the limit, whatever the lines.                       *)
LEMMA HeadersBounded ==
  ASSUME NEW lines, SomeLines(lines), NEW first \in Nat
  PROVE  LET bytes == ReadHeaders(lines, first).bytes
         IN  bytes \in Int /\ bytes <= first + MAX_HEADER_BYTES
<1> DEFINE n == Len(lines)
<1>1. PICK loop \in [0 .. n -> Loops] :
        /\ loop[0] = [is |-> "Reading", budget |-> MAX_HEADER_BYTES, bytes |-> first]
        /\ \A k \in 1 .. n : loop[k] = NextHeader(loop[k - 1], lines[k])
        /\ ReadHeaders(lines, first).bytes = loop[n].bytes
  BY HeadersLoop DEF Outcome
<1> DEFINE Within(x) == /\ x \in Loops /\ x.budget >= 0 /\ x.bytes <= first + MAX_HEADER_BYTES
                        /\ x.is = "Reading" => x.bytes + x.budget = first + MAX_HEADER_BYTES
           T == {k \in 0 .. n : Within(loop[k])}
<1>2. n \in Nat /\ MAX_HEADER_BYTES \in Nat /\ MAX_REQUEST_LINE_BYTES \in Nat
  BY RequestAssumption DEF SomeLines
<1>3. 0 \in T
  BY <1>1, <1>2 DEF Loops
<1>4. ASSUME NEW k \in 0 .. n - 1, k \in T PROVE k + 1 \in T
  <2>1. k + 1 \in 1 .. n /\ k + 1 \in 0 .. n /\ (k + 1) - 1 = k
    BY <1>2
  <2> DEFINE x == loop[k]
             line == lines[k + 1]
             cap == Smaller(x.budget, MAX_REQUEST_LINE_BYTES)
  <2>2. line.len \in Nat \ {0} /\ Within(x) /\ loop[k + 1] = NextHeader(x, line)
    BY <1>1, <1>4, <2>1 DEF SomeLines
  <2> HIDE DEF x, line
  <2>3. /\ x.bytes \in Int /\ x.budget \in Int /\ cap \in Int
        /\ cap <= x.budget
        /\ ~TooLong(line, cap) => line.len <= cap
    BY <1>2, <2>2 DEF Loops, Smaller, TooLong
  <2> HIDE DEF cap
  <2>4. Within(NextHeader(x, line))
    <3>1. CASE x.is # "Reading"
      BY <2>2, <3>1, NextHeaderIs
    <3>2. CASE x.is = "Reading"
      <4> DEFINE next == NextHeader(x, line)
      <4>1. /\ next \in Loops
            /\ \/ next.is = "Malformed" /\ next.budget = x.budget /\ next.bytes = x.bytes + cap
               \/ ~TooLong(line, cap) /\ next.budget = x.budget - line.len /\ next.bytes = x.bytes + line.len
        BY <2>2, <3>2, NextHeaderIs DEF cap
      <4> HIDE DEF next
      <4> QED
        BY <1>2, <2>2, <2>3, <3>2, <4>1 DEF next
    <3> QED
      BY <3>1, <3>2
  <2> QED
    BY <2>1, <2>2, <2>4
<1> HIDE DEF T
<1>5. 0 .. n \subseteq T
  BY <1>2, <1>3, <1>4, UpTo, Zenon
<1>6. n \in T
  BY <1>2, <1>5
<1> QED
  BY <1>1, <1>6 DEF T, Loops

(* Headers of one blank line, at their end, are read if and only if each     *)
(* line and all of them are within the limits.                               *)
LEMMA HeadersAccepted ==
  ASSUME NEW lines, SomeLines(lines), NEW first \in Nat, Len(lines) >= 1,
         \A k \in 1 .. Len(lines) : lines[k].newline /\ (lines[k].blank <=> k = Len(lines))
  PROVE  ReadHeaders(lines, first).is = "Ok" <=>
           /\ \A k \in 1 .. Len(lines) : lines[k].len <= MAX_REQUEST_LINE_BYTES
           /\ Bytes(lines) <= MAX_HEADER_BYTES
<1> DEFINE n == Len(lines)
<1>1. PICK loop \in [0 .. n -> Loops] :
        /\ loop[0] = [is |-> "Reading", budget |-> MAX_HEADER_BYTES, bytes |-> first]
        /\ \A k \in 1 .. n : loop[k] = NextHeader(loop[k - 1], lines[k])
        /\ ReadHeaders(lines, first).is = IF loop[n].is = "Reading" /\ loop[n].budget # 0 THEN "Ok"
                                          ELSE IF loop[n].is = "Reading" THEN "Malformed"
                                          ELSE loop[n].is
  BY HeadersLoop DEF Outcome
<1>2. PICK sum \in [0 .. n -> Nat] :
        /\ sum[0] = 0 /\ \A k \in 1 .. n : sum[k] = sum[k - 1] + lines[k].len
        /\ Bytes(lines) = sum[n]
  BY BytesAddUp
<1> DEFINE Fit(k) == (\A i \in 1 .. k : lines[i].len <= MAX_REQUEST_LINE_BYTES) /\ sum[k] <= MAX_HEADER_BYTES
           State(k) == /\ loop[k].is = IF ~Fit(k) THEN "Malformed" ELSE IF k = n THEN "Ok" ELSE "Reading"
                       /\ Fit(k) => loop[k].budget = MAX_HEADER_BYTES - sum[k]
           T == {k \in 0 .. n : State(k)}
<1>3. n \in Nat /\ n >= 1 /\ MAX_HEADER_BYTES \in Nat /\ MAX_REQUEST_LINE_BYTES \in Nat
  BY RequestAssumption DEF SomeLines
<1>4. 0 \in T
  <2>1. Fit(0)
    BY <1>2, <1>3
  <2> QED
    BY <1>1, <1>2, <1>3, <2>1
<1>5. ASSUME NEW k \in 0 .. n - 1, k \in T PROVE k + 1 \in T
  <2>1. k + 1 \in 1 .. n /\ k + 1 \in 0 .. n /\ (k + 1) - 1 = k /\ k # n /\ k \in Nat
    BY <1>3
  <2> DEFINE x == loop[k]
             line == lines[k + 1]
             cap == Smaller(x.budget, MAX_REQUEST_LINE_BYTES)
             next == NextHeader(x, line)
  <2>2. /\ line.len \in Nat \ {0} /\ line.newline /\ (line.blank <=> k + 1 = n)
        /\ x \in Loops /\ loop[k + 1] = next
        /\ sum[k] \in Nat /\ sum[k + 1] = sum[k] + line.len
    <3>1. line.len \in Nat \ {0} /\ line.newline /\ (line.blank <=> k + 1 = n)
      BY <2>1 DEF SomeLines
    <3>2. k \in 0 .. n /\ loop[k + 1] = NextHeader(loop[(k + 1) - 1], lines[k + 1])
      BY <1>1, <2>1
    <3>3. sum[k] \in Nat /\ sum[k + 1] = sum[(k + 1) - 1] + lines[k + 1].len
      BY <1>2, <2>1, <3>2
    <3> HIDE DEF T
    <3> QED
      BY <1>1, <2>1, <3>1, <3>2, <3>3
  <2>3. Fit(k + 1) <=> Fit(k) /\ line.len <= MAX_REQUEST_LINE_BYTES /\ sum[k] + line.len <= MAX_HEADER_BYTES
    <3>1. \A i \in 1 .. k + 1 : i \in 1 .. k \/ i = k + 1
      BY <2>1
    <3>2. \A i \in 1 .. k : i \in 1 .. k + 1
      BY <2>1
    <3>3. k + 1 \in 1 .. k + 1
      BY <2>1
    <3> DEFINE Short(i) == lines[i].len <= MAX_REQUEST_LINE_BYTES
    <3>4. Short(k + 1) <=> line.len <= MAX_REQUEST_LINE_BYTES
      OBVIOUS
    <3>5. (\A i \in 1 .. k + 1 : Short(i)) <=> (\A i \in 1 .. k : Short(i)) /\ Short(k + 1)
      <4> HIDE DEF Short
      <4> QED
        BY <3>1, <3>2, <3>3
    <3>6. sum[k + 1] <= MAX_HEADER_BYTES =>
            sum[k] <= MAX_HEADER_BYTES /\ sum[k] + line.len <= MAX_HEADER_BYTES
      <4> HIDE DEF line
      <4>1. \A a, b, c \in Nat : a + b <= c => a <= c
        OBVIOUS
      <4> QED
        BY <1>3, <2>2, <4>1
    <3>7. sum[k + 1] = sum[k] + line.len
      BY <2>2
    <3> HIDE DEF line
    <3> QED
      BY <3>4, <3>5, <3>6, <3>7, Zenon
  <2>4. State(k)
    BY <1>5
  <2> HIDE DEF x, line, next, Fit
  <2>5. State(k + 1)
    <3>1. CASE ~Fit(k)
      <4>1. x.is = "Malformed"
        BY <2>4, <3>1 DEF x
      <4>2. next = x
        BY <2>2, <4>1, NextHeaderIs DEF next
      <4> QED
        BY <2>2, <2>3, <3>1, <4>1, <4>2
    <3>2. CASE Fit(k)
      <4>1. x.is = "Reading" /\ x.budget = MAX_HEADER_BYTES - sum[k]
        BY <2>1, <2>4, <3>2 DEF x
      <4>2. /\ \/ (x.budget = 0 \/ TooLong(line, cap)) /\ next.is = "Malformed"
               \/ /\ x.budget # 0 /\ ~TooLong(line, cap)
                  /\ next.is = (IF line.blank THEN "Ok" ELSE "Reading")
                  /\ next.budget = x.budget - line.len
        BY <2>2, <4>1, NextHeaderIs DEF next
      <4>3. Fit(k + 1) <=> x.budget # 0 /\ ~TooLong(line, cap)
        <5>1. ~TooLong(line, cap) <=> line.len <= cap
          BY <1>3, <2>2, <4>1 DEF TooLong, Smaller
        <5>2. line.len <= cap <=> line.len <= x.budget /\ line.len <= MAX_REQUEST_LINE_BYTES
          BY <1>3, <2>2, <4>1 DEF Smaller
        <5> QED
          BY <1>3, <2>2, <2>3, <3>2, <4>1, <5>1, <5>2
      <4>4. CASE Fit(k + 1)
        <5>1. next.is = (IF line.blank THEN "Ok" ELSE "Reading") /\ next.budget = x.budget - line.len
          BY <4>2, <4>3, <4>4
        <5>2. next.budget = MAX_HEADER_BYTES - sum[k + 1]
          BY <1>3, <2>2, <4>1, <5>1
        <5> QED
          BY <2>2, <4>4, <5>1, <5>2
      <4>5. CASE ~Fit(k + 1)
        BY <2>2, <4>2, <4>3, <4>5
      <4> QED
        BY <4>4, <4>5
    <3> QED
      BY <3>1, <3>2
  <2> QED
    BY <2>1, <2>5
<1> HIDE DEF T
<1>6. 0 .. n \subseteq T
  BY <1>3, <1>4, <1>5, UpTo, Zenon
<1>7. State(n)
  BY <1>3, <1>6 DEF T
<1>8. loop[n].is = "Ok" <=> Fit(n)
  BY <1>7
<1>9. loop[n].is # "Reading"
  BY <1>7
<1> QED
  BY <1>1, <1>2, <1>8, <1>9

(* Every request is read right.                                              *)
LEMMA AllRequestsRight ==
  ASSUME NEW lines, IsRequest(lines)
  PROVE  RequestsRight(lines)
<1> DEFINE n == Len(lines)
           rest == Tail(lines)
           headers == ReadHeaders(rest, Head(lines).len)
<1>1. MAX_HEADER_BYTES \in Nat /\ MAX_REQUEST_LINE_BYTES \in Nat
  BY RequestAssumption
<1>2. CASE lines = <<>>
  <2>1. read_request(lines) = Outcome("ConnectionClosed", 0) /\ ~WellFormed(lines)
    BY <1>2 DEF read_request, WellFormed
  <2> QED
    BY <1>1, <2>1 DEF RequestsRight, Outcome
<1>3. CASE lines # <<>>
  <2>1. /\ n \in Nat /\ n >= 1 /\ DOMAIN lines = 1 .. n
        /\ Head(lines) = lines[1] /\ Len(rest) = n - 1
        /\ \A k \in 1 .. n - 1 : rest[k] = lines[k + 1]
    BY <1>3 DEF IsRequest, IsList
  <2> HIDE DEF n, rest, headers
  <2>2. /\ Head(lines).len \in Nat \ {0} /\ SomeLines(rest)
    <3>1. 1 \in DOMAIN lines /\ \A k \in 1 .. n - 1 : k + 1 \in DOMAIN lines
      BY <2>1
    <3>2. lines[1].len \in Nat \ {0} /\ \A k \in 1 .. n - 1 : rest[k].len \in Nat \ {0}
      BY <2>1, <3>1 DEF IsRequest
    <3> QED
      BY <2>1, <3>2 DEF SomeLines
  <2>3. CASE TooLong(Head(lines), MAX_REQUEST_LINE_BYTES)
    <3>1. read_request(lines) = Outcome("Malformed", MAX_REQUEST_LINE_BYTES)
      BY <1>3, <2>3 DEF read_request
    <3>2. WellFormed(lines) => lines[1].len > MAX_REQUEST_LINE_BYTES
      BY <2>1, <2>3 DEF WellFormed, TooLong
    <3>3. WellFormed(lines) => ~(\A k \in DOMAIN lines : lines[k].len <= MAX_REQUEST_LINE_BYTES)
      BY <1>1, <2>1, <2>2, <3>2
    <3> QED
      BY <1>1, <3>1, <3>3 DEF RequestsRight, Outcome
  <2>4. CASE ~TooLong(Head(lines), MAX_REQUEST_LINE_BYTES)
    <3>1. read_request(lines) = IF headers.is = "Ok" /\ Head(lines).words = 0 THEN Outcome("Malformed", headers.bytes)
                                ELSE headers
      BY <1>3, <2>4 DEF read_request, headers, rest
    <3>2. headers.bytes <= Head(lines).len + MAX_HEADER_BYTES /\ headers.bytes \in Int
      BY <2>2, HeadersBounded DEF headers
    <3>3. Head(lines).len <= MAX_REQUEST_LINE_BYTES
      BY <1>1, <2>2, <2>4 DEF TooLong
    <3>4. read_request(lines).bytes = headers.bytes
      BY <3>1 DEF Outcome
    <3>5. read_request(lines).bytes <= MAX_REQUEST_LINE_BYTES + MAX_HEADER_BYTES
      BY <1>1, <2>2, <3>2, <3>3, <3>4
    <3>6. ASSUME WellFormed(lines)
          PROVE  read_request(lines).is = "Ok" <=>
                   /\ \A k \in DOMAIN lines : lines[k].len <= MAX_REQUEST_LINE_BYTES
                   /\ Bytes(Tail(lines)) <= MAX_HEADER_BYTES
      <4>1. read_request(lines) = headers
        BY <2>1, <3>1, <3>6 DEF WellFormed
      <4>0. /\ n >= 2 /\ \A k \in DOMAIN lines : lines[k].newline
            /\ \A k \in 2 .. n : lines[k].blank <=> k = n
        BY <3>6, Zenon DEF WellFormed, n
      <4>2. ASSUME NEW k \in 1 .. Len(rest) PROVE rest[k].newline /\ (rest[k].blank <=> k = Len(rest))
        <5>1. k + 1 \in 2 .. n /\ k + 1 \in DOMAIN lines /\ rest[k] = lines[k + 1] /\ (k = Len(rest) <=> k + 1 = n)
          BY <2>1
        <5> QED
          BY <4>0, <5>1
      <4>3. Len(rest) >= 1
        BY <2>1, <4>0
      <4>4. headers.is = "Ok" <=> /\ \A k \in 1 .. Len(rest) : rest[k].len <= MAX_REQUEST_LINE_BYTES
                                  /\ Bytes(rest) <= MAX_HEADER_BYTES
        BY <2>2, <4>2, <4>3, HeadersAccepted DEF headers
      <4>5. (\A k \in 1 .. Len(rest) : rest[k].len <= MAX_REQUEST_LINE_BYTES) <=>
            (\A k \in DOMAIN lines : lines[k].len <= MAX_REQUEST_LINE_BYTES)
        <5>1. \A k \in DOMAIN lines : k = 1 \/ (k - 1 \in 1 .. Len(rest) /\ rest[k - 1] = lines[k])
          BY <2>1
        <5>2. \A k \in 1 .. Len(rest) : k + 1 \in DOMAIN lines /\ rest[k] = lines[k + 1]
          BY <2>1
        <5> QED
          BY <2>1, <3>3, <5>1, <5>2, Zenon
      <4> QED
        BY <4>1, <4>4, <4>5 DEF rest
    <3> QED
      BY <3>5, <3>6 DEF RequestsRight
  <2> QED
    BY <2>3, <2>4
<1> QED
  BY <1>2, <1>3

-----------------------------------------------------------------------------
(* A range that holds a port.                                                *)
Ports == {range \in PortRange : range.start <= range.end}

(* What the settings of a configuration are, from a file or loaded.          *)
Settings == DOMAIN Default
IsConfig(c) ==
  /\ DOMAIN c = Settings
  /\ c.port_range.start \in Nat /\ c.port_range.end \in Nat
  /\ IsList(c.backends)
  /\ \A k \in DOMAIN c.backends : c.backends[k].passive_ports \in Ports
  /\ c.refresh_secs \in Nat
  /\ c.ca_file \subseteq CaFiles

(* The settings there are.                                                   *)
LEMMA SettingsAre ==
  Settings = {"port_range", "backends", "tls", "ca_file", "server_name", "mode",
              "refresh_secs", "include", "exclude"}
BY DEF Settings, Default

(* A function on the domain of a list is a list of that length.              *)
LEMMA SameShape ==
  ASSUME NEW l, IsList(l), NEW f, f = [k \in DOMAIN f |-> f[k]], DOMAIN f = DOMAIN l
  PROVE  IsList(f) /\ Len(f) = Len(l)
<1> DEFINE S == {f[i] : i \in DOMAIN f}
<1>1. Len(l) \in Nat /\ DOMAIN l = 1 .. Len(l)
  BY DEF IsList
<1>2. f \in [1 .. Len(l) -> S]
  BY <1>1
<1> HIDE DEF S
<1>3. f \in Seq(S)
  BY <1>1, <1>2
<1>4. Len(f) = Len(l)
  BY <1>1, <1>3
<1> QED
  BY <1>3, <1>4 DEF IsList, S

(* Each of the results collected is one of those of its entry.               *)
LEMMA CollectEach ==
  ASSUME NEW results, NEW c \in Collect(results)
  PROVE  /\ c = [k \in DOMAIN c |-> c[k]] /\ DOMAIN c = DOMAIN results
         /\ \A k \in DOMAIN results : c[k] \in results[k]
<1>1. /\ \A k \in DOMAIN results : results[k] # {}
      /\ c = [k \in DOMAIN results |-> CHOOSE x \in results[k] : TRUE]
  BY DEF Collect
<1> QED
  BY <1>1

(* Ports that parse in the right order are a range.                          *)
LEMMA ParsedRange ==
  ASSUME NEW first \in SUBSET Nat, NEW last \in SUBSET Nat
  PROVE  parse_first_last(first, last) \subseteq Ports
BY DEF parse_first_last, Ports, PortRange

(* The ranges of a file's backends hold a port.                              *)
LEMMA DeserializedRange ==
  ASSUME NEW form, ParsedPorts(form)
  PROVE  deserialize_port_range(form) \subseteq Ports
<1>1. ASSUME NEW range \in deserialize_port_range(form) PROVE range \in Ports
  <2>1. CASE form.text
    BY <1>1, <2>1, ParsedRange DEF deserialize_port_range, ParsedPorts
  <2>2. CASE ~form.text
    BY <1>1, <2>2 DEF deserialize_port_range, ParsedPorts, Ports, PortRange, is_empty
  <2> QED
    BY <2>1, <2>2
<1> QED
  BY <1>1

(* So do those of the list of a variable, and it has as many as the list.    *)
LEMMA ParsedBackends ==
  ASSUME NEW list, IsList(list),
         \A k \in DOMAIN list : \A range \in list[k].range : ParsedPorts(range),
         NEW backends \in parse_backends(list)
  PROVE  /\ IsList(backends) /\ Len(backends) = Len(list) /\ DOMAIN backends = DOMAIN list
         /\ \A k \in DOMAIN list : backends[k].passive_ports \in Ports
<1> DEFINE ranges(k) == IF list[k].range = {} THEN {DEFAULT_BACKEND_PASSIVE_PORTS}
                        ELSE UNION {parse_first_last(r.first, r.last) : r \in list[k].range}
           results == [k \in DOMAIN list |->
                         {[passive_ports |-> r] : r \in {r \in ranges(k) : list[k].address}}]
<1>1. backends \in Collect(results)
  BY DEF parse_backends
<1>2. /\ backends = [k \in DOMAIN backends |-> backends[k]] /\ DOMAIN backends = DOMAIN list
      /\ \A k \in DOMAIN list : backends[k] \in results[k]
  BY <1>1, CollectEach
<1>3. ASSUME NEW k \in DOMAIN list PROVE backends[k].passive_ports \in Ports
  <2>1. PICK r \in ranges(k) : backends[k] = [passive_ports |-> r]
    BY <1>2
  <2>2. CASE list[k].range = {}
    BY <2>1, <2>2, ConfigAssumption, SMTT(20) DEF Ports
  <2>3. CASE list[k].range # {}
    <3>1. PICK range \in list[k].range : r \in parse_first_last(range.first, range.last)
      BY <2>1, <2>3
    <3>2. ParsedPorts(range)
      BY <3>1
    <3> QED
      BY <2>1, <3>1, <3>2, ParsedRange DEF ParsedPorts
  <2> QED
    BY <2>2, <2>3
<1> QED
  BY <1>2, <1>3, SameShape

(* The configuration of a file: its settings over the defaults.              *)
LEMMA FileConfig ==
  ASSUME NEW file, IsFile(file), NEW f \in FromFile(file)
  PROVE  /\ IsConfig(f)
         /\ \A s \in {"tls", "mode", "refresh_secs"} :
              f[s] = IF s \in DOMAIN file.sets THEN file.sets[s] ELSE Default[s]
<1> DEFINE forms == [k \in DOMAIN file.backends |-> deserialize_port_range(file.backends[k])]
<1>1. PICK ranges \in Collect(forms) :
        f = [s \in Settings |->
               IF s = "backends" THEN [k \in DOMAIN ranges |-> [passive_ports |-> ranges[k]]]
               ELSE IF s \in DOMAIN file.sets THEN file.sets[s] ELSE Default[s]]
  BY DEF FromFile, Settings
<1>2. DOMAIN ranges = DOMAIN file.backends /\ \A k \in DOMAIN file.backends : ranges[k] \in Ports
  <2>1. DOMAIN ranges = DOMAIN file.backends
        /\ \A k \in DOMAIN file.backends : ranges[k] \in forms[k]
    BY <1>1, CollectEach
  <2>2. \A k \in DOMAIN file.backends : forms[k] \subseteq Ports
    BY DeserializedRange DEF IsFile
  <2> QED
    BY <2>1, <2>2
<1>3. \A s \in Settings \ {"backends"} : f[s] = IF s \in DOMAIN file.sets THEN file.sets[s] ELSE Default[s]
  BY <1>1
<1>4. f.backends = [k \in DOMAIN ranges |-> [passive_ports |-> ranges[k]]]
  BY <1>1, SettingsAre
<1>5. IsList(f.backends) /\ \A k \in DOMAIN f.backends : f.backends[k].passive_ports \in Ports
  BY <1>2, <1>4, SameShape DEF IsFile
<1>6. f.port_range \in PortRange
  BY <1>3, SettingsAre, ConfigAssumption DEF IsFile, Default
<1>7. f.refresh_secs \in Nat
  BY <1>3, SettingsAre, ConfigAssumption DEF IsFile, Default
<1>8. f.ca_file \subseteq CaFiles
  BY <1>3, SettingsAre, Zenon DEF IsFile, Default
<1>9. DOMAIN f = Settings
  BY <1>1
<1> QED
  BY <1>3, <1>5, <1>6, <1>7, <1>8, <1>9, SettingsAre DEF IsConfig, PortRange

(* The configuration of a file with the environment over it.                 *)
Overridden(d, c, env) ==
  /\ IsConfig(d)
  /\ \A s \in {"tls", "mode", "refresh_secs"} : d[s] = Overlay(env[s], c[s])
  /\ env.start # {} => d.port_range.start \in env.start
  /\ env.end # {} => d.port_range.end \in env.end
  /\ \A list \in env.backends : Len(d.backends) = Len(list)

(* That is what apply_env_overrides makes of it.                             *)
LEMMA EnvConfig ==
  ASSUME NEW c, IsConfig(c), NEW env, IsEnv(env), NEW d \in apply_env_overrides(c, env)
  PROVE  Overridden(d, c, env)
<1> DEFINE lists == IF env.backends = {} THEN {c.backends}
                    ELSE UNION {parse_backends(list) : list \in env.backends}
           Names(now, value) == IF value = {} THEN now ELSE UNION {parse_name_list(n) : n \in value}
<1>1. PICK list \in lists :
        d = [c EXCEPT
               !.port_range = [start |-> Overlay(env.start, c.port_range.start),
                               end   |-> Overlay(env.end, c.port_range.end)],
               !.backends = list,
               !.tls = Overlay(env.tls, @),
               !.ca_file = IF env.ca_file = {} THEN @ ELSE env.ca_file,
               !.server_name = IF env.server_name = {} THEN @ ELSE env.server_name,
               !.mode = Overlay(env.mode, @),
               !.refresh_secs = Overlay(env.refresh_secs, @),
               !.include = Names(@, env.include),
               !.exclude = Names(@, env.exclude)]
  BY Zenon DEF apply_env_overrides
<1> HIDE DEF lists, Names
<1>2. /\ DOMAIN d = Settings
      /\ d.port_range = [start |-> Overlay(env.start, c.port_range.start),
                         end   |-> Overlay(env.end, c.port_range.end)]
      /\ d.backends = list
      /\ d.tls = Overlay(env.tls, c.tls)
      /\ d.ca_file = IF env.ca_file = {} THEN c.ca_file ELSE env.ca_file
      /\ d.mode = Overlay(env.mode, c.mode)
      /\ d.refresh_secs = Overlay(env.refresh_secs, c.refresh_secs)
  BY <1>1, SettingsAre, Zenon DEF IsConfig
<1>3. \A S, x : (S = {} => Overlay(S, x) = x) /\ (S # {} => Overlay(S, x) \in S)
  BY DEF Overlay
<1>4. d.port_range.start \in Nat /\ d.port_range.end \in Nat /\ d.refresh_secs \in Nat
  <2>1. \A S \in SUBSET Nat : \A x \in Nat : Overlay(S, x) \in Nat
    BY <1>3, Zenon
  <2>2. /\ env.start \in SUBSET Nat /\ env.end \in SUBSET Nat /\ env.refresh_secs \in SUBSET Nat
        /\ c.port_range.start \in Nat /\ c.port_range.end \in Nat /\ c.refresh_secs \in Nat
    BY Zenon DEF IsConfig, IsEnv
  <2>3. /\ d.port_range.start = Overlay(env.start, c.port_range.start)
        /\ d.port_range.end = Overlay(env.end, c.port_range.end)
        /\ d.refresh_secs = Overlay(env.refresh_secs, c.refresh_secs)
    BY <1>2, SMTT(20)
  <2> QED
    BY <2>1, <2>2, <2>3, Zenon
<1>5. d.ca_file \subseteq CaFiles
  BY <1>2 DEF IsConfig, IsEnv
<1>6. /\ IsList(list) /\ \A k \in DOMAIN list : list[k].passive_ports \in Ports
      /\ \A l \in env.backends : Len(list) = Len(l)
  <2>1. CASE env.backends = {}
    BY <2>1 DEF lists, IsConfig
  <2>2. CASE env.backends # {}
    <3>1. PICK l \in env.backends : list \in parse_backends(l)
      BY <2>2 DEF lists
    <3> QED
      BY <3>1, ParsedBackends DEF IsEnv
  <2> QED
    BY <2>1, <2>2
<1>7. IsConfig(d)
  BY <1>2, <1>4, <1>5, <1>6 DEF IsConfig
<1>8. \A s \in {"tls", "mode", "refresh_secs"} : d[s] = Overlay(env[s], c[s])
  BY <1>2
<1>9. /\ env.start # {} => d.port_range.start \in env.start
      /\ env.end # {} => d.port_range.end \in env.end
  <2>1. /\ d.port_range.start = Overlay(env.start, c.port_range.start)
        /\ d.port_range.end = Overlay(env.end, c.port_range.end)
    BY <1>2, SMTT(20)
  <2>2. /\ env.start # {} => Overlay(env.start, c.port_range.start) \in env.start
        /\ env.end # {} => Overlay(env.end, c.port_range.end) \in env.end
    BY ONLY <1>3
  <2> QED
    BY ONLY <2>1, <2>2
<1>10. \A l \in env.backends : Len(d.backends) = Len(l)
  BY <1>2, <1>6
<1> QED
  BY <1>7, <1>8, <1>9, <1>10, Zenon DEF Overridden

(* validate accepts exactly the configurations that are usable.              *)
LEMMA ValidIsUsable ==
  ASSUME NEW c, IsConfig(c)
  PROVE  validate(c) <=> Usable(c)
<1>1. c.backends # <<>> <=> Len(c.backends) >= 1
  BY DEF IsConfig, IsList
<1>2. \A k \in DOMAIN c.backends : len(c.backends[k].passive_ports) >= 1
  BY DEF IsConfig, Ports, PortRange, len
<1>3. c.port_range.start < c.port_range.end <=> len(c.port_range) >= 2
  BY DEF IsConfig, len
<1>4. c.ca_file \subseteq {"file"} <=> "missing" \notin c.ca_file
  BY DEF IsConfig, CaFiles
<1>5. c.refresh_secs # 0 <=> c.refresh_secs > 0
  BY DEF IsConfig
<1> QED
  BY <1>1, <1>2, <1>3, <1>4, <1>5 DEF validate, Usable

(* Every configuration that loads is right, and one that does not is wrong.  *)
LEMMA AllLoadRight ==
  ASSUME NEW file, IsFile(file), NEW env, IsEnv(env)
  PROVE  LoadsRight(file, env)
<1>1. ASSUME NEW c \in load(file, env)
      PROVE  /\ Usable(c)
             /\ \A s \in {"tls", "mode", "refresh_secs"} :
                  c[s] = Overlay(env[s], IF s \in DOMAIN file.sets THEN file.sets[s] ELSE Default[s])
             /\ env.start # {} => c.port_range.start \in env.start
             /\ env.end # {} => c.port_range.end \in env.end
             /\ \A list \in env.backends : Len(c.backends) = Len(list)
  <2>1. PICK f \in FromFile(file) : c \in apply_env_overrides(f, env) /\ validate(c)
    BY DEF load
  <2>2. IsConfig(f) /\ \A s \in {"tls", "mode", "refresh_secs"} :
          f[s] = IF s \in DOMAIN file.sets THEN file.sets[s] ELSE Default[s]
    BY FileConfig
  <2>3. /\ IsConfig(c)
        /\ \A s \in {"tls", "mode", "refresh_secs"} : c[s] = Overlay(env[s], f[s])
        /\ env.start # {} => c.port_range.start \in env.start
        /\ env.end # {} => c.port_range.end \in env.end
        /\ \A list \in env.backends : Len(c.backends) = Len(list)
    <3>1. Overridden(c, f, env)
      BY <2>1, <2>2, EnvConfig
    <3> QED
      BY <3>1, Zenon DEF Overridden
  <2>4. Usable(c)
    BY <2>1, <2>3, ValidIsUsable
  <2> QED
    BY <2>2, <2>3, <2>4
<1>2. ASSUME load(file, env) = {}, NEW f \in FromFile(file), NEW d \in apply_env_overrides(f, env)
      PROVE  ~Usable(d)
  <2>1. ~validate(d)
    BY <1>2 DEF load
  <2> QED
    <3>1. IsConfig(f)
      BY FileConfig
    <3>2. Overridden(d, f, env)
      BY <3>1, EnvConfig
    <3>3. IsConfig(d)
      BY <3>2, Zenon DEF Overridden
    <3> QED
      BY <2>1, <3>3, ValidIsUsable
<1> QED
  BY <1>1, <1>2, Zenon DEF LoadsRight

-----------------------------------------------------------------------------
(* The inputs that the functions are called with.                            *)
InputInv ==
  /\ input.of = "glob" => IsList(input.pattern) /\ IsName(input.text)
  /\ input.of = "select" => IsListing(input.addrs)
  /\ input.of = "request" => IsRequest(input.lines)
  /\ input.of = "load" => IsFile(input.file) /\ IsEnv(input.env)
  /\ input.of = "reply" => IsReply(input.line) /\ Unspecified \notin input.control
  /\ input.of = "command" => IsList(input.line)

(* Only inputs of the sets are there at first.                               *)
LEMMA InitInputInv == Init => InputInv
<1> SUFFICES ASSUME Init PROVE InputInv
  OBVIOUS
<1>1. CASE input \in [of : {"glob"}, pattern : Patterns, text : Texts]
  BY <1>1, InputsAssumption DEF InputInv
<1>2. CASE input \in [of : {"select"}, addrs : Listings, include : Includes, exclude : Excludes]
  BY <1>2, InputsAssumption DEF InputInv
<1>3. CASE input \in [of : {"request"}, lines : Requests]
  BY <1>3, InputsAssumption DEF InputInv
<1>4. CASE input \in [of : {"command"}, line : Commands]
  BY <1>4, InputsAssumption DEF InputInv
<1>5. CASE input \in Loads \cup Replies
  BY <1>5, InputsAssumption DEF InputInv
<1> QED
  BY <1>1, <1>2, <1>3, <1>4, <1>5 DEF Init

(* A call leaves its input alone.                                            *)
LEMMA NextInputInv == InputInv /\ [Call]_vars => InputInv'
  BY DEF InputInv, Call, vars

(* The loop of glob_match, which goes back only to the last star, decides    *)
(* what the pattern matches by its structure, for every pattern and every    *)
(* name; select_sources takes, in ascending order, each address once, those  *)
(* of the interfaces that are named and of their aliases, and none of an     *)
(* interface that is excluded, from every listing.                           *)
THEOREM SelectionIsRight == Spec => []SourcesSelected
<1>1. InputInv => SourcesSelected
  BY AllGlobsRight, AllSelectionsRight DEF InputInv, SourcesSelected
<1> QED
  BY <1>1, InitInputInv, NextInputInv, PTL DEF Spec

(* The metrics endpoint bounds what it reads of a request and takes every    *)
(* request within the bounds, whatever lines it has.                         *)
THEOREM RequestsAreRight == Spec => []RequestsRead
<1>1. InputInv => RequestsRead
  BY AllRequestsRight DEF InputInv, RequestsRead
<1> QED
  BY <1>1, InitInputInv, NextInputInv, PTL DEF Spec

(* Every configuration that loads, from any file and environment, can be     *)
(* used, and one is refused only if it cannot.                               *)
THEOREM ConfigsAreRight == Spec => []ConfigsLoad
<1>1. InputInv => ConfigsLoad
  BY AllLoadRight DEF InputInv, ConfigsLoad
<1> QED
  BY <1>1, InitInputInv, NextInputInv, PTL DEF Spec

(* A passive reply is read as the address it announces, whatever its blanks  *)
(* and its delimiter, and nothing else is taken for one; a data connection   *)
(* goes nowhere that is unspecified; a line is taken as a command if and     *)
(* only if it is one command, and read as that.  It holds for lines of any   *)
(* length.                                                                   *)
THEOREM LinesAreRight == Spec => []LinesRead
<1>1. InputInv => LinesRead
  BY RepliesAreRight, CommandsAreRight DEF InputInv, LinesRead
<1> QED
  BY <1>1, InitInputInv, NextInputInv, PTL DEF Spec
=============================================================================
