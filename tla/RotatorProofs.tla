--------------------------- MODULE RotatorProofs ---------------------------
(***************************************************************************)
(* The transfers open at once from one source address, the rotation that    *)
(* counts them and the candidates a session gets, for any number of         *)
(* sessions and addresses and any capacity.                                 *)
(***************************************************************************)
EXTENDS Rotator, FiniteSetTheorems, SequenceTheorems, TLAPS

(* What is free of an address and what is held of it add up to the capacity. *)
(* The sessions that hold nothing may have any source, or none.              *)
SlotInv ==
  /\ permits \in [Addresses -> Nat]
  /\ DOMAIN pc = Sessions /\ DOMAIN source = Sessions
  /\ \A a \in Addresses : permits[a] + Cardinality(Holders(a)) = Capacity

(* The holders of an address are finitely many.                              *)
LEMMA HoldersFinite ==
  ASSUME NEW a PROVE IsFiniteSet(Holders(a)) /\ Cardinality(Holders(a)) \in Nat
BY RotatorAssumption, FS_Subset, FS_CardinalityType DEF Holders

(* Initially nothing is held.                                                *)
LEMMA InitSlotInv == Init => SlotInv
<1> SUFFICES ASSUME Init PROVE SlotInv
  OBVIOUS
<1>1. ASSUME NEW a \in Addresses PROVE Cardinality(Holders(a)) = 0
  <2>1. Holders(a) = {}
    BY DEF Init, Holders
  <2> QED
    BY <2>1, FS_EmptySet
<1> QED
  BY <1>1, RotatorAssumption DEF Init, SlotInv

(* A step that takes no permit and frees none, of a session that holds the   *)
(* same before and after.                                                    *)
LEMMA SameHolders ==
  ASSUME SlotInv, permits' = permits, DOMAIN pc' = Sessions, DOMAIN source' = Sessions,
         \A a \in Addresses : Holders(a)' = Holders(a)
  PROVE  SlotInv'
BY DEF SlotInv

(* Waiting for a permit and getting one.                                     *)
LEMMA PermitKeeps == ASSUME SlotInv, NEW s \in Sessions, Permit(s) PROVE SlotInv'
<1>1. /\ pc[s] = "waiting" /\ permits[source[s]] > 0 /\ UNCHANGED source
      /\ pc' = [pc EXCEPT ![s] = "granted"]
      /\ permits' = [permits EXCEPT ![source[s]] = @ - 1]
  BY DEF Permit, TakePermit, Move
<1>2. permits' \in [Addresses -> Nat]
  <2>1. CASE source[s] \in Addresses
    BY <1>1, <2>1 DEF SlotInv
  <2>2. CASE source[s] \notin Addresses
    BY <1>1, <2>2, Zenon DEF SlotInv
  <2> QED
    BY <2>1, <2>2
<1>3. ASSUME NEW a \in Addresses PROVE permits'[a] + Cardinality(Holders(a)') = Capacity
  <2>1. CASE a = source[s]
    <3>1. Holders(a)' = Holders(a) \cup {s} /\ s \notin Holders(a)
      BY <1>1, <2>1 DEF SlotInv, Holders
    <3>2. Cardinality(Holders(a)') = Cardinality(Holders(a)) + 1
      BY <3>1, HoldersFinite, FS_AddElement
    <3>3. permits'[a] = permits[a] - 1 /\ permits[a] \in Nat
      BY <1>1, <2>1 DEF SlotInv
    <3> QED
      BY <3>2, <3>3, HoldersFinite DEF SlotInv
  <2>2. CASE a # source[s]
    <3>1. Holders(a)' = Holders(a) /\ permits'[a] = permits[a]
      BY <1>1, <2>2 DEF SlotInv, Holders
    <3> QED
      BY <3>1 DEF SlotInv
  <2> QED
    BY <2>1, <2>2
<1> QED
  BY <1>1, <1>2, <1>3 DEF SlotInv

(* Giving a permit back, after a transfer or a failed connection.            *)
LEMMA FreeSlotKeeps == ASSUME SlotInv, NEW s \in Sessions, FreeSlot(s) PROVE SlotInv'
<1>1. /\ pc[s] = "transfer" /\ UNCHANGED source
      /\ pc' = [pc EXCEPT ![s] = "open"]
      /\ permits' = [permits EXCEPT ![source[s]] = @ + 1]
  BY DEF FreeSlot, Move
<1>2. permits' \in [Addresses -> Nat]
  <2>1. CASE source[s] \in Addresses
    BY <1>1, <2>1 DEF SlotInv
  <2>2. CASE source[s] \notin Addresses
    BY <1>1, <2>2, Zenon DEF SlotInv
  <2> QED
    BY <2>1, <2>2
<1>3. ASSUME NEW a \in Addresses PROVE permits'[a] + Cardinality(Holders(a)') = Capacity
  <2>1. CASE a = source[s]
    <3>1. Holders(a)' = Holders(a) \ {s} /\ s \in Holders(a)
      BY <1>1, <2>1 DEF SlotInv, Holders
    <3>2. Cardinality(Holders(a)') = Cardinality(Holders(a)) - 1
      BY <3>1, HoldersFinite, FS_RemoveElement
    <3>3. permits'[a] = permits[a] + 1 /\ permits[a] \in Nat
      BY <1>1, <2>1 DEF SlotInv
    <3> QED
      BY <3>2, <3>3, HoldersFinite DEF SlotInv
  <2>2. CASE a # source[s]
    <3>1. Holders(a)' = Holders(a) /\ permits'[a] = permits[a]
      BY <1>1, <2>2 DEF SlotInv, Holders
    <3> QED
      BY <3>1 DEF SlotInv
  <2> QED
    BY <2>1, <2>2
<1> QED
  BY <1>1, <1>2, <1>3 DEF SlotInv

(* Every step keeps it, a refresh of the listing included: the slots of an   *)
(* address outlive its place in the listing.                                 *)
LEMMA NextSlotInv == SlotInv /\ [Next]_vars => SlotInv'
<1> SUFFICES ASSUME SlotInv, [Next]_vars PROVE SlotInv'
  OBVIOUS
<1>1. ASSUME UNCHANGED <<permits, pc, source>> PROVE SlotInv'
  BY <1>1, SameHolders DEF SlotInv, Holders
<1>2. ASSUME NEW s \in Sessions, Start(s) \/ Request(s) \/ SlotTimeout(s) \/ Started(s)
      PROVE  SlotInv'
  <2>1. UNCHANGED <<permits, source>>
    BY <1>2 DEF Start, Request, SlotTimeout, Started, Count, shared
  <2>2. /\ DOMAIN pc' = Sessions
        /\ \A r \in Sessions :
             pc'[r] \in {"granted", "transfer"} <=> pc[r] \in {"granted", "transfer"}
    BY <1>2 DEF Start, Request, SlotTimeout, Started, Count, Move, SlotInv
  <2> QED
    BY <2>1, <2>2, SameHolders DEF SlotInv, Holders
<1>3. ASSUME NEW s \in Sessions, ConnectOk(s) \/ Close(s) PROVE SlotInv'
  <2>1. /\ UNCHANGED permits /\ DOMAIN pc' = Sessions /\ DOMAIN source' = Sessions
        /\ pc[s] \notin {"granted", "transfer"} /\ pc'[s] \notin {"granted", "transfer"}
        /\ \A r \in Sessions \ {s} : pc'[r] = pc[r] /\ source'[r] = source[r]
    BY <1>3 DEF ConnectOk, Close, Move, SlotInv, shared
  <2> QED
    BY <2>1, SameHolders DEF Holders
<1>4. ASSUME NEW s \in Sessions, NEW fault \in BOOLEAN, ConnectErr(s, fault) PROVE SlotInv'
  <2>1. /\ UNCHANGED <<permits, source>> /\ DOMAIN pc' = Sessions
        /\ pc[s] \notin {"granted", "transfer"} /\ pc'[s] \notin {"granted", "transfer"}
        /\ \A r \in Sessions \ {s} : pc'[r] = pc[r]
    BY <1>4 DEF ConnectErr, Move, SlotInv
  <2> QED
    BY <2>1, SameHolders DEF Holders, SlotInv
<1>5. ASSUME NEW s \in Sessions, Step(s) PROVE SlotInv'
  BY <1>2, <1>3, <1>4, <1>5, PermitKeeps, FreeSlotKeeps DEF Step, Drop, DataConnectErr
<1>6. CASE UNCHANGED vars
  BY <1>1, <1>6 DEF vars, shared
<1>7. CASE (\E new \in Listings : SetSources(new)) \/ (\E a \in Addresses : Recover(a))
  BY <1>1, <1>7 DEF SetSources, Recover
<1> QED
  BY <1>5, <1>6, <1>7 DEF Next

(* "At most that many data transfers run at once from one source address"    *)
(* (README), and as many as the snapshot reports: no slot is leaked or added *)
(* on any path.                                                              *)
THEOREM CapacityIsKept == Spec => []CapacityKept
<1>1. SlotInv => CapacityKept
  BY RotatorAssumption, HoldersFinite DEF SlotInv, CapacityKept, snapshot_at
<1> QED
  BY <1>1, InitSlotInv, NextSlotInv, PTL DEF Spec

-----------------------------------------------------------------------------
(* The order of the addresses.  The numbers of a finite set that are smaller *)
(* than one of them tell it from all others.                                 *)
Below(S, a) == {b \in S : b < a}

(* Of two, the smaller has fewer below it.                                   *)
LEMMA BelowGrows ==
  ASSUME NEW S \in SUBSET Nat, IsFiniteSet(S), NEW a \in S
  PROVE  /\ Cardinality(Below(S, a)) \in 0 .. Cardinality(S) - 1
         /\ \A c \in S : a < c => Cardinality(Below(S, a)) < Cardinality(Below(S, c))
<1>1. ASSUME NEW T \in SUBSET S, Below(S, a) \subseteq T, a \in T
      PROVE  /\ Cardinality(Below(S, a)) < Cardinality(T)
             /\ Cardinality(Below(S, a)) \in Nat /\ Cardinality(T) \in Nat
  <2>1. a \notin Below(S, a)
    BY DEF Below
  <2>2. IsFiniteSet(T) /\ Below(S, a) \in SUBSET T /\ Below(S, a) # T
    BY <1>1, <2>1, FS_Subset, Zenon
  <2>3. /\ IsFiniteSet(Below(S, a))
        /\ Cardinality(Below(S, a)) <= Cardinality(T)
        /\ Cardinality(T) # Cardinality(Below(S, a))
    BY <2>2, FS_Subset
  <2>4. Cardinality(Below(S, a)) \in Nat /\ Cardinality(T) \in Nat
    BY <2>2, <2>3, FS_CardinalityType
  <2> QED
    BY <2>3, <2>4
<1>2. Below(S, a) \subseteq S
  BY DEF Below
<1>3. Cardinality(Below(S, a)) \in 0 .. Cardinality(S) - 1
  BY <1>1, <1>2
<1>4. ASSUME NEW c \in S, a < c
      PROVE  Cardinality(Below(S, a)) < Cardinality(Below(S, c))
  <2>0. \A b \in S : b < a => b < c
    <3>1. a \in Nat /\ c \in Nat /\ \A b \in S : b \in Nat
      OBVIOUS
    <3> QED
      BY <1>4, <3>1
  <2>1. Below(S, c) \in SUBSET S /\ Below(S, a) \subseteq Below(S, c) /\ a \in Below(S, c)
    BY <1>4, <2>0, Zenon DEF Below
  <2> QED
    BY <1>1, <2>1
<1> QED
  BY <1>3, <1>4

(* So every number below the size of the set is the rank of one element, and *)
(* Nth enumerates the set.                                                   *)
LEMMA NthEnumerates ==
  ASSUME NEW S \in SUBSET Nat, IsFiniteSet(S)
  PROVE  /\ \A a \in S : Nth(S, Cardinality(Below(S, a))) = a
         /\ \A k \in 0 .. Cardinality(S) - 1 :
              Nth(S, k) \in S /\ Cardinality(Below(S, Nth(S, k))) = k
<1> DEFINE n == Cardinality(S)
<1> DEFINE rank == [a \in S |-> Cardinality(Below(S, a))]
<1>1. n \in Nat /\ IsFiniteSet(0 .. n - 1) /\ Cardinality(0 .. n - 1) = n
  <2>1. n \in Nat
    BY FS_CardinalityType
  <2>2. 0 \in Int /\ n - 1 \in Int
    BY <2>1
  <2>3. /\ IsFiniteSet(0 .. n - 1)
        /\ Cardinality(0 .. n - 1) = IF 0 > n - 1 THEN 0 ELSE (n - 1) - 0 + 1
    BY <2>2, FS_Interval
  <2> HIDE DEF n
  <2> QED
    BY <2>1, <2>3
<1>2. rank \in [S -> 0 .. n - 1]
  BY BelowGrows
<1>3. ASSUME NEW a \in S, NEW c \in S, rank[a] = rank[c] PROVE a = c
  <2>1. Cardinality(Below(S, a)) = Cardinality(Below(S, c))
    BY <1>3
  <2>2. Cardinality(Below(S, a)) \in Nat /\ Cardinality(Below(S, c)) \in Nat
    BY BelowGrows
  <2>3. ~(a < c) /\ ~(c < a)
    BY <2>1, <2>2, BelowGrows
  <2>4. a \in Nat /\ c \in Nat
    OBVIOUS
  <2> QED
    BY <2>3, <2>4
<1>4. rank \in Injection(S, 0 .. n - 1)
  BY <1>2, <1>3 DEF Injection, IsInjective
<1>5. rank \in Surjection(S, 0 .. n - 1)
  BY <1>1, <1>4, FS_Injection
<1>6. ASSUME NEW a \in S PROVE Nth(S, Cardinality(Below(S, a))) = a
  <2> DEFINE k == Cardinality(Below(S, a))
  <2>1. \A c \in S : Cardinality(Below(S, c)) = k => c = a
    BY <1>3
  <2>2. a = CHOOSE c \in S : Cardinality(Below(S, c)) = k
    BY <2>1
  <2> QED
    BY <2>2, Zenon DEF Nth, Below
<1>7. ASSUME NEW k \in 0 .. n - 1
      PROVE  Nth(S, k) \in S /\ Cardinality(Below(S, Nth(S, k))) = k
  <2>1. PICK a \in S : rank[a] = k
    BY <1>5, Zenon DEF Surjection
  <2> QED
    BY <1>6, <2>1
<1> QED
  BY <1>6, <1>7

Kept(list, keep) == {i \in DOMAIN list : list[i] \in keep}

(* What a filter leaves of a list: the elements that are to be kept, as many *)
(* as their places, and the first one first if it is among them.             *)
LEMMA RetainKeeps ==
  ASSUME NEW n \in Nat, NEW list, DOMAIN list = 1 .. n, NEW keep
  PROVE  LET kept == Kept(list, keep)
         IN  /\ IsFiniteSet(kept) /\ Cardinality(kept) \in Nat
             /\ retain(list, keep) \in [1 .. Cardinality(kept) -> {list[i] : i \in kept}]
             /\ \A i \in kept : \E j \in 1 .. Cardinality(kept) : retain(list, keep)[j] = list[i]
             /\ 1 \in kept => 1 <= Cardinality(kept) /\ retain(list, keep)[1] = list[1]
<1> DEFINE kept == Kept(list, keep)
<1>1. kept \in SUBSET Nat /\ kept \in SUBSET (1 .. n)
  BY DEF Kept
<1>2. IsFiniteSet(kept) /\ Cardinality(kept) \in Nat
  <2>1. IsFiniteSet(1 .. n)
    BY FS_Interval
  <2> HIDE DEF kept
  <2> QED
    BY <1>1, <2>1, FS_Subset, FS_CardinalityType, Zenon
<1>3. retain(list, keep) = [j \in 1 .. Cardinality(kept) |-> list[Nth(kept, j - 1)]]
  BY DEF retain, Kept
<1> HIDE DEF kept
<1>4. /\ \A a \in kept : Nth(kept, Cardinality(Below(kept, a))) = a
      /\ \A k \in 0 .. Cardinality(kept) - 1 : Nth(kept, k) \in kept
  BY <1>1, <1>2, NthEnumerates
<1>5. retain(list, keep) \in [1 .. Cardinality(kept) -> {list[i] : i \in kept}]
  <2>1. \A j \in 1 .. Cardinality(kept) : j - 1 \in 0 .. Cardinality(kept) - 1
    BY <1>2
  <2>2. \A j \in 1 .. Cardinality(kept) : Nth(kept, j - 1) \in kept
    BY <1>4, <2>1
  <2> QED
    BY <1>3, <2>2
<1>6. ASSUME NEW i \in kept
      PROVE  \E j \in 1 .. Cardinality(kept) : retain(list, keep)[j] = list[i] /\ j - 1 = Cardinality(Below(kept, i))
  <2>1. Cardinality(Below(kept, i)) \in 0 .. Cardinality(kept) - 1
    BY <1>1, <1>2, BelowGrows
  <2> DEFINE j == Cardinality(Below(kept, i)) + 1
  <2>2. j \in 1 .. Cardinality(kept) /\ j - 1 = Cardinality(Below(kept, i))
    BY <1>2, <2>1
  <2> HIDE DEF j
  <2>3. retain(list, keep)[j] = list[i]
    BY <1>3, <1>4, <2>2
  <2> QED
    BY <2>2, <2>3
<1>7. ASSUME 1 \in kept
      PROVE  1 <= Cardinality(kept) /\ retain(list, keep)[1] = list[1]
  <2>0. \A b \in kept : ~(b < 1)
    BY <1>1
  <2>1. Below(kept, 1) = {}
    BY <2>0 DEF Below
  <2>2. Cardinality(Below(kept, 1)) = 0
    BY <2>1, FS_EmptySet
  <2>3. PICK j \in 1 .. Cardinality(kept) : retain(list, keep)[j] = list[1] /\ j - 1 = 0
    BY <1>6, <1>7, <2>2
  <2> QED
    BY <1>2, <2>3
<1> QED
  BY <1>2, <1>5, <1>6, <1>7 DEF kept

(* Two numbers less than n apart have different remainders.                  *)
LEMMA Apart ==
  ASSUME NEW n \in Nat \ {0}, NEW a \in Nat, NEW b \in Nat, a <= b, b - a < n, a % n = b % n
  PROVE  a = b
<1> DEFINE d == (b \div n) - (a \div n)
<1>1. a = n * (a \div n) + (a % n) /\ b = n * (b \div n) + (b % n)
  OBVIOUS
<1>2. d \in Int /\ b - a = n * d
  BY <1>1
<1> HIDE DEF d
<1>3. d < 1
  BY <1>2
<1>4. d > -1
  BY <1>2
<1> QED
  BY <1>2, <1>3, <1>4

SourcesOK == sources \in (SUBSET Addresses) \ {{}} /\ advances \in Nat

(* candidates_at: every listed address once, from the current one on.        *)
LEMMA OrderedEnumerates ==
  ASSUME SourcesOK
  PROVE  /\ IsFiniteSet(sources) /\ Cardinality(sources) \in Nat \ {0}
         /\ Ordered \in Injection(1 .. Cardinality(sources), sources)
         /\ Ordered \in Surjection(1 .. Cardinality(sources), sources)
<1> DEFINE n == Cardinality(sources)
<1>0. sources \in SUBSET Addresses /\ sources # {}
  BY DEF SourcesOK
<1>1. IsFiniteSet(sources) /\ sources \in SUBSET Nat /\ sources # {}
  BY <1>0, RotatorAssumption, FS_Subset, Zenon
<1>2. n \in Nat \ {0} /\ advances \in Nat
  BY <1>1, FS_CardinalityType, FS_EmptySet DEF SourcesOK
<1>3. Ordered = [i \in 1 .. n |-> Nth(sources, (advances + i - 1) % n)]
  BY DEF Ordered
<1>4. \A k \in 0 .. n - 1 : Nth(sources, k) \in sources /\ Cardinality(Below(sources, Nth(sources, k))) = k
  BY <1>1, NthEnumerates
<1>5. IsFiniteSet(1 .. n) /\ Cardinality(1 .. n) = n
  <2>1. /\ IsFiniteSet(1 .. n)
        /\ Cardinality(1 .. n) = IF 1 > n THEN 0 ELSE n - 1 + 1
    BY <1>2, FS_Interval
  <2> HIDE DEF n
  <2> QED
    BY <1>2, <2>1
<1> HIDE DEF n
<1>6. \A i \in 1 .. n : (advances + i - 1) % n \in 0 .. n - 1
  BY <1>2
<1>7. Ordered \in [1 .. n -> sources]
  BY <1>3, <1>4, <1>6
<1>8. ASSUME NEW i \in 1 .. n, NEW j \in 1 .. n, Ordered[i] = Ordered[j] PROVE i = j
  <2>1. (advances + i - 1) % n = (advances + j - 1) % n
    BY <1>3, <1>4, <1>6, <1>8
  <2>2. /\ advances + i - 1 \in Nat /\ advances + j - 1 \in Nat
        /\ (advances + j - 1) - (advances + i - 1) < n
        /\ (advances + i - 1) - (advances + j - 1) < n
    BY <1>2
  <2>3. advances + i - 1 = advances + j - 1
    <3>1. CASE advances + i - 1 <= advances + j - 1
      BY <1>2, <2>1, <2>2, <3>1, Apart, Zenon
    <3>2. CASE advances + j - 1 <= advances + i - 1
      BY <1>2, <2>1, <2>2, <3>2, Apart, Zenon
    <3> QED
      BY <2>2, <3>1, <3>2
  <2> QED
    BY <1>2, <2>3
<1>9. Ordered \in Injection(1 .. n, sources)
  BY <1>7, <1>8 DEF Injection, IsInjective
<1>10. Ordered \in Surjection(1 .. n, sources)
  BY <1>1, <1>5, <1>9, FS_Injection DEF n
<1> QED
  BY <1>1, <1>2, <1>9, <1>10 DEF n

(* A function on 1 .. n is a sequence of that length.                        *)
LEMMA FunctionIsList ==
  ASSUME NEW n \in Nat, NEW S, NEW f \in [1 .. n -> S]
  PROVE  f \in Seq(S) /\ Len(f) = n /\ DOMAIN f = 1 .. n /\ (f = <<>> <=> n = 0)
<1>1. f \in Seq(S) /\ DOMAIN f = 1 .. n
  BY SeqDef
<1>2. Len(f) = n
  BY <1>1, LenProperties
<1> QED
  BY <1>1, <1>2, EmptySeq

(* The candidates are right, whatever is listed, left out and current.       *)
LEMMA CandidatesOK ==
  ASSUME SourcesOK
  PROVE  CandidatesRight /\ Candidates \in Seq(Addresses) /\ Candidates # <<>>
<1> DEFINE n == Cardinality(sources)
<1> DEFINE keep == sources \ unhealthy
<1> DEFINE kept == Kept(Ordered, keep)
<1> DEFINE healthy == retain(Ordered, keep)
<1>1. /\ n \in Nat \ {0} /\ IsFiniteSet(sources) /\ sources \subseteq Addresses
      /\ Ordered \in [1 .. n -> sources]
      /\ \A i, j \in 1 .. n : Ordered[i] = Ordered[j] => i = j
      /\ \A a \in sources : \E i \in 1 .. n : Ordered[i] = a
  BY OrderedEnumerates DEF Injection, IsInjective, Surjection, SourcesOK
<1> HIDE DEF n
<1>2. /\ IsFiniteSet(kept) /\ Cardinality(kept) \in Nat
      /\ healthy \in [1 .. Cardinality(kept) -> {Ordered[i] : i \in kept}]
      /\ \A i \in kept : \E j \in 1 .. Cardinality(kept) : healthy[j] = Ordered[i]
      /\ 1 \in kept => 1 <= Cardinality(kept) /\ healthy[1] = Ordered[1]
  BY <1>1, RetainKeeps, Zenon
<1>3. /\ kept \subseteq 1 .. n /\ \A i \in kept : Ordered[i] \in keep
      /\ \A a \in keep : \E i \in kept : Ordered[i] = a
      /\ 1 \in 1 .. n /\ (Ordered[1] \in keep => 1 \in kept)
  BY <1>1 DEF Kept
<1>4. Candidates = IF healthy = <<>> THEN Ordered ELSE healthy
  BY DEF Candidates
<1> DEFINE usable == IF sources \subseteq unhealthy THEN sources ELSE keep
<1>5. CandidatesRight <=> /\ {Candidates[i] : i \in DOMAIN Candidates} = usable
                          /\ Len(Candidates) = Cardinality(usable)
                          /\ Ordered[1] \in usable => Candidates[1] = Ordered[1]
  BY DEF CandidatesRight
<1>6. {Ordered[i] : i \in kept} = keep
  BY <1>3
<1> HIDE DEF kept, healthy
<1>7. healthy \in Seq(keep) /\ Len(healthy) = Cardinality(kept)
      /\ DOMAIN healthy = 1 .. Cardinality(kept) /\ (healthy = <<>> <=> Cardinality(kept) = 0)
  BY <1>2, <1>6, FunctionIsList
<1>8. Cardinality(kept) = Cardinality(keep) /\ IsFiniteSet(keep)
  <2> DEFINE f == [i \in kept |-> Ordered[i]]
  <2>1. f \in [kept -> keep]
    BY <1>3
  <2>2. f \in Injection(kept, keep)
    BY <1>1, <1>3, <2>1 DEF Injection, IsInjective
  <2>3. f \in Surjection(kept, keep)
    BY <1>3, <2>1 DEF Surjection
  <2> HIDE DEF f
  <2> QED
    BY <1>2, <2>2, <2>3, FS_Bijection DEF ExistsBijection, Bijection
<1>9. CASE sources \subseteq unhealthy
  <2>1. keep = {}
    BY <1>9
  <2>2. healthy = <<>>
    BY <1>7, <1>8, <2>1, FS_EmptySet
  <2>3. Candidates = Ordered
    BY <1>4, <2>2
  <2>4. Ordered \in Seq(Addresses) /\ Len(Ordered) = n /\ DOMAIN Ordered = 1 .. n /\ Ordered # <<>>
    BY <1>1, FunctionIsList
  <2>5. {Ordered[i] : i \in 1 .. n} = sources
    BY <1>1
  <2> QED
    BY <1>5, <1>9, <2>3, <2>4, <2>5 DEF n
<1>10. CASE ~(sources \subseteq unhealthy)
  <2>1. keep # {} /\ usable = keep
    BY <1>10
  <2>2. healthy # <<>>
    BY <1>2, <1>7, <1>8, <2>1, FS_EmptySet
  <2>3. Candidates = healthy
    BY <1>4, <2>2
  <2>4. {healthy[j] : j \in 1 .. Cardinality(kept)} = keep
    BY <1>2, <1>6
  <2>5. Candidates \in Seq(Addresses)
    BY <1>1, <1>7, <2>3
  <2>6. Ordered[1] \in keep => Candidates[1] = Ordered[1]
    BY <1>2, <1>3, <2>3
  <2>7. {Candidates[i] : i \in DOMAIN Candidates} = keep /\ Len(Candidates) = Cardinality(keep)
    BY <1>7, <1>8, <2>3, <2>4, Zenon
  <2> HIDE DEF keep, usable
  <2> QED
    BY <1>5, <2>1, <2>2, <2>3, <2>5, <2>6, <2>7
<1> QED
  BY <1>9, <1>10

-----------------------------------------------------------------------------
(* A step keeps the types, those of the permits being SlotInv's.  The list   *)
(* a session connects from is never empty: it has a first candidate when it  *)
(* starts, and the last one that fails ends the session.                     *)
LEMMA NextTypeOK == TypeOK /\ SlotInv' /\ [Next]_vars => TypeOK'
<1> SUFFICES ASSUME TypeOK, SlotInv', [Next]_vars PROVE TypeOK'
  OBVIOUS
<1>0. permits' \in [Addresses -> 0 .. Capacity]
  <2>1. ASSUME NEW a \in Addresses PROVE permits'[a] \in 0 .. Capacity
    <3>1. permits'[a] \in Nat /\ permits'[a] + Cardinality(Holders(a)') = Capacity
      BY DEF SlotInv
    <3>2. Cardinality(Holders(a)') \in Nat
      BY RotatorAssumption, FS_Subset, FS_CardinalityType DEF Holders
    <3> QED
      BY <3>1, <3>2, RotatorAssumption
  <2> QED
    BY <2>1 DEF SlotInv
<1>1. ASSUME NEW s \in Sessions, Start(s) PROVE TypeOK'
  <2>1. Candidates \in Seq(Addresses) /\ Candidates # <<>>
    BY CandidatesOK DEF TypeOK, SourcesOK
  <2>2. /\ pc[s] = "idle" /\ pc' = [pc EXCEPT ![s] = "connecting"]
        /\ candidates' = [candidates EXCEPT ![s] = Candidates]
        /\ UNCHANGED <<shared, source>>
    BY <1>1 DEF Start, Move
  <2>3. candidates' \in [Sessions -> Seq(Addresses)] /\ candidates'[s] # <<>>
    BY <2>1, <2>2 DEF TypeOK
  <2> QED
    BY <2>2, <2>3 DEF TypeOK, shared
<1>2. ASSUME NEW s \in Sessions, ConnectOk(s) PROVE TypeOK'
  <2>1. /\ pc[s] = "connecting" /\ pc' = [pc EXCEPT ![s] = "open"]
        /\ source' = [source EXCEPT ![s] = Head(candidates[s])]
        /\ candidates' = [candidates EXCEPT ![s] = <<>>]
        /\ UNCHANGED shared
    BY <1>2 DEF ConnectOk, Move
  <2>2. Head(candidates[s]) \in Addresses
    BY <2>1 DEF TypeOK
  <2>3. /\ candidates' \in [Sessions -> Seq(Addresses)]
        /\ source' \in [Sessions -> Addresses \cup {NoAddress}]
        /\ source'[s] # NoAddress
    BY <2>1, <2>2, RotatorAssumption DEF TypeOK
  <2> QED
    BY <2>1, <2>3 DEF TypeOK, shared
<1>3. ASSUME NEW s \in Sessions, NEW fault \in BOOLEAN, ConnectErr(s, fault) PROVE TypeOK'
  <2>1. /\ pc[s] = "connecting"
        /\ pc' = [pc EXCEPT ![s] = IF Len(candidates[s]) = 1 THEN "idle" ELSE "connecting"]
        /\ candidates' = [candidates EXCEPT ![s] = Tail(candidates[s])]
        /\ UNCHANGED <<sources, advances, started_in_cycle, started_total, permits, source>>
        /\ unhealthy' \in {unhealthy, unhealthy \cup {Head(candidates[s])}}
    BY <1>3 DEF ConnectErr, Move, Report
  <2>2. candidates[s] \in Seq(Addresses) /\ candidates[s] # <<>>
    BY <2>1 DEF TypeOK
  <2>3. /\ Head(candidates[s]) \in Addresses /\ Tail(candidates[s]) \in Seq(Addresses)
        /\ Len(candidates[s]) # 1 => Tail(candidates[s]) # <<>>
    <3>1. /\ Head(candidates[s]) \in Addresses /\ Tail(candidates[s]) \in Seq(Addresses)
          /\ Len(Tail(candidates[s])) = Len(candidates[s]) - 1
      BY <2>2, HeadTailProperties
    <3>2. Len(candidates[s]) \in Nat
      BY <2>2, LenProperties
    <3>3. Tail(candidates[s]) = <<>> => Len(Tail(candidates[s])) = 0
      BY EmptySeq, Zenon
    <3> QED
      BY <3>1, <3>2, <3>3
  <2>4. unhealthy' \subseteq Addresses
    BY <2>1, <2>3 DEF TypeOK
  <2>5. candidates' \in [Sessions -> Seq(Addresses)] /\ candidates'[s] = Tail(candidates[s])
    BY <2>1, <2>3 DEF TypeOK
  <2>6. /\ pc' \in [Sessions -> {"idle", "connecting", "open", "waiting", "granted", "transfer"}]
        /\ pc'[s] = (IF Len(candidates[s]) = 1 THEN "idle" ELSE "connecting")
    BY <2>1 DEF TypeOK
  <2>7. \A r \in Sessions : pc'[r] = "connecting" => candidates'[r] # <<>>
    BY <2>1, <2>3, <2>5, <2>6 DEF TypeOK
  <2> QED
    BY <2>1, <2>4, <2>5, <2>6, <2>7, Zenon DEF TypeOK
<1>4. ASSUME NEW s \in Sessions, Request(s) \/ SlotTimeout(s) PROVE TypeOK'
  BY <1>4, Zenon DEF Request, SlotTimeout, Move, TypeOK, shared
<1>5. ASSUME NEW s \in Sessions, Permit(s) PROVE TypeOK'
  BY <1>0, <1>5 DEF Permit, TakePermit, Move, TypeOK
<1>6. ASSUME NEW s \in Sessions, Started(s) PROVE TypeOK'
  <2>1. /\ pc[s] = "granted" /\ pc' = [pc EXCEPT ![s] = "transfer"]
        /\ started_total' = [started_total EXCEPT ![source[s]] = @ + 1]
        /\ UNCHANGED <<sources, unhealthy, permits, candidates, source>>
    BY <1>6 DEF Started, Count, Move
  <2>2. source[s] \in Addresses
    BY <2>1 DEF TypeOK
  <2>3. started_total' \in [Addresses -> Nat]
    BY <2>1, <2>2 DEF TypeOK
  <2>4. advances' \in Nat /\ started_in_cycle' \in 0 .. Capacity - 1
    BY <1>6, RotatorAssumption DEF Started, Count, TypeOK
  <2> QED
    BY <2>1, <2>3, <2>4 DEF TypeOK
<1>7. ASSUME NEW s \in Sessions, FreeSlot(s), unhealthy' \subseteq Addresses PROVE TypeOK'
  BY <1>0, <1>7 DEF FreeSlot, Move, TypeOK
<1>8. ASSUME NEW s \in Sessions, NEW fault \in BOOLEAN, DataConnectErr(s, fault) PROVE TypeOK'
  <2>1. source[s] \in Addresses
    BY <1>8, Zenon DEF DataConnectErr, FreeSlot, Move, TypeOK
  <2> QED
    BY <1>7, <1>8, <2>1, Zenon DEF DataConnectErr, Report, TypeOK
<1>9. ASSUME NEW s \in Sessions, Drop(s) PROVE TypeOK'
  BY <1>7, <1>9 DEF Drop, TypeOK
<1>10. ASSUME NEW s \in Sessions, Close(s) PROVE TypeOK'
  BY <1>10 DEF Close, Move, TypeOK, shared
<1>11. ASSUME NEW new \in Listings, SetSources(new) PROVE TypeOK'
  BY <1>11 DEF SetSources, Listings, TypeOK
<1>12. ASSUME NEW a \in Addresses, Recover(a) PROVE TypeOK'
  BY <1>12 DEF Recover, TypeOK
<1>13. CASE UNCHANGED vars
  BY <1>13 DEF vars, shared, TypeOK
<1> QED
  BY <1>1, <1>2, <1>3, <1>4, <1>5, <1>6, <1>8, <1>9, <1>10, <1>11, <1>12, <1>13 DEF Next, Step

(* Initially nothing is connected and every address is healthy.              *)
LEMMA InitTypeOK == Init => TypeOK
BY RotatorAssumption DEF Init, TypeOK

-----------------------------------------------------------------------------
(* The transfers are finitely many and the cycles account for all of them.   *)
CycleInv == IsFiniteSet(Transfers) /\ CycleAccounted

(* A transfer of an address is one of the numbers up to its total.           *)
LEMMA TransferOf ==
  ASSUME NEW t
  PROVE  t \in Transfers <=>
           \E a \in Addresses : \E k \in 1 .. started_total[a] : t = <<a, k>>
<1>1. \A a \in Addresses : snapshot_at[a].started_total = started_total[a]
  BY DEF snapshot_at
<1>2. \A a : \A k : \A S : <<a, k>> \in {a} \X S <=> k \in S
  OBVIOUS
<1> QED
  BY <1>1 DEF Transfers

(* Nothing has been started at first.                                        *)
LEMMA InitCycleInv == Init => CycleInv
<1> SUFFICES ASSUME Init PROVE CycleInv
  OBVIOUS
<1>1. Transfers = {}
  <2>1. \A a \in Addresses : started_total[a] = 0
    BY DEF Init
  <2> QED
    BY <2>1, TransferOf
<1> QED
  BY <1>1, FS_EmptySet, RotatorAssumption DEF Init, CycleInv, CycleAccounted

(* A transfer that starts is one more, and goes into the cycle or ends it.    *)
LEMMA StartedCounts == ASSUME TypeOK, CycleInv, NEW s \in Sessions, Started(s) PROVE CycleInv'
<1> DEFINE new == <<source[s], started_total[source[s]] + 1>>
<1>1. /\ source[s] \in Addresses /\ started_total \in [Addresses -> Nat]
      /\ started_total' = [started_total EXCEPT ![source[s]] = started_total[source[s]] + 1]
  BY Zenon DEF Started, Count, Move, TypeOK
<1>2. started_total[source[s]] \in Nat /\ started_total'[source[s]] = started_total[source[s]] + 1
  BY <1>1
<1>3. new \notin Transfers
  <2>1. ASSUME NEW a \in Addresses, NEW k \in 1 .. started_total[a], new = <<a, k>> PROVE FALSE
    <3>1. a = source[s] /\ k = started_total[source[s]] + 1
      BY <2>1
    <3>2. k \in 1 .. started_total[source[s]]
      BY <3>1
    <3> QED
      BY <1>2, <3>1, <3>2
  <2> QED
    BY <2>1, TransferOf
<1>4. \A t : t \in Transfers' <=> \E a \in Addresses : \E k \in 1 .. started_total'[a] : t = <<a, k>>
  <2>1. \A a \in Addresses : snapshot_at'[a].started_total = started_total'[a]
    BY DEF snapshot_at
  <2> QED
    BY <2>1 DEF Transfers
<1>5. ASSUME NEW t PROVE t \in Transfers' <=> t \in Transfers \/ t = new
  <2>1. \A a \in Addresses \ {source[s]} : started_total'[a] = started_total[a]
    BY <1>1
  <2>2. \A k : k \in 1 .. started_total'[source[s]] <=>
                 k \in 1 .. started_total[source[s]] \/ k = started_total[source[s]] + 1
    BY <1>2
  <2> HIDE DEF Transfers
  <2>3. t \in Transfers' => t \in Transfers \/ t = new
    BY <1>1, <1>4, <2>1, <2>2, TransferOf
  <2>4. t \in Transfers => t \in Transfers'
    BY <1>1, <1>4, <2>1, <2>2, TransferOf
  <2>5. new \in Transfers'
    BY <1>1, <1>4, <2>2
  <2> QED
    BY <2>3, <2>4, <2>5
<1>6. Transfers' = Transfers \cup {new}
  BY <1>5
<1>7. IsFiniteSet(Transfers') /\ Cardinality(Transfers') = Cardinality(Transfers) + 1
  BY <1>3, <1>6, FS_AddElement DEF CycleInv
<1>8. /\ advances \in Nat /\ Capacity \in Nat \ {0} /\ started_in_cycle \in 0 .. Capacity - 1
      /\ \/ /\ started_in_cycle + 1 >= Capacity
            /\ advances' = advances + 1 /\ started_in_cycle' = 0
         \/ started_in_cycle' = started_in_cycle + 1 /\ advances' = advances
  BY RotatorAssumption DEF TypeOK, Started, Count
<1>9. advances' * Capacity + started_in_cycle' = advances * Capacity + started_in_cycle + 1
  BY <1>8
<1>10. advances * Capacity + started_in_cycle = Cardinality(Transfers)
  BY DEF CycleInv, CycleAccounted
<1> QED
  BY <1>7, <1>9, <1>10 DEF CycleInv, CycleAccounted

(* No other step changes what is counted.                                    *)
LEMMA NextCycleInv == TypeOK /\ CycleInv /\ [Next]_vars => CycleInv'
<1> SUFFICES ASSUME TypeOK, CycleInv, [Next]_vars PROVE CycleInv'
  OBVIOUS
<1>1. CASE UNCHANGED <<advances, started_in_cycle, started_total>>
  <2>1. Transfers' = Transfers
    BY <1>1 DEF Transfers, snapshot_at
  <2> QED
    BY <1>1, <2>1 DEF CycleInv, CycleAccounted
<1>2. CASE \E s \in Sessions : Started(s)
  BY <1>2, StartedCounts
<1>3. ASSUME NEW s \in Sessions, Step(s), ~Started(s)
      PROVE  UNCHANGED <<advances, started_in_cycle, started_total>>
  BY <1>3 DEF Step, Start, ConnectOk, ConnectErr, Request, Permit, TakePermit, SlotTimeout,
              Drop, FreeSlot, DataConnectErr, Close, shared
<1>4. CASE (\E new \in Listings : SetSources(new)) \/ (\E a \in Addresses : Recover(a))
  BY <1>1, <1>4 DEF SetSources, Recover
<1>5. CASE UNCHANGED vars
  BY <1>1, <1>5 DEF vars, shared
<1> QED
  BY <1>1, <1>2, <1>3, <1>4, <1>5 DEF Next

(* The types, which hold a session's promise to the loop that connects it: a *)
(* session that connects has a candidate left, and one that is connected has *)
(* an address; and the current source moves on after exactly as many         *)
(* transfers as the backend has ports, whichever addresses they were from.   *)
THEOREM RotationSafe == Spec => [](TypeOK /\ CycleAccounted)
<1>1. CycleInv => CycleAccounted
  BY DEF CycleInv
<1> QED
  BY <1>1, InitSlotInv, NextSlotInv, InitTypeOK, NextTypeOK, InitCycleInv, NextCycleInv, PTL DEF Spec

(* candidates_at returns the listed addresses that are not left out, or all  *)
(* of them when every one is, each once and the current one first, after any *)
(* refreshes, failures and rotations.                                        *)
THEOREM CandidatesAreRight == Spec => []CandidatesRight
<1>1. TypeOK => CandidatesRight
  BY CandidatesOK DEF TypeOK, SourcesOK
<1> QED
  BY <1>1, RotationSafe, PTL
=============================================================================
