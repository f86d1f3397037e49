--------------------------- MODULE Startup_proofs ---------------------------
(***************************************************************************)
(* Proofs about what main does before it checks or watches: the filling in *)
(* of ids (Resolve) and the proxy test (Preflight).                        *)
(*                                                                         *)
(* Resolve, for every list, account, number of workers, saves and renames: *)
(* its invariant says where the lines, the answers and the file agree      *)
(* while runResolve is under way.  The lists need lemmas about positions   *)
(* put in order, which are proved first.                                   *)
(*                                                                         *)
(* Preflight, for every list, number of workers, saves and restarts: no    *)
(* proxy is lost between the two files, and one that was not asked stays.  *)
(***************************************************************************)
EXTENDS Resolve, Preflight, FunctionTheorems, FiniteSetTheorems, WellFoundedInduction, TLAPS

\* A set of numbers has a least one.
LEMMA LeastNumber == ASSUME NEW T \in SUBSET Nat, T # {} PROVE \E n \in T : \A m \in T : n <= m
<1>1. PICK n \in T : \A m \in T : <<m, n>> \notin OpToRel(<, Nat)
  <2>1. T \subseteq Nat /\ T # {}
    OBVIOUS
  <2> QED BY <2>1, NatLessThanWellFounded, WFMin
<1>2. \A m \in T : ~(m < n)
  BY <1>1 DEF OpToRel
<1> QED BY <1>2

Increasing(S) ==
    {f \in [1 .. Cardinality(S) -> S] : \A j, k \in DOMAIN f : j < k => f[j] < f[k]}

LEMMA IncreasingExists ==
  ASSUME NEW n \in Nat, NEW S \in SUBSET (1 .. n)
  PROVE  IsFiniteSet(S) /\ Cardinality(S) \in Nat /\ Increasing(S) # {}
<1>1. ASSUME NEW U \in SUBSET (1 .. n) PROVE IsFiniteSet(U) /\ Cardinality(U) \in Nat
  <2>1. IsFiniteSet(1 .. n)
    BY FS_Interval
  <2>2. IsFiniteSet(U)
    BY <2>1, FS_Subset
  <2> QED BY <2>2, FS_CardinalityType
<1> DEFINE Bad == {b \in Nat : b <= n /\ \E U \in SUBSET (1 .. b) : Increasing(U) = {}}
<1>2. Bad = {}
  <2> SUFFICES ASSUME Bad # {} PROVE FALSE
    OBVIOUS
  <2>1. PICK b \in Bad : \A m \in Bad : b <= m
    BY LeastNumber
  <2>2. PICK U \in SUBSET (1 .. b) : Increasing(U) = {}
    BY <2>1
  <2>3. CASE b \notin U
    <3>1. U \in SUBSET (1 .. b - 1) /\ (b = 0 => U = {})
      BY <2>3
    <3>2. CASE b = 0
      <4>1. U = {} /\ Cardinality(U) = 0
        BY <3>1, <3>2, FS_EmptySet
      <4>2. [j \in 1 .. 0 |-> 1] \in Increasing(U)
        BY <4>1 DEF Increasing
      <4> QED BY <2>2, <4>2
    <3>3. CASE b # 0
      BY <2>1, <2>2, <3>1, <3>3
    <3> QED BY <3>2, <3>3
  <2>4. CASE b \in U
    <3> DEFINE V == U \ {b}
    <3>1. V \in SUBSET (1 .. b - 1) /\ b - 1 \in Nat /\ b - 1 < b /\ b - 1 <= n
      BY <2>4, <2>1
    <3>2. PICK f : f \in Increasing(V)
      <4>1. b - 1 \notin Bad
        <5>1. ASSUME b - 1 \in Bad PROVE b <= b - 1
          BY <2>1, <5>1
        <5> QED BY <5>1, <3>1
      <4> QED BY <3>1, <4>1
    <3>3. IsFiniteSet(U) /\ Cardinality(U) \in Nat /\ Cardinality(V) = Cardinality(U) - 1
          /\ Cardinality(V) \in Nat
      <4>1. IsFiniteSet(U)
        BY <1>1, <2>1
      <4> QED BY <4>1, <2>4, FS_RemoveElement, FS_CardinalityType
    <3> DEFINE c == Cardinality(U)
    <3> DEFINE g == [j \in 1 .. c |-> IF j = c THEN b ELSE f[j]]
    <3>4. f \in [1 .. c - 1 -> V] /\ \A j, k \in 1 .. c - 1 : j < k => f[j] < f[k]
      BY <3>2, <3>3 DEF Increasing
    <3>5. c \in Nat
      BY <3>3
    <3>6. \A j \in 1 .. c - 1 : f[j] \in U /\ f[j] < b
      <4>1. \A j \in 1 .. c - 1 : f[j] \in V
        BY <3>4
      <4>2. \A v \in V : v \in U /\ v < b
        BY <3>1
      <4> QED BY <4>1, <4>2
    <3> HIDE DEF c
    <3>7. g \in [1 .. c -> U]
      BY <2>4, <3>5, <3>6
    <3>8. \A j, k \in 1 .. c : j < k => g[j] < g[k]
      BY <3>4, <3>5, <3>6
    <3>9. g \in Increasing(U)
      BY <3>7, <3>8 DEF c, Increasing
    <3> QED BY <2>2, <3>9
  <2> QED BY <2>3, <2>4
<1>3. Increasing(S) # {}
  BY <1>2
<1> QED BY <1>1, <1>3

LEMMA AscendingType ==
  ASSUME NEW n \in Nat, NEW S \in SUBSET (1 .. n)
  PROVE  /\ IsFiniteSet(S) /\ Cardinality(S) \in Nat
         /\ Ascending(S) \in [1 .. Cardinality(S) -> S]
         /\ \A j, k \in 1 .. Cardinality(S) : j < k => Ascending(S)[j] < Ascending(S)[k]
         /\ \A i \in S : \E k \in 1 .. Cardinality(S) : Ascending(S)[k] = i
<1> DEFINE c == Cardinality(S)
           f == Ascending(S)
<1>1. IsFiniteSet(S) /\ c \in Nat
  BY IncreasingExists
<1>2. Increasing(S) # {}
  BY IncreasingExists
<1>3. f \in Increasing(S)
  BY <1>2 DEF Ascending, Increasing
<1>4. f \in [1 .. c -> S] /\ \A j, k \in 1 .. c : j < k => f[j] < f[k]
  BY <1>3 DEF Increasing
<1>5. \A j, k \in 1 .. c : f[j] = f[k] => j = k
  <2> HIDE DEF f, c
  <2> SUFFICES ASSUME NEW j \in 1 .. c, NEW k \in 1 .. c, f[j] = f[k], j # k PROVE FALSE
    OBVIOUS
  <2>1. f[j] \in Nat /\ f[k] \in Nat
    <3>1. f[j] \in S /\ f[k] \in S
      BY <1>4
    <3>2. \A i \in S : i \in Nat
      OBVIOUS
    <3> QED BY <3>1, <3>2
  <2>2. j < k \/ k < j
    BY <1>1
  <2> QED BY <1>4, <2>1, <2>2
<1>6. f \in Injection(1 .. c, S)
  BY <1>4, <1>5 DEF Injection, IsInjective
<1>7. Cardinality(1 .. c) = c
  BY <1>1, FS_Interval
<1>8. f \in Surjection(1 .. c, S)
  BY <1>1, <1>6, <1>7, FS_Injection
<1> QED BY <1>1, <1>4, <1>8 DEF Surjection

\* There is one way to put a set in order.
LEMMA AscendingUnique ==
  ASSUME NEW n \in Nat, NEW S \in SUBSET (1 .. n), NEW g \in [1 .. Cardinality(S) -> S],
         \A j, k \in 1 .. Cardinality(S) : j < k => g[j] < g[k],
         \A i \in S : \E k \in 1 .. Cardinality(S) : g[k] = i
  PROVE  g = Ascending(S)
<1> DEFINE c == Cardinality(S)
           f == Ascending(S)
           Bad == {k \in 1 .. c : f[k] # g[k]}
<1>1. /\ c \in Nat /\ f \in [1 .. c -> S] /\ g \in [1 .. c -> S]
      /\ \A j, k \in 1 .. c : j < k => f[j] < f[k]
      /\ \A j, k \in 1 .. c : j < k => g[j] < g[k]
      /\ \A i \in S : \E k \in 1 .. c : f[k] = i
      /\ \A i \in S : \E k \in 1 .. c : g[k] = i
  BY AscendingType
<1> HIDE DEF c, f
<1>2. Bad = {}
  <2> SUFFICES ASSUME Bad # {} PROVE FALSE
    OBVIOUS
  <2>1. PICK k \in Bad : \A m \in Bad : k <= m
    <3>1. Bad \in SUBSET Nat
      BY <1>1
    <3> QED BY <3>1, LeastNumber
  <2>2. f[k] \in Nat /\ g[k] \in Nat /\ f[k] # g[k]
    <3>1. f[k] \in S /\ g[k] \in S
      BY <1>1
    <3>2. \A i \in S : i \in Nat
      OBVIOUS
    <3> QED BY <2>1, <3>1, <3>2
  <2>3. ASSUME f[k] < g[k] PROVE FALSE
    <3>1. PICK j \in 1 .. c : g[j] = f[k]
      BY <1>1
    <3>2. j < k
      <4>1. j = k \/ k < j \/ j < k
        BY <1>1
      <4> QED BY <1>1, <2>2, <2>3, <3>1, <4>1
    <3>3. f[j] = g[j]
      BY <2>1, <3>2
    <3> QED BY <1>1, <2>2, <3>1, <3>2, <3>3
  <2>4. ASSUME g[k] < f[k] PROVE FALSE
    <3>1. PICK j \in 1 .. c : f[j] = g[k]
      BY <1>1
    <3>2. j < k
      <4>1. j = k \/ k < j \/ j < k
        BY <1>1
      <4> QED BY <1>1, <2>2, <2>4, <3>1, <4>1
    <3>3. f[j] = g[j]
      BY <2>1, <3>2
    <3>4. g[j] < g[k] /\ g[j] = g[k]
      BY <1>1, <3>1, <3>2, <3>3
    <3> QED BY <2>2, <3>4
  <2> QED BY <2>2, <2>3, <2>4
<1>3. \A k \in 1 .. c : f[k] = g[k]
  BY <1>2
<1>4. f = g
  <2>1. f = [k \in 1 .. c |-> f[k]] /\ g = [k \in 1 .. c |-> g[k]]
    BY <1>1
  <2> QED BY <1>3, <2>1
<1> QED BY <1>4 DEF f

\* A subset is put in order as it stands in the whole.
LEMMA AscendingWithin ==
  ASSUME NEW n \in Nat, NEW S \in SUBSET (1 .. n), NEW T \in SUBSET S,
         NEW K \in SUBSET (1 .. Cardinality(S)),
         \A k \in 1 .. Cardinality(S) : k \in K <=> Ascending(S)[k] \in T
  PROVE  /\ Cardinality(K) = Cardinality(T)
         /\ \A m \in 1 .. Cardinality(T) :
               Ascending(K)[m] \in K /\ Ascending(T)[m] = Ascending(S)[Ascending(K)[m]]
<1> DEFINE c == Cardinality(S)
           s == Ascending(S)
           b == [k \in K |-> s[k]]
           d == Cardinality(T)
           o == Ascending(K)
           g == [m \in 1 .. d |-> s[o[m]]]
<1>1. /\ IsFiniteSet(S) /\ c \in Nat /\ s \in [1 .. c -> S]
      /\ \A j, k \in 1 .. c : j < k => s[j] < s[k]
      /\ \A i \in S : \E k \in 1 .. c : s[k] = i
  BY AscendingType
<1>2. K \in SUBSET (1 .. c) /\ T \in SUBSET (1 .. n)
  OBVIOUS
<1>3. IsFiniteSet(K) /\ IsFiniteSet(T)
  BY <1>1, <1>2, IncreasingExists
<1>4. K \subseteq 1 .. c /\ \A k \in 1 .. c : k \in K <=> s[k] \in T
  OBVIOUS
<1> HIDE DEF s, c
<1>5. b \in Injection(K, T)
  <2>1. b \in [K -> T]
    BY <1>4
  <2>2. ASSUME NEW j \in K, NEW k \in K, b[j] = b[k] PROVE j = k
    <3>1. s[j] = s[k] /\ s[j] \in S /\ s[k] \in S /\ j \in 1 .. c /\ k \in 1 .. c
      BY <1>1, <1>4, <2>2
    <3>2. \A i \in S : i \in Nat
      OBVIOUS
    <3>3. j = k \/ j < k \/ k < j
      BY <3>1, <1>1
    <3>4. s[j] \in Nat
      BY <3>1, <3>2
    <3> QED BY <1>1, <3>1, <3>3, <3>4
  <2> QED BY <2>1, <2>2 DEF Injection, IsInjective
<1>6. b \in Surjection(K, T)
  <2>1. \A t \in T : \E k \in K : b[k] = t
    BY <1>1, <1>4
  <2> QED BY <1>5, <2>1 DEF Surjection, Injection
<1>7. Cardinality(K) = d
  BY <1>3, <1>5, <1>6, FS_Injection
<1>8. /\ o \in [1 .. d -> K] /\ \A j, k \in 1 .. d : j < k => o[j] < o[k]
      /\ \A i \in K : \E k \in 1 .. d : o[k] = i
  <2>1. c \in Nat /\ K \in SUBSET (1 .. c)
    BY <1>1, <1>4
  <2>2. /\ o \in [1 .. Cardinality(K) -> K]
        /\ \A j, k \in 1 .. Cardinality(K) : j < k => o[j] < o[k]
        /\ \A i \in K : \E k \in 1 .. Cardinality(K) : o[k] = i
    BY <2>1, AscendingType
  <2> QED BY <1>7, <2>2
<1> HIDE DEF o, d
<1>9. g \in [1 .. d -> T]
  BY <1>4, <1>8
<1>10. \A j, k \in 1 .. d : j < k => g[j] < g[k]
  <2> SUFFICES ASSUME NEW j \in 1 .. d, NEW k \in 1 .. d, j < k PROVE s[o[j]] < s[o[k]]
    OBVIOUS
  <2>1. o[j] \in 1 .. c /\ o[k] \in 1 .. c /\ o[j] < o[k]
    BY <1>4, <1>8
  <2> QED BY <1>1, <2>1
<1>11. \A i \in T : \E m \in 1 .. d : g[m] = i
  <2> SUFFICES ASSUME NEW i \in T PROVE \E m \in 1 .. d : s[o[m]] = i
    OBVIOUS
  <2>1. PICK k \in 1 .. c : s[k] = i
    BY <1>1
  <2>2. k \in K
    BY <1>4, <2>1
  <2>3. PICK m \in 1 .. d : o[m] = k
    BY <1>8, <2>2
  <2> QED BY <2>1, <2>3
<1> HIDE DEF g
<1>12. g = Ascending(T)
  BY <1>2, <1>9, <1>10, <1>11, AscendingUnique DEF d
<1>13. \A m \in 1 .. d : Ascending(T)[m] = s[o[m]]
  BY <1>12 DEF g
<1> QED BY <1>2, <1>7, <1>8, <1>13 DEF s, c, o, d

LEMMA SublistType ==
  ASSUME NEW X, NEW list \in Seq(X), NEW S \in SUBSET DOMAIN list
  PROVE  /\ Sublist(list, S) \in Seq(X) /\ DOMAIN Sublist(list, S) = 1 .. Cardinality(S)
         /\ Cardinality(S) \in Nat
         /\ Sublist(list, S) = [k \in 1 .. Cardinality(S) |-> list[Ascending(S)[k]]]
         /\ \A k \in 1 .. Cardinality(S) :
               Ascending(S)[k] \in S /\ Sublist(list, S)[k] = list[Ascending(S)[k]]
<1>1. Len(list) \in Nat /\ S \in SUBSET (1 .. Len(list)) /\ \A i \in S : list[i] \in X
  OBVIOUS
<1>2. Cardinality(S) \in Nat /\ Ascending(S) \in [1 .. Cardinality(S) -> S]
  BY <1>1, AscendingType
<1>3. Sublist(list, S) = [k \in 1 .. Cardinality(S) |-> list[Ascending(S)[k]]]
  BY <1>2 DEF Sublist
<1>4. \A k \in 1 .. Cardinality(S) : list[Ascending(S)[k]] \in X
  BY <1>1, <1>2
<1>5. Sublist(list, S) \in Seq(X)
  BY <1>2, <1>3, <1>4
<1>6. DOMAIN Sublist(list, S) = 1 .. Cardinality(S)
  BY <1>3
<1>7. \A k \in 1 .. Cardinality(S) : Ascending(S)[k] \in S
  BY <1>2
<1> QED BY <1>2, <1>3, <1>5, <1>6, <1>7

\* A sublist of a sublist is the sublist of what is in both.
LEMMA SublistOfSublist ==
  ASSUME NEW X, NEW list \in Seq(X), NEW S \in SUBSET DOMAIN list, NEW T \in SUBSET S
  PROVE  Sublist(Sublist(list, S), {k \in DOMAIN Sublist(list, S) : Ascending(S)[k] \in T})
           = Sublist(list, T)
<1> DEFINE mid == Sublist(list, S)
           K == {k \in DOMAIN mid : Ascending(S)[k] \in T}
<1>1. /\ mid \in Seq(X) /\ DOMAIN mid = 1 .. Cardinality(S)
      /\ \A k \in 1 .. Cardinality(S) : mid[k] = list[Ascending(S)[k]]
  BY SublistType
<1>2. Len(list) \in Nat /\ S \in SUBSET (1 .. Len(list))
  OBVIOUS
<1>3. K = {k \in 1 .. Cardinality(S) : Ascending(S)[k] \in T}
  BY <1>1
<1> HIDE DEF mid, K
<1>4. /\ K \in SUBSET (1 .. Cardinality(S)) /\ Cardinality(K) = Cardinality(T)
      /\ \A m \in 1 .. Cardinality(T) :
            Ascending(K)[m] \in K /\ Ascending(T)[m] = Ascending(S)[Ascending(K)[m]]
  <2>1. K \in SUBSET (1 .. Cardinality(S))
        /\ \A k \in 1 .. Cardinality(S) : k \in K <=> Ascending(S)[k] \in T
    BY <1>3
  <2>2. /\ Cardinality(K) = Cardinality(T)
        /\ \A m \in 1 .. Cardinality(T) :
              Ascending(K)[m] \in K /\ Ascending(T)[m] = Ascending(S)[Ascending(K)[m]]
    <3> DEFINE n == Len(list)
    <3>1. n \in Nat /\ S \in SUBSET (1 .. n) /\ T \in SUBSET S
      BY <1>2
    <3> HIDE DEF n
    <3> QED BY <2>1, <3>1, AscendingWithin
  <2> QED BY <2>1, <2>2
<1>5. K \in SUBSET DOMAIN mid
  BY <1>1, <1>4
<1>7. T \in SUBSET DOMAIN list
  OBVIOUS
<1>8. Sublist(mid, K) = [m \in 1 .. Cardinality(T) |-> mid[Ascending(K)[m]]]
  BY <1>1, <1>4, <1>5, SublistType
<1>9. Sublist(list, T) = [m \in 1 .. Cardinality(T) |-> list[Ascending(T)[m]]]
  BY <1>7, SublistType
<1>10. Sublist(mid, K) = Sublist(list, T)
  <2>1. \A m \in 1 .. Cardinality(T) : mid[Ascending(K)[m]] = list[Ascending(T)[m]]
    BY <1>1, <1>3, <1>4
  <2> QED BY <1>8, <1>9, <2>1
<1> QED BY <1>10 DEF mid, K
-----------------------------------------------------------------------------
Words == Names \cup {Comment}

LEMMA NamesOfType ==
  ASSUME NEW list \in Seq(Lines)
  PROVE  /\ NamesOf(list) \in Seq(Words) /\ DOMAIN NamesOf(list) = DOMAIN list
         /\ \A i \in DOMAIN list : NamesOf(list)[i] = list[i].name /\ list[i] \in Lines
<1>1. \A i \in DOMAIN list : list[i] \in Lines /\ list[i].name \in Words
  <2>1. \A i \in DOMAIN list : list[i] \in Lines
    OBVIOUS
  <2>2. \A l \in Lines : l.name \in Words
    BY DEF Lines, Words
  <2> QED BY <2>1, <2>2
<1>2. NamesOf(list) = [i \in 1 .. Len(list) |-> list[i].name] /\ Len(list) \in Nat
  BY DEF NamesOf
<1>3. NamesOf(list) \in Seq(Words)
  BY <1>1, <1>2
<1> QED BY <1>1, <1>2, <1>3

\* The names of a list without those in F: Entries is such a list.
Without(list, F) == Sublist(NamesOf(list), {i \in DOMAIN list : list[i].name \notin F})

Drop(list, n) == Sublist(list, {k \in DOMAIN list : list[k] # n})

\* One more name is taken out of what is left without the others.
LEMMA WithoutStep ==
  ASSUME NEW list \in Seq(Lines), NEW F, NEW n
  PROVE  Without(list, F \cup {n}) = Drop(Without(list, F), n)
<1> DEFINE all == NamesOf(list)
           S == {i \in DOMAIN list : list[i].name \notin F}
           T == {i \in DOMAIN list : list[i].name \notin F \cup {n}}
           mid == Sublist(all, S)
<1>1. /\ all \in Seq(Words) /\ DOMAIN all = DOMAIN list
      /\ \A i \in DOMAIN list : all[i] = list[i].name
  BY NamesOfType
<1>2. S \in SUBSET DOMAIN all /\ T \in SUBSET S
  BY <1>1
<1>3. \A i \in S : i \in T <=> all[i] # n
  BY <1>1
<1> HIDE DEF all, S, T
<1>4. /\ DOMAIN mid = 1 .. Cardinality(S)
      /\ \A k \in 1 .. Cardinality(S) : Ascending(S)[k] \in S /\ mid[k] = all[Ascending(S)[k]]
  BY <1>1, <1>2, SublistType
<1>5. Sublist(mid, {k \in DOMAIN mid : Ascending(S)[k] \in T}) = Sublist(all, T)
  BY <1>1, <1>2, SublistOfSublist
<1>6. {k \in DOMAIN mid : Ascending(S)[k] \in T} = {k \in DOMAIN mid : mid[k] # n}
  BY <1>3, <1>4
<1>7. Sublist(all, T) = Sublist(mid, {k \in DOMAIN mid : mid[k] # n})
  BY <1>5, <1>6
<1> QED BY <1>7 DEF Without, Drop, all, S, T

\* Taking the lines of a name out of the file changes nothing but that name.
LEMMA WithoutPruned ==
  ASSUME NEW list \in Seq(Lines), NEW F, NEW n \in F
  PROVE  Pruned(list, n) \in Seq(Lines) /\ Without(Pruned(list, n), F) = Without(list, F)
<1> DEFINE all == NamesOf(list)
           S == {i \in DOMAIN list : list[i] # [name |-> n, id |-> None]}
           T == {i \in DOMAIN list : list[i].name \notin F}
           kept == Sublist(list, S)
           mid == Sublist(all, S)
<1>1. /\ all \in Seq(Words) /\ DOMAIN all = DOMAIN list
      /\ \A i \in DOMAIN list : all[i] = list[i].name
  BY NamesOfType
<1>2. S \in SUBSET DOMAIN list /\ T \in SUBSET S
  OBVIOUS
<1>3. \A i \in S : i \in T <=> list[i].name \notin F
  OBVIOUS
<1> HIDE DEF all, S, T
<1>4. /\ kept \in Seq(Lines) /\ DOMAIN kept = 1 .. Cardinality(S)
      /\ kept = [k \in 1 .. Cardinality(S) |-> list[Ascending(S)[k]]]
      /\ \A k \in 1 .. Cardinality(S) : Ascending(S)[k] \in S /\ kept[k] = list[Ascending(S)[k]]
  BY <1>2, SublistType
<1>5. mid = [k \in 1 .. Cardinality(S) |-> all[Ascending(S)[k]]]
  BY <1>1, <1>2, SublistType
<1>6. NamesOf(kept) = mid /\ DOMAIN mid = DOMAIN kept
  <2>1. NamesOf(kept) = [k \in 1 .. Cardinality(S) |-> kept[k].name]
    BY <1>4 DEF NamesOf
  <2>2. \A k \in 1 .. Cardinality(S) : kept[k].name = all[Ascending(S)[k]]
    BY <1>1, <1>2, <1>4
  <2>3. DOMAIN mid = 1 .. Cardinality(S)
    BY <1>5
  <2> QED BY <1>4, <1>5, <2>1, <2>2, <2>3
<1>7. {k \in DOMAIN kept : kept[k].name \notin F} = {k \in DOMAIN mid : Ascending(S)[k] \in T}
  BY <1>3, <1>4, <1>6
<1>8. Sublist(mid, {k \in DOMAIN mid : Ascending(S)[k] \in T}) = Sublist(all, T)
  BY <1>1, <1>2, SublistOfSublist
<1>9. Without(kept, F) = Sublist(all, T)
  BY <1>6, <1>7, <1>8 DEF Without
<1>10. Without(list, F) = Sublist(all, T)
  BY DEF Without, all, T
<1>11. Pruned(list, n) = kept
  BY DEF Pruned, S
<1> QED BY <1>4, <1>9, <1>10, <1>11
-----------------------------------------------------------------------------
LEMMA Empty == \A X : <<>> \in Seq(X) /\ DOMAIN <<>> = {} /\ <<>> \in [{} -> X]
OBVIOUS

LEMMA LoadedType == ASSUME NEW list \in Seq(Lines) PROVE Loaded(list) \in Seq(Names)
<1> DEFINE S == {i \in DOMAIN list : Named(list[i]) /\ \A j \in 1 .. i - 1 : list[j] # list[i]}
           all == NamesOf(list)
<1>1. /\ all \in Seq(Words) /\ DOMAIN all = DOMAIN list
      /\ \A i \in DOMAIN list : all[i] = list[i].name /\ list[i] \in Lines
  BY NamesOfType
<1>2. S \in SUBSET DOMAIN all /\ \A i \in S : all[i] \in Names
  BY <1>1 DEF Named, Lines
<1> HIDE DEF S, all
<1>3. /\ Sublist(all, S) = [k \in 1 .. Cardinality(S) |-> all[Ascending(S)[k]]]
      /\ Cardinality(S) \in Nat
      /\ \A k \in 1 .. Cardinality(S) : Ascending(S)[k] \in S
  BY <1>1, <1>2, SublistType
<1>4. \A k \in 1 .. Cardinality(S) : all[Ascending(S)[k]] \in Names
  BY <1>2, <1>3
<1>5. Sublist(all, S) \in Seq(Names)
  BY <1>3, <1>4
<1> QED BY <1>5 DEF Loaded, S, all

LEMMA PairsType == ASSUME NEW list \in Seq(Lines) PROVE Pairs(list) \subseteq Words \X Ids
<1>1. \A i \in DOMAIN list : list[i] \in Lines
  OBVIOUS
<1>2. \A l \in Lines : l.id # None => l.name \in Words /\ l.id \in Ids
  BY DEF Lines, Words
<1> QED BY <1>1, <1>2 DEF Pairs

\* Nothing is left of the last resolving before the next.
Quiet ==
    at \notin Resolving \cup {"after"} =>
        /\ lines = <<>> /\ jobs = <<>> /\ threads = {} /\ doing = [w \in Workers |-> 0]
        /\ ~inPlace /\ ~wrote

TypeInv == TypeOK /\ Quiet

LEMMA TypeInit == Init => TypeInv
<1> SUFFICES ASSUME Init PROVE TypeInv
  OBVIOUS
<1>1. file \in Seq(Lines) /\ holder \in [Names -> Ids \cup {None}]
  BY ResolveAssumption DEF Init
<1>2. told \subseteq (Names \cup {Comment}) \X Ids
  BY <1>1, PairsType DEF Init, Words
<1>3. /\ lines \in Seq(Lines) /\ usernames \in Seq(Names) /\ work \in Seq(Due) /\ jobs \in Seq(Due)
      /\ idFor \in [DOMAIN lines -> Ids \cup {None}]
  BY Empty DEF Init
<1>4. doing \in [Workers -> Due \cup {0}]
  BY DEF Init
<1>5. ids \subseteq Names \X Ids /\ found \subseteq Names /\ threads \subseteq Workers
      /\ gone \subseteq threads /\ unwritten \subseteq Names \X Ids /\ saved \in Seq(Lines)
  BY <1>1 DEF Init
<1>6. /\ mode \in {"ids", "fill"} /\ at = "off"
      /\ inPlace \in BOOLEAN /\ closed \in BOOLEAN /\ cancelled \in BOOLEAN
      /\ edited \in BOOLEAN /\ clobbered \in BOOLEAN /\ wrote \in BOOLEAN
      /\ saves \in Nat /\ moves \in Nat /\ runs \in Nat
  BY DEF Init
<1>7. Quiet
  BY DEF Init, Quiet
<1> QED BY <1>1, <1>2, <1>3, <1>4, <1>5, <1>6, <1>7 DEF TypeInv, TypeOK

LEMMA DueStays == UNCHANGED <<lines, mode>> => Due' = Due
BY DEF Due, Wanted

LEMMA RewrittenType ==
  ASSUME TypeOK
  PROVE  /\ Rewritten \in Seq(Lines) /\ DOMAIN Rewritten = DOMAIN lines
         /\ \A i \in DOMAIN lines :
               /\ Rewritten[i].name = lines[i].name
               /\ idFor[i] = None => Rewritten[i] = lines[i]
               /\ idFor[i] # None => Rewritten[i] = [lines[i] EXCEPT !.id = idFor[i]]
                                     /\ Rewritten[i].id = idFor[i]
<1>1. \A i \in DOMAIN lines : lines[i] \in Lines /\ idFor[i] \in Ids \cup {None}
  BY DEF TypeOK
<1>2. \A l \in Lines : \A x \in Ids \cup {None} :
        /\ [l EXCEPT !.id = x] \in Lines
        /\ [l EXCEPT !.id = x].name = l.name /\ [l EXCEPT !.id = x].id = x
  BY DEF Lines
<1>3. /\ DOMAIN Rewritten = DOMAIN lines
      /\ \A i \in DOMAIN lines :
            Rewritten[i] = IF idFor[i] = None THEN lines[i] ELSE [lines[i] EXCEPT !.id = idFor[i]]
  BY DEF Rewritten
<1>4. \A i \in DOMAIN lines : Rewritten[i] \in Lines
  BY <1>1, <1>2, <1>3
<1>5. DOMAIN lines = 1 .. Len(lines) /\ Len(lines) \in Nat
  BY DEF TypeOK
<1>6. Rewritten = [i \in 1 .. Len(lines) |-> Rewritten[i]]
  BY <1>5 DEF Rewritten
<1>7. Rewritten \in Seq(Lines)
  BY <1>4, <1>5, <1>6
<1>8. ASSUME NEW i \in DOMAIN lines, idFor[i] = None
      PROVE  Rewritten[i] = lines[i] /\ Rewritten[i].name = lines[i].name
  BY <1>3, <1>8
<1>9. ASSUME NEW i \in DOMAIN lines, idFor[i] # None
      PROVE  /\ Rewritten[i] = [lines[i] EXCEPT !.id = idFor[i]]
             /\ Rewritten[i].name = lines[i].name /\ Rewritten[i].id = idFor[i]
  <2>1. Rewritten[i] = [lines[i] EXCEPT !.id = idFor[i]]
    BY <1>3, <1>9
  <2>2. lines[i] \in Lines /\ idFor[i] \in Ids \cup {None}
    BY <1>1
  <2> QED BY <1>2, <2>1, <2>2
<1> HIDE DEF Rewritten
<1>10. \A i \in DOMAIN lines : Rewritten[i].name = lines[i].name
  BY <1>8, <1>9
<1>11. \A i \in DOMAIN lines : idFor[i] = None => Rewritten[i] = lines[i]
  BY <1>8
<1>12. \A i \in DOMAIN lines : idFor[i] # None =>
         Rewritten[i] = [lines[i] EXCEPT !.id = idFor[i]] /\ Rewritten[i].id = idFor[i]
  BY <1>9
<1> QED BY <1>3, <1>7, <1>10, <1>11, <1>12

\* TypeOK in three parts: what the user and the disk have, what this run of
\* runResolve has, and the rest.
DataOK ==
    /\ file \in Seq(Lines) /\ saved \in Seq(Lines) /\ usernames \in Seq(Names)
    /\ ids \subseteq Names \X Ids /\ told \subseteq (Names \cup {Comment}) \X Ids
    /\ holder \in [Names -> Ids \cup {None}] /\ found \subseteq Names
RunOK ==
    /\ lines \in Seq(Lines) /\ idFor \in [DOMAIN lines -> Ids \cup {None}]
    /\ work \in Seq(Due) /\ jobs \in Seq(Due) /\ doing \in [Workers -> Due \cup {0}]
    /\ threads \subseteq Workers /\ gone \subseteq threads /\ unwritten \subseteq Names \X Ids
RestOK ==
    /\ mode \in {"ids", "fill"}
    /\ at \in Resolving \cup {"off", "starting", "after", "watching", "checking"}
    /\ inPlace \in BOOLEAN /\ closed \in BOOLEAN /\ cancelled \in BOOLEAN
    /\ edited \in BOOLEAN /\ clobbered \in BOOLEAN /\ wrote \in BOOLEAN
    /\ saves \in Nat /\ moves \in Nat /\ runs \in Nat

LEMMA TypeParts == TypeOK <=> DataOK /\ RunOK /\ RestOK
BY DEF TypeOK, DataOK, RunOK, RestOK

LEMMA RunStays ==
  ASSUME RunOK, UNCHANGED <<mode, resolver>> PROVE RunOK'
BY DueStays DEF RunOK, resolver

LEMMA QuietStays ==
  ASSUME Quiet, UNCHANGED <<lines, jobs, threads, doing, inPlace>>, UNCHANGED wrote,
         at' \notin Resolving \cup {"after"} => at' = at \/ at \notin Resolving \cup {"after"}
  PROVE  Quiet'
BY DEF Quiet

LEMMA QuietBusy == at' \in Resolving \cup {"after"} => Quiet'
BY DEF Quiet

LEMMA ForgetsType ==
  ASSUME Forgets
  PROVE  RunOK' /\ Quiet' /\ inPlace' = FALSE /\ closed' = FALSE /\ wrote' = FALSE
<1>1. /\ lines' \in Seq(Lines) /\ work' \in Seq(Due') /\ jobs' \in Seq(Due')
      /\ idFor' \in [DOMAIN lines' -> Ids \cup {None}]
  BY Empty DEF Forgets
<1>2. /\ doing' \in [Workers -> Due' \cup {0}]
      /\ threads' \subseteq Workers /\ gone' \subseteq threads' /\ unwritten' \subseteq Names \X Ids
  BY DEF Forgets
<1>3. Quiet'
  BY DEF Quiet, Forgets
<1> QED BY <1>1, <1>2, <1>3 DEF RunOK, Forgets

LEMMA EndsType == TypeInv /\ Ends => TypeInv'
<1> SUFFICES ASSUME TypeInv, Ends PROVE TypeInv'
  OBVIOUS
<1>1. DataOK /\ RunOK /\ RestOK
  BY TypeParts DEF TypeInv
<1>2. RunOK' /\ Quiet' /\ inPlace' = FALSE /\ closed' = FALSE /\ wrote' = FALSE
  BY ForgetsType DEF Ends
<1>3. DataOK'
  BY <1>1, Empty DEF Ends, DataOK, disk, user
<1>4. RestOK'
  BY <1>1, <1>2 DEF Ends, RestOK, user, bounds
<1> QED BY <1>2, <1>3, <1>4, TypeParts DEF TypeInv, TypeOK, DataOK, RunOK, RestOK

\* Whatever the worker does, it leaves alone all but these.
LEMMA WorkerType ==
  ASSUME TypeInv, NEW w \in Workers, Worker(w), Works(w),
         ids' \subseteq Names \X Ids, unwritten' \subseteq Names \X Ids,
         told' \subseteq (Names \cup {Comment}) \X Ids,
         idFor' \in [DOMAIN lines -> Ids \cup {None}], jobs' \in Seq(Due),
         doing' \in [Workers -> Due \cup {0}], gone' \in {gone, gone \cup {w}}
  PROVE  TypeInv'
<1>1. DataOK /\ RunOK /\ RestOK
  BY TypeParts DEF TypeInv
<1>2. Due' = Due
  BY DueStays DEF Worker
<1>3. DataOK'
  BY <1>1 DEF DataOK, Worker, user
<1>4. RunOK'
  BY <1>1, <1>2 DEF RunOK, Worker, Works
<1>5. RestOK'
  BY <1>1 DEF RestOK, Worker, user, bounds
<1>6. Quiet'
  <2>1. at \in Resolving \cup {"after"}
    BY <1>1 DEF TypeInv, Quiet, Works, RunOK
  <2> QED BY <2>1 DEF Quiet, Worker
<1> QED BY <1>3, <1>4, <1>5, <1>6 DEF TypeInv, TypeOK, DataOK, RunOK, RestOK

LEMMA BeginType == TypeInv /\ Begin => TypeInv'
<1> SUFFICES ASSUME TypeInv, Begin PROVE TypeInv'
  OBVIOUS
<1>1. DataOK /\ RunOK /\ RestOK /\ lines = <<>> /\ jobs = <<>> /\ threads = {}
      /\ doing = [w \in Workers |-> 0] /\ inPlace = FALSE /\ wrote = FALSE
  BY TypeParts DEF TypeInv, Quiet, Begin, Resolving, RestOK
<1>2. lines' \in Seq(Lines)
  <2>1. CASE lines' = ReadLines
    BY <1>1, <2>1 DEF ReadLines, DataOK
  <2>2. CASE lines' = [i \in DOMAIN usernames |-> [name |-> usernames[i], id |-> None]]
    <3>1. \A i \in DOMAIN usernames : [name |-> usernames[i], id |-> None] \in Lines
      <4>1. \A i \in DOMAIN usernames : usernames[i] \in Names
        BY <1>1 DEF DataOK
      <4> QED BY <4>1 DEF Lines
    <3>2. DOMAIN usernames = 1 .. Len(usernames) /\ Len(usernames) \in Nat
      BY <1>1 DEF DataOK
    <3> QED BY <2>2, <3>1, <3>2
  <2> QED BY <2>1, <2>2 DEF Begin
<1>3. Due' = {i \in DOMAIN lines' : Wanted(lines'[i])}
  BY DEF Due, Wanted, Begin
<1>4. work' \in Seq(Due')
  <2> DEFINE S == Due'
             n == Len(lines')
  <2>1. n \in Nat /\ S \in SUBSET (1 .. n)
    BY <1>2, <1>3
  <2>2. work' = Ascending(S)
    BY <1>3 DEF Begin
  <2> HIDE DEF S, n
  <2>3. Cardinality(S) \in Nat /\ Ascending(S) \in [1 .. Cardinality(S) -> S]
    BY <2>1, AscendingType
  <2> QED BY <2>2, <2>3 DEF S
<1>5. idFor' \in [DOMAIN lines' -> Ids \cup {None}]
  BY DEF Begin
<1>6. jobs' \in Seq(Due') /\ doing' \in [Workers -> Due' \cup {0}]
  BY <1>1, Empty DEF Begin
<1>7. threads' \subseteq Workers /\ gone' \subseteq threads' /\ unwritten' \subseteq Names \X Ids
  BY <1>1, ResolveAssumption DEF Begin, RunOK
<1>8. RunOK'
  BY <1>2, <1>4, <1>5, <1>6, <1>7 DEF RunOK
<1>9. DataOK'
  BY <1>1 DEF DataOK, Begin
<1>10. RestOK'
  <2>1. inPlace' \in BOOLEAN /\ edited' \in BOOLEAN /\ at' = "feeding"
    BY <1>1 DEF Begin, RestOK
  <2> QED BY <1>1, <2>1 DEF RestOK, Begin, bounds, Resolving
<1>11. Quiet'
  BY QuietBusy DEF Begin, Resolving
<1> QED BY <1>8, <1>9, <1>10, <1>11 DEF TypeInv, TypeOK, DataOK, RunOK, RestOK

LEMMA WorkType == ASSUME TypeInv, NEW w \in Workers, Work(w) PROVE TypeInv'
<1>1. DataOK /\ RunOK /\ RestOK
  BY TypeParts DEF TypeInv
<1>2. /\ ids \subseteq Names \X Ids /\ unwritten \subseteq Names \X Ids
      /\ told \subseteq (Names \cup {Comment}) \X Ids
      /\ idFor \in [DOMAIN lines -> Ids \cup {None}] /\ jobs \in Seq(Due)
      /\ doing \in [Workers -> Due \cup {0}]
  BY <1>1 DEF DataOK, RunOK
<1>3. CASE Take(w)
  <2>1. jobs' = Tail(jobs) /\ jobs # <<>>
    BY <1>3 DEF Take
  <2>2. jobs' \in Seq(Due) /\ Head(jobs) \in Due
    BY <1>2, <2>1
  <2>3. doing' \in [Workers -> Due \cup {0}] /\ gone' \in {gone, gone \cup {w}}
    BY <1>2, <1>3, <2>2 DEF Take
  <2>4. Worker(w) /\ Works(w) /\ UNCHANGED <<ids, told, unwritten, idFor>>
    BY <1>3 DEF Take
  <2> QED BY <1>2, <2>2, <2>3, <2>4, WorkerType
<1>4. CASE Leave(w)
  BY <1>2, <1>4, WorkerType DEF Leave
<1>5. CASE Answered(w)
  <2> DEFINE name == lines[doing[w]].name
             i == doing[w]
  <2>1. i \in Due /\ holder[name] # None
    BY <1>2, <1>5 DEF Answered, Asks
  <2>2. i \in DOMAIN lines /\ Named(lines[i])
    BY <2>1 DEF Due, Wanted
  <2>3. name \in Names
    <3>1. lines[i] \in Lines
      BY <1>1, <2>2 DEF RunOK
    <3>2. \A l \in Lines : l.name # Comment => l.name \in Names
      BY DEF Lines
    <3> QED BY <2>2, <3>1, <3>2 DEF Named
  <2>4. holder[name] \in Ids
    BY <1>1, <2>1, <2>3 DEF DataOK
  <2>5. /\ told' = told \cup {<<name, holder[name]>>} /\ Note(<<name, holder[name]>>)
        /\ idFor' = [idFor EXCEPT ![i] = holder[name]] /\ doing' = [doing EXCEPT ![w] = 0]
        /\ UNCHANGED <<jobs, gone>> /\ Worker(w) /\ Works(w)
    BY <1>5 DEF Answered, SlotOf, NextJob, Asks
  <2> HIDE DEF name, i
  <2>6. idFor' \in [DOMAIN lines -> Ids \cup {None}]
    BY <1>2, <2>4, <2>5
  <2>7. doing' \in [Workers -> Due \cup {0}]
    BY <1>2, <2>5
  <2>8. /\ ids' \subseteq Names \X Ids /\ unwritten' \subseteq Names \X Ids
        /\ told' \subseteq (Names \cup {Comment}) \X Ids
    BY <1>2, <2>3, <2>4, <2>5 DEF Note
  <2> QED BY <1>2, <2>5, <2>6, <2>7, <2>8, WorkerType
<1>6. CASE Unanswered(w)
  BY <1>2, <1>6, WorkerType DEF Unanswered, Asks, NextJob
<1> QED BY <1>3, <1>4, <1>5, <1>6 DEF Work

LEMMA FeedType == TypeInv /\ Feed => TypeInv'
<1> SUFFICES ASSUME TypeInv, Feed PROVE TypeInv'
  OBVIOUS
<1>1. DataOK /\ RunOK /\ RestOK /\ Due' = Due
  BY TypeParts, DueStays DEF TypeInv, Feed
<1>2. Head(work) \in Due /\ Tail(work) \in Seq(Due)
  BY <1>1 DEF RunOK, Feed
<1>3. jobs' \in Seq(Due) /\ work' \in Seq(Due)
  <2>1. jobs \in Seq(Due)
    BY <1>1 DEF RunOK
  <2>2. Append(jobs, Head(work)) \in Seq(Due)
    BY <1>2, <2>1
  <2> QED BY <1>2, <2>1, <2>2 DEF Feed
<1>4. RunOK'
  BY <1>1, <1>3 DEF RunOK, Feed
<1>5. DataOK' /\ RestOK'
  BY <1>1 DEF DataOK, RestOK, Feed, disk, user, bounds
<1>6. Quiet'
  BY QuietBusy DEF Feed, Resolving
<1> QED BY <1>4, <1>5, <1>6 DEF TypeInv, TypeOK, DataOK, RunOK, RestOK

LEMMA TypeNext == TypeInv /\ [Next]_vars => TypeInv'
<1> SUFFICES ASSUME TypeInv, [Next]_vars PROVE TypeInv'
  OBVIOUS
<1>0. DataOK /\ RunOK /\ RestOK
  BY TypeParts DEF TypeInv
<1>a. ASSUME DataOK', RunOK', RestOK', Quiet' PROVE TypeInv'
  BY <1>a DEF TypeInv, TypeOK, DataOK, RunOK, RestOK
<1>1. CASE Begin
  BY <1>1, BeginType
<1>2. CASE BeginFails \/ Returns \/ Exit \/ Kill
  BY <1>2, EndsType DEF BeginFails, Returns, Exit, Kill
<1>3. CASE Feed
  BY <1>3, FeedType
<1>4. CASE SomeWorker
  BY <1>4, WorkType DEF SomeWorker
<1>5. CASE CloseJobs
  <2>1. Due' = Due
    BY <1>5, DueStays DEF CloseJobs
  <2>2. RunOK'
    BY <1>0, <1>5, <2>1 DEF RunOK, CloseJobs
  <2>3. DataOK' /\ RestOK'
    BY <1>0, <1>5 DEF DataOK, RestOK, CloseJobs, disk, user, bounds, Resolving
  <2> QED BY <1>a, <1>5, <2>2, <2>3, QuietBusy DEF CloseJobs, Resolving
<1>6. CASE Wait \/ WriteTmp \/ RenameFails
  <2>1. /\ UNCHANGED <<disk, mode, cancelled, usernames, resolver, holder, told, user, wrote,
                      bounds>>
        /\ at' \in Resolving \cup {"after"}
    BY <1>6 DEF Wait, WriteTmp, RenameFails, Resolving
  <2>2. DataOK' /\ RestOK'
    BY <1>0, <2>1 DEF DataOK, RestOK, disk, user, bounds, resolver
  <2> QED BY <1>0, <1>a, <2>1, <2>2, RunStays, QuietBusy
<1>7. CASE Rename
  <2>1. Rewritten \in Seq(Lines) /\ at' = "after"
    BY <1>7, RewrittenType DEF Rename, TypeInv
  <2>2. DataOK'
    BY <1>0, <1>7, <2>1 DEF DataOK, Rename
  <2>3. RestOK'
    BY <1>0, <1>7 DEF RestOK, Rename, resolver, bounds
  <2>4. UNCHANGED <<mode, resolver>>
    BY <1>7 DEF Rename
  <2> QED BY <1>0, <1>a, <2>1, <2>2, <2>3, <2>4, RunStays, QuietBusy
<1>8. CASE Watches \/ Checks
  <2>1. RunOK' /\ Quiet' /\ inPlace' = FALSE /\ closed' = FALSE /\ wrote' = FALSE
    BY <1>8, ForgetsType DEF Watches, Checks
  <2>2. usernames' \in Seq(Names) /\ UNCHANGED <<disk, mode, cancelled, holder, told, user, bounds>>
    BY <1>0, <1>8, LoadedType DEF Watches, Checks, DataOK
  <2>3. DataOK'
    BY <1>0, <2>2 DEF DataOK, disk, user
  <2>4. RestOK'
    BY <1>0, <1>8, <2>1, <2>2 DEF RestOK, Watches, Checks, user, bounds
  <2> QED BY <1>a, <2>1, <2>3, <2>4
<1>9. CASE Start
  <2>1. lines = <<>> /\ jobs = <<>> /\ threads = {} /\ ~inPlace /\ ~wrote
        /\ doing = [w \in Workers |-> 0]
    BY <1>9 DEF TypeInv, Quiet, Start, Resolving
  <2>2. Due' = Due
    BY <1>9, <2>1 DEF Due, Start, resolver
  <2>3. RunOK'
    BY <1>0, <1>9, <2>2 DEF RunOK, Start, resolver
  <2>4. usernames' \in Seq(Names)
    BY <1>0, <1>9, LoadedType DEF Start, DataOK
  <2>5. DataOK'
    BY <1>0, <1>9, <2>4 DEF DataOK, Start, disk, user
  <2>6. RestOK'
    BY <1>0, <1>9 DEF RestOK, Start, user, resolver
  <2>7. Quiet'
    BY <1>9, <2>1 DEF Quiet, Start, resolver
  <2> QED BY <1>a, <2>3, <2>5, <2>6, <2>7
<1>10. CASE Hit
  <2>1. PICK n \in Names : file' = Pruned(file, n) /\ found' = found \cup {n}
    BY <1>0, <1>10 DEF Hit, DataOK
  <2>2. file' \in Seq(Lines)
    <3>1. file \in Seq(Lines) /\ n \in {n}
      BY <1>0 DEF DataOK
    <3>2. Pruned(file, n) \in Seq(Lines)
      BY <3>1, WithoutPruned
    <3> QED BY <2>1, <3>2
  <2>3. UNCHANGED <<ids, process, holder, told, saved, edited, clobbered, wrote, bounds>>
    BY <1>10 DEF Hit
  <2>4. DataOK'
    BY <1>0, <2>1, <2>2, <2>3 DEF DataOK, process
  <2>5. RestOK' /\ Quiet'
    BY <1>0, <2>3 DEF TypeInv, RestOK, process, bounds, resolver, Quiet
  <2> QED BY <1>0, <1>a, <2>3, <2>4, <2>5, RunStays DEF process
<1>11. CASE Cancel
  <2>1. cancelled' = TRUE
        /\ UNCHANGED <<disk, mode, at, usernames, resolver, holder, told, user, wrote, bounds>>
    BY <1>11 DEF Cancel
  <2>2. DataOK' /\ RestOK' /\ Quiet'
    BY <1>0, <2>1 DEF TypeInv, DataOK, RestOK, Quiet, disk, user, bounds, resolver
  <2> QED BY <1>0, <1>a, <2>1, <2>2, RunStays
<1>12. CASE Save
  <2>1. file' \in Seq(Lines)
    BY <1>12, ResolveAssumption DEF Save
  <2>2. Pairs(file') \subseteq (Names \cup {Comment}) \X Ids
    BY <2>1, PairsType DEF Words
  <2>3. DataOK'
    BY <1>0, <1>12, <2>1, <2>2 DEF DataOK, Save, process
  <2>4. RestOK' /\ Quiet'
    <3>1. /\ UNCHANGED <<mode, at, cancelled, lines, jobs, threads, doing, inPlace, closed, wrote>>
          /\ edited' = TRUE /\ clobbered' = FALSE /\ saves' = saves + 1
          /\ UNCHANGED <<moves, runs>>
      BY <1>12 DEF Save, process, resolver
    <3>2. RestOK'
      <4>1. edited' \in BOOLEAN /\ clobbered' \in BOOLEAN
        BY <3>1, Zenon
      <4>3. saves' \in Nat
        BY <1>0, <3>1 DEF RestOK
      <4>2. /\ mode' \in {"ids", "fill"}
            /\ at' \in Resolving \cup {"off", "starting", "after", "watching", "checking"}
            /\ inPlace' \in BOOLEAN /\ closed' \in BOOLEAN /\ cancelled' \in BOOLEAN
            /\ wrote' \in BOOLEAN /\ moves' \in Nat /\ runs' \in Nat
        BY <1>0, <3>1 DEF RestOK, Resolving
      <4> QED BY <4>1, <4>2, <4>3 DEF RestOK
    <3>3. Quiet'
      BY <3>1 DEF TypeInv, Quiet
    <3> QED BY <3>2, <3>3
  <2>5. UNCHANGED <<mode, resolver>>
    BY <1>12 DEF Save, process
  <2> QED BY <1>0, <1>a, <2>3, <2>4, <2>5, RunStays
<1>13. CASE Move
  <2>1. holder' \in [Names -> Ids \cup {None}]
    <3>1. holder \in [Names -> Ids \cup {None}]
      BY <1>0 DEF DataOK
    <3>2. PICK n \in Names :
            \/ holder' = [holder EXCEPT ![n] = None]
            \/ \E m \in Names : holder' = [holder EXCEPT ![n] = None, ![m] = holder[n]]
      BY <1>13 DEF Move
    <3> QED BY <3>1, <3>2
  <2>2. UNCHANGED <<disk, process, told, user, wrote, saves, runs>> /\ moves' = moves + 1
    BY <1>13 DEF Move
  <2>3. DataOK' /\ RestOK' /\ Quiet'
    BY <1>0, <2>1, <2>2 DEF TypeInv, DataOK, RestOK, disk, process, user, resolver, Quiet
  <2> QED BY <1>0, <1>a, <2>2, <2>3, RunStays DEF process
<1>14. CASE UNCHANGED vars
  <2>1. DataOK' /\ RestOK' /\ Quiet'
    BY <1>0, <1>14 DEF TypeInv, DataOK, RestOK, vars, disk, process, user, bounds, resolver, Quiet
  <2> QED BY <1>0, <1>a, <1>14, <2>1, RunStays DEF vars, process
<1> QED BY <1>1, <1>2, <1>3, <1>4, <1>5, <1>6, <1>7, <1>8, <1>9, <1>10, <1>11, <1>12, <1>13, <1>14
        DEF Next, Main

\* Every variable keeps its type (resolve.go, runResolve): the indices the workers are
\* given are lines that want an id.
THEOREM ResolveTypeCorrect == Spec => []TypeOK
<1>1. TypeInv => TypeOK
  BY DEF TypeInv
<1> QED BY TypeInit, TypeNext, <1>1, PTL DEF Spec
-----------------------------------------------------------------------------
\* The workers are done before the rewrite, and only what was read from the file is
\* written back.
Phase ==
    /\ at \in {"writing", "renaming"} => inPlace
    /\ wrote => at = "after"
    /\ at \in {"writing", "renaming", "after"} => threads \subseteq gone
\* While the user has not saved, the lines are the file's, and then their rewriting is.
ReadAsIs ==
    /\ inPlace /\ ~edited /\ ~wrote => lines = file
    /\ wrote /\ ~edited => file = Rewritten
\* An answer is for a line that wanted one, and stands in ids.txt if it could be written.
AnswersNoted ==
    \A i \in DOMAIN lines : idFor[i] # None =>
        /\ i \in Due /\ <<lines[i].name, idFor[i]>> \in told
        /\ <<lines[i].name, idFor[i]>> \in ids \cup unwritten
Sourced == Pairs(lines) \subseteq told /\ Pairs(file) \subseteq told

IInv == TypeInv /\ Phase /\ ReadAsIs /\ AnswersNoted /\ Sourced

LEMMA NoPairs == Pairs(<<>>) = {}
BY DEF Pairs

\* Where nothing is being resolved, the ids in the file are all there is to it.
LEMMA IdleInv ==
  ASSUME TypeInv', at' \notin Resolving \cup {"after"}, Pairs(file') \subseteq told' PROVE IInv'
<1>1. lines' = <<>> /\ inPlace' = FALSE /\ wrote' = FALSE
  <2>1. Quiet' /\ RestOK'
    BY TypeParts DEF TypeInv, TypeOK, RestOK
  <2> QED BY <2>1 DEF Quiet, RestOK
<1>2. Phase' /\ ReadAsIs'
  BY <1>1 DEF Phase, ReadAsIs, Resolving
<1>3. AnswersNoted' /\ Sourced'
  BY <1>1, NoPairs DEF AnswersNoted, Sourced
<1> QED BY <1>2, <1>3 DEF IInv

LEMMA StillInv ==
  ASSUME IInv, TypeInv', Phase',
         UNCHANGED <<file, lines, idFor, mode, ids, told, unwritten, edited, inPlace, wrote>>
  PROVE  IInv'
<1>1. ReadAsIs'
  BY DEF IInv, ReadAsIs, Rewritten
<1>2. AnswersNoted'
  BY DueStays DEF IInv, AnswersNoted
<1>3. Sourced'
  BY DEF IInv, Sourced
<1> QED BY <1>1, <1>2, <1>3 DEF IInv

LEMMA InvInit == Init => IInv
<1> SUFFICES ASSUME Init PROVE IInv
  OBVIOUS
<1>1. lines = <<>> /\ at = "off" /\ inPlace = FALSE /\ wrote = FALSE /\ Pairs(file) \subseteq told
  BY DEF Init
<1>2. Phase /\ ReadAsIs
  BY <1>1 DEF Phase, ReadAsIs
<1>3. AnswersNoted /\ Sourced
  BY <1>1, NoPairs DEF AnswersNoted, Sourced
<1> QED BY <1>2, <1>3, TypeInit DEF IInv

LEMMA InvBegin == ASSUME IInv, TypeInv', Begin PROVE IInv'
<1>1. ~wrote /\ wrote' = wrote /\ at' = "feeding"
  BY DEF IInv, TypeInv, Quiet, Begin, Resolving
<1>2. Phase'
  BY <1>1 DEF Phase
<1>3. ReadAsIs'
  BY <1>1 DEF ReadAsIs, Begin, ReadLines
<1>4. AnswersNoted'
  BY DEF AnswersNoted, Begin
<1>5. Sourced'
  <2>1. told' = told /\ file' = file /\ Pairs(file) \subseteq told
    BY DEF IInv, Sourced, Begin
  <2>2. CASE lines' = file
    BY <2>1, <2>2 DEF Sourced
  <2>3. CASE lines' = [i \in DOMAIN usernames |-> [name |-> usernames[i], id |-> None]]
    <3>1. Pairs(lines') = {}
      BY <2>3 DEF Pairs
    <3> QED BY <2>1, <3>1 DEF Sourced
  <2> QED BY <2>2, <2>3 DEF Begin, ReadLines
<1> QED BY <1>2, <1>3, <1>4, <1>5 DEF IInv

LEMMA InvWork == ASSUME IInv, TypeInv', NEW w \in Workers, Work(w) PROVE IInv'
<1>1. Worker(w) /\ Works(w)
  BY DEF Work, Take, Leave, Answered, Unanswered, Asks
<1>2. at \notin {"writing", "renaming", "after"} /\ ~wrote
  BY <1>1 DEF IInv, Phase, Works
<1>3. Phase' /\ ~wrote'
  BY <1>1, <1>2 DEF Phase, Worker
<1>4. CASE Take(w) \/ Leave(w) \/ Unanswered(w)
  <2>1. UNCHANGED <<file, lines, idFor, mode, ids, told, unwritten, edited, inPlace, wrote>>
    BY <1>1, <1>4 DEF Take, Leave, Unanswered, Worker, user
  <2> QED BY <1>3, <2>1, StillInv
<1>5. CASE Answered(w)
  <2> DEFINE i == doing[w]
             answer == <<lines[i].name, holder[lines[i].name]>>
  <2>1. /\ i \in Due /\ idFor' = [idFor EXCEPT ![i] = holder[lines[i].name]]
        /\ told' = told \cup {answer} /\ Note(answer)
        /\ idFor \in [DOMAIN lines -> Ids \cup {None}]
    BY <1>5 DEF Answered, SlotOf, Asks, IInv, TypeInv, TypeOK
  <2>2. UNCHANGED <<file, lines, mode, edited, inPlace, wrote>> /\ Due' = Due
    BY <1>1, DueStays DEF Worker, user
  <2> HIDE DEF i
  <2>3. ReadAsIs'
    BY <1>3, <2>2 DEF IInv, ReadAsIs
  <2>4. AnswersNoted'
    <3> SUFFICES ASSUME NEW j \in DOMAIN lines, idFor'[j] # None
                 PROVE  /\ j \in Due /\ <<lines[j].name, idFor'[j]>> \in told'
                        /\ <<lines[j].name, idFor'[j]>> \in ids' \cup unwritten'
      BY <2>2 DEF AnswersNoted
    <3>0. /\ ids \cup unwritten \subseteq ids' \cup unwritten'
          /\ answer \in ids' \cup unwritten'
      BY <2>1 DEF Note
    <3>1. CASE j = i
      BY <2>1, <3>0, <3>1
    <3>2. CASE j # i
      <4>1. idFor'[j] = idFor[j]
        BY <2>1, <3>2
      <4> QED BY <2>1, <3>0, <4>1 DEF IInv, AnswersNoted
    <3> QED BY <3>1, <3>2
  <2>5. Sourced'
    BY <2>1, <2>2 DEF IInv, Sourced
  <2> QED BY <1>3, <2>3, <2>4, <2>5 DEF IInv
<1> QED BY <1>4, <1>5 DEF Work

\* The rewritten list holds the ids that were read and those that were answered.
LEMMA RewrittenPairs == ASSUME IInv PROVE Pairs(Rewritten) \subseteq told
<1>1. /\ DOMAIN Rewritten = DOMAIN lines
      /\ \A i \in DOMAIN lines :
            /\ Rewritten[i].name = lines[i].name
            /\ idFor[i] = None => Rewritten[i] = lines[i]
            /\ idFor[i] # None => Rewritten[i].id = idFor[i]
  BY RewrittenType DEF IInv, TypeInv
<1> HIDE DEF Rewritten
<1>2. ASSUME NEW i \in DOMAIN lines, Rewritten[i].id # None
      PROVE  <<Rewritten[i].name, Rewritten[i].id>> \in told
  <2>1. CASE idFor[i] = None
    <3>1. Rewritten[i] = lines[i]
      BY <1>1, <2>1
    <3>2. <<lines[i].name, lines[i].id>> \in Pairs(lines)
      BY <1>2, <3>1 DEF Pairs
    <3> QED BY <3>1, <3>2 DEF IInv, Sourced
  <2>2. CASE idFor[i] # None
    BY <1>1, <2>2 DEF IInv, AnswersNoted
  <2> QED BY <2>1, <2>2
<1> QED BY <1>1, <1>2 DEF Pairs

LEMMA InvRename == ASSUME IInv, TypeInv', Rename PROVE IInv'
<1>1. /\ file' = Rewritten /\ wrote' = TRUE /\ at' = "after" /\ at = "renaming"
      /\ UNCHANGED <<lines, idFor, threads, gone, mode, ids, told, unwritten, inPlace>>
  BY DEF Rename, resolver
<1>2. Phase'
  BY <1>1 DEF IInv, Phase
<1>3. ReadAsIs'
  BY <1>1 DEF ReadAsIs, Rewritten
<1>4. AnswersNoted'
  BY <1>1, DueStays DEF IInv, AnswersNoted
<1>5. Sourced'
  BY <1>1, RewrittenPairs DEF IInv, Sourced
<1> QED BY <1>2, <1>3, <1>4, <1>5 DEF IInv

\* A save brings its own ids.
LEMMA InvSave == ASSUME IInv, TypeInv', Save PROVE IInv'
<1>1. /\ edited' = TRUE /\ told' = told \cup Pairs(file')
      /\ UNCHANGED <<at, lines, idFor, threads, gone, mode, ids, unwritten, inPlace, wrote>>
  BY DEF Save, process, resolver
<1>2. Phase' /\ ReadAsIs'
  BY <1>1 DEF IInv, Phase, ReadAsIs
<1>3. AnswersNoted'
  BY <1>1, DueStays DEF IInv, AnswersNoted
<1>4. Sourced'
  BY <1>1 DEF IInv, Sourced
<1> QED BY <1>2, <1>3, <1>4 DEF IInv

LEMMA PrunedPairs ==
  ASSUME NEW list \in Seq(Lines), NEW n PROVE Pairs(Pruned(list, n)) \subseteq Pairs(list)
<1> DEFINE S == {i \in DOMAIN list : list[i] # [name |-> n, id |-> None]}
<1>1. S \in SUBSET DOMAIN list
  OBVIOUS
<1>2. Pruned(list, n) = Sublist(list, S)
  BY DEF Pruned
<1> HIDE DEF S
<1>3. /\ DOMAIN Sublist(list, S) = 1 .. Cardinality(S)
      /\ \A k \in 1 .. Cardinality(S) :
            Ascending(S)[k] \in S /\ Sublist(list, S)[k] = list[Ascending(S)[k]]
  BY <1>1, SublistType
<1>4. \A k \in DOMAIN Sublist(list, S) : \E i \in DOMAIN list : Sublist(list, S)[k] = list[i]
  BY <1>1, <1>3
<1> QED BY <1>2, <1>4 DEF Pairs

LEMMA InvNext == IInv /\ [Next]_vars => IInv'
<1> SUFFICES ASSUME IInv, [Next]_vars PROVE IInv'
  OBVIOUS
<1>0. TypeInv' /\ TypeInv /\ Pairs(file) \subseteq told
  BY TypeNext DEF IInv, Sourced
<1>1. CASE Begin
  BY <1>0, <1>1, InvBegin
<1>2. CASE BeginFails \/ Returns \/ Exit \/ Kill \/ Watches \/ Checks \/ Start
  <2>1. at' \notin Resolving \cup {"after"} /\ UNCHANGED <<file, told>>
    BY <1>2 DEF BeginFails, Returns, Exit, Kill, Ends, Watches, Checks, Start, Resolving, disk
  <2> QED BY <1>0, <2>1, IdleInv
<1>3. CASE Hit
  <2>1. PICK n : file' = Pruned(file, n)
    BY <1>3 DEF Hit
  <2>2. at' = "checking" /\ told' = told /\ file \in Seq(Lines)
    BY <1>0, <1>3 DEF Hit, process, TypeInv, TypeOK
  <2>3. Pairs(file') \subseteq told'
    BY <1>0, <2>1, <2>2, PrunedPairs
  <2> QED BY <1>0, <2>2, <2>3, IdleInv DEF Resolving
<1>4. CASE SomeWorker
  BY <1>0, <1>4, InvWork DEF SomeWorker
<1>5. CASE Feed \/ CloseJobs \/ Wait \/ WriteTmp \/ RenameFails \/ Cancel
  <2>1. UNCHANGED <<file, lines, idFor, mode, ids, told, unwritten, edited, inPlace, wrote,
                    threads, gone>>
    BY <1>5 DEF Feed, CloseJobs, Wait, WriteTmp, RenameFails, Cancel, disk, resolver, user
  <2>2. Phase'
    BY <1>5, <2>1
       DEF IInv, Phase, Feed, CloseJobs, Wait, Joined, WriteTmp, RenameFails, Cancel
  <2> QED BY <1>0, <2>1, <2>2, StillInv
<1>6. CASE Rename
  BY <1>0, <1>6, InvRename
<1>7. CASE Save
  BY <1>0, <1>7, InvSave
<1>8. CASE Move \/ UNCHANGED vars
  <2>1. UNCHANGED <<file, lines, idFor, mode, ids, told, unwritten, edited, inPlace, wrote,
                    threads, gone, at>>
    BY <1>8 DEF Move, vars, disk, process, resolver, user
  <2>2. Phase'
    BY <2>1 DEF IInv, Phase
  <2> QED BY <1>0, <2>1, <2>2, StillInv
<1> QED BY <1>1, <1>2, <1>3, <1>4, <1>5, <1>6, <1>7, <1>8 DEF Next, Main

\* No line is given an id that is not its name's (resolve.go, runResolve).
THEOREM RightIdsHolds == Spec => []RightIds
<1>1. IInv => RightIds
  BY DEF IInv, Sourced, RightIds
<1> QED BY InvInit, InvNext, <1>1, PTL DEF Spec

\* What was answered is in ids.txt, but for what could not be written there, and in the
\* list when it was written and not saved since (resolve.go, runResolve).
THEOREM AnswersKeptHolds == Spec => []AnswersKept
<1>1. IInv => AnswersKept
  <2> SUFFICES ASSUME IInv, at = "after", NEW i \in DOMAIN lines, idFor[i] # None
               PROVE  /\ <<lines[i].name, idFor[i]>> \in ids \cup unwritten
                      /\ wrote /\ ~edited => file[i] = [lines[i] EXCEPT !.id = idFor[i]]
    BY DEF AnswersKept, Answers
  <2>1. Rewritten[i] = [lines[i] EXCEPT !.id = idFor[i]]
    BY RewrittenType DEF IInv, TypeInv
  <2> QED BY <2>1 DEF IInv, AnswersNoted, ReadAsIs
<1> QED BY InvInit, InvNext, <1>1, PTL DEF Spec

\* Filling gaps leaves the ids that are there (resolve.go, runResolve).
THEOREM KnownIdsStayHolds == Spec => KnownIdsStay
<1> DEFINE A == at = "renaming" /\ at' = "after" /\ mode = "fill" /\ ~edited
                  => \A i \in DOMAIN file : file[i].id # None => file'[i] = file[i]
<1>1. IInv /\ [Next]_vars => A
  <2> SUFFICES ASSUME IInv, [Next]_vars, at = "renaming", at' = "after", mode = "fill", ~edited
               PROVE  \A i \in DOMAIN file : file[i].id # None => file'[i] = file[i]
    OBVIOUS
  <2>1. lines = file
    BY DEF IInv, Phase, ReadAsIs
  <2>2. file' = file \/ Rename
    <3>1. Next
      BY DEF vars, process
    <3>2. ASSUME Hit \/ Exit \/ Begin \/ BeginFails \/ Returns \/ Watches \/ Checks
                 \/ Start \/ Kill \/ Save
          PROVE  FALSE
      BY <3>2 DEF Hit, Exit, Begin, BeginFails, Returns, Watches, Checks, Start, Kill, Save,
                   Ends, process
    <3>3. ASSUME SomeWorker PROVE file' = file
      BY <3>3 DEF SomeWorker, Work, Take, Leave, Answered, Unanswered, Worker
    <3>4. ASSUME Feed \/ CloseJobs \/ Wait \/ WriteTmp \/ RenameFails \/ Cancel \/ Move
          PROVE  file' = file
      BY <3>4 DEF Feed, CloseJobs, Wait, WriteTmp, RenameFails, Cancel, Move, disk
    <3> QED BY <3>1, <3>2, <3>3, <3>4 DEF Next, Main
  <2>3. ASSUME Rename, NEW i \in DOMAIN file, file[i].id # None PROVE file'[i] = file[i]
    <3>1. i \notin Due
      BY <2>1, <2>3 DEF Due, Wanted
    <3>2. idFor[i] = None
      BY <2>1, <3>1 DEF IInv, AnswersNoted
    <3>3. Rewritten[i] = lines[i]
      BY <2>1, <3>2, RewrittenType DEF IInv, TypeInv
    <3> QED BY <2>1, <2>3, <3>3 DEF Rename
  <2> QED BY <2>2, <2>3
<1>2. IInv /\ [Next]_vars => [A]_vars
  BY <1>1
<1> QED BY InvInit, InvNext, <1>2, PTL DEF Spec, KnownIdsStay

\* The rewritten list has the entries of the list that was read.
LEMMA RewrittenEntries == TypeOK => Entries(Rewritten) = Entries(lines)
<1> SUFFICES ASSUME TypeOK PROVE Entries(Rewritten) = Entries(lines)
  OBVIOUS
<1>1. DOMAIN Rewritten = DOMAIN lines /\ \A i \in DOMAIN lines : Rewritten[i].name = lines[i].name
  BY RewrittenType
<1> HIDE DEF Rewritten
<1>2. NamesOf(Rewritten) = NamesOf(lines)
  BY <1>1 DEF NamesOf
<1>3. {i \in DOMAIN Rewritten : Rewritten[i].name \notin found}
        = {i \in DOMAIN lines : lines[i].name \notin found}
  BY <1>1
<1> QED BY <1>2, <1>3 DEF Entries

LEMMA SurvivesHit == ASSUME TypeOK, ListSurvives, Hit PROVE ListSurvives'
<1>1. PICK n : file' = Pruned(file, n) /\ found' = found \cup {n}
  BY DEF Hit
<1>2. UNCHANGED <<saved, clobbered>> /\ file \in Seq(Lines) /\ saved \in Seq(Lines)
  BY DEF Hit, TypeOK
<1> SUFFICES ASSUME ~clobbered PROVE Without(file', found') = Without(saved, found')
  BY <1>2 DEF ListSurvives, Entries, Without
<1>3. Without(file, found) = Without(saved, found)
  BY DEF ListSurvives, Entries, Without
<1>4. Without(file', found') = Without(file, found')
  <2>1. n \in found'
    BY <1>1
  <2> QED BY <1>1, <1>2, <2>1, WithoutPruned
<1>5. Without(file, found \cup {n}) = Drop(Without(file, found), n)
  BY <1>2, WithoutStep
<1>6. Without(saved, found \cup {n}) = Drop(Without(saved, found), n)
  BY <1>2, WithoutStep
<1>7. Without(file, found') = Without(saved, found')
  BY <1>1, <1>3, <1>5, <1>6
<1> QED BY <1>4, <1>7

LEMMA SurvivesNext == IInv /\ ListSurvives /\ [Next]_vars => ListSurvives'
<1> SUFFICES ASSUME IInv, ListSurvives, [Next]_vars PROVE ListSurvives'
  OBVIOUS
<1>0. TypeOK
  BY DEF IInv, TypeInv
<1>a. ASSUME UNCHANGED <<file, saved, found, clobbered>> PROVE ListSurvives'
  BY <1>a DEF ListSurvives, Entries
<1>1. CASE BeginFails \/ Returns \/ Exit \/ Kill \/ Watches \/ Checks \/ Start \/ Begin
  BY <1>1, <1>a DEF BeginFails, Returns, Exit, Kill, Ends, Watches, Checks, Start, Begin, disk, user
<1>2. CASE SomeWorker
  BY <1>2, <1>a DEF SomeWorker, Work, Take, Leave, Answered, Unanswered, Worker, user
<1>3. CASE Feed \/ CloseJobs \/ Wait \/ WriteTmp \/ RenameFails \/ Cancel \/ Move \/ UNCHANGED vars
  BY <1>3, <1>a DEF Feed, CloseJobs, Wait, WriteTmp, RenameFails, Cancel, Move, vars, disk, user
<1>4. CASE Rename
  <2> SUFFICES ASSUME ~clobbered' PROVE Entries(file)' = Entries(saved)'
    BY DEF ListSurvives
  <2>1. ~clobbered /\ ~edited /\ file' = Rewritten /\ UNCHANGED <<saved, found>>
    BY <1>4 DEF Rename
  <2>2. lines = file
    BY <1>4, <2>1 DEF IInv, Phase, ReadAsIs, Rename
  <2>3. Entries(Rewritten) = Entries(saved)
    BY <1>0, <2>1, <2>2, RewrittenEntries DEF ListSurvives
  <2> QED BY <2>1, <2>3 DEF Entries
<1>5. CASE Save
  BY <1>5 DEF Save, ListSurvives
<1>6. CASE Hit
  BY <1>0, <1>6, SurvivesHit
<1> QED BY <1>1, <1>2, <1>3, <1>4, <1>5, <1>6 DEF Next, Main

\* The list keeps the user's names and remarks in their order (resolve.go, runResolve;
\* main.go, removeFromList).
THEOREM ListSurvivesHolds == Spec => []ListSurvives
<1>1. Init => ListSurvives
  BY DEF Init, ListSurvives
<1> QED BY InvInit, InvNext, SurvivesNext, <1>1, PTL DEF Spec
-----------------------------------------------------------------------------
\* What prune writes is the list as the user left it without the failed, which are
\* in the other file by then.
Drafted ==
    /\ step \in {"recorded", "rewriting"} => Written(Failed) \subseteq dead
    /\ step = "rewriting" /\ ~overwritten => draft = Kept

TestInv == overwritten \in BOOLEAN /\ Drafted /\ NoProxyLost

LEMMA TestInvInit == TestInit => TestInv
BY DEF TestInit, TestInv, Drafted, NoProxyLost, AfterLoad

\* Steps that leave the list alone and lead to no rewriting keep the invariant.
LEMMA TestInvElsewhere ==
  ASSUME TestInv, step' \notin {"recorded", "rewriting"},
         UNCHANGED <<proxyFile, savedProxies, overwritten>>, dead \subseteq dead'
  PROVE  TestInv'
BY DEF TestInv, Drafted, NoProxyLost

\* So do steps that leave alone all it speaks of.
LEMMA TestInvUntouched ==
  ASSUME TestInv,
         UNCHANGED <<proxyFile, dead, savedProxies, overwritten, step, draft, pool, reports>>
  PROVE  TestInv'
BY DEF TestInv, Drafted, NoProxyLost, Failed, Kept, Written

\* The failed proxies do not change once the test is over.
LEMMA TestInvRecord == TestInv /\ Record => TestInv'
<1> SUFFICES ASSUME TestInv, Record PROVE TestInv'
  OBVIOUS
<1>1. Failed' = Failed /\ dead' = dead \cup Written(Failed) /\ step' = "recorded"
  BY DEF Record, Goes, testVars, Failed
<1>2. UNCHANGED <<proxyFile, savedProxies, overwritten>>
  BY DEF Record, Goes, userVars
<1>3. Drafted'
  BY <1>1 DEF Drafted, Written
<1>4. NoProxyLost'
  BY <1>1, <1>2 DEF TestInv, NoProxyLost
<1> QED BY <1>2, <1>3, <1>4 DEF TestInv

LEMMA TestInvPruneRead == TestInv /\ PruneRead => TestInv'
<1> SUFFICES ASSUME TestInv, PruneRead PROVE TestInv'
  OBVIOUS
<1>1. UNCHANGED <<proxyFile, dead, savedProxies, overwritten, pool, reports>>
  BY DEF PruneRead, Goes, diskVars, userVars, testVars
<1>2. Failed' = Failed /\ Kept' = Kept
  BY <1>1 DEF Failed, Kept
<1>3. draft' = Kept' /\ Written(Failed)' \subseteq dead'
  BY <1>1, <1>2 DEF PruneRead, TestInv, Drafted, Written
<1> QED BY <1>1, <1>3 DEF TestInv, Drafted, NoProxyLost

LEMMA TestInvPruneRename == TestInv /\ PruneRename => TestInv'
<1> SUFFICES ASSUME TestInv, PruneRename PROVE TestInv'
  OBVIOUS
<1>1. /\ step = "rewriting" /\ step' = "over" /\ proxyFile' = draft
      /\ UNCHANGED <<dead, savedProxies, overwritten>>
  BY DEF PruneRename, Goes, userVars
<1>2. \A p \in Failed : Shown[p] \in dead
  BY <1>1 DEF TestInv, Drafted, Written
<1>3. NoProxyLost'
  <2> SUFFICES ASSUME ~overwritten, NEW p \in savedProxies \cap Proxies, Shown[p] \notin dead
               PROVE  p \in draft
    BY <1>1 DEF NoProxyLost
  <2>1. p \in proxyFile /\ p \notin Failed
    BY <1>2 DEF TestInv, NoProxyLost
  <2> QED BY <1>1, <2>1 DEF TestInv, Drafted, Kept
<1> QED BY <1>1, <1>3 DEF TestInv, Drafted

\* A save replaces what the user wants and the list alike.
LEMMA TestInvUserSave == TestInv /\ UserSave => TestInv'
<1> SUFFICES ASSUME TestInv, UserSave PROVE TestInv'
  OBVIOUS
<1>1. /\ savedProxies' = proxyFile' /\ overwritten' = (overwritten \/ step = "rewriting")
      /\ UNCHANGED <<dead, step, draft, pool, reports>>
  BY DEF UserSave, testVars
<1>2. Failed' = Failed
  BY <1>1 DEF Failed
<1> QED BY <1>1, <1>2 DEF TestInv, Drafted, NoProxyLost, Written

LEMMA TestInvNext == TestInv /\ [TestNext]_preflightVars => TestInv'
<1> SUFFICES ASSUME TestInv, [TestNext]_preflightVars PROVE TestInv'
  OBVIOUS
<1> USE DEF diskVars, userVars, testVars, Goes
<1>1. ASSUME NEW w \in Testers, HandOut(w) \/ WorkerLeaves(w) PROVE TestInv'
  BY <1>1, TestInvUntouched DEF HandOut, WorkerLeaves
<1>2. ASSUME NEW w \in Testers, TestPasses(w) \/ TestFails(w) \/ TestCut(w) PROVE TestInv'
  <2>1. step' = "testing" /\ UNCHANGED <<proxyFile, dead, savedProxies, overwritten>>
    BY <1>2 DEF TestPasses, TestFails, TestCut, Reports
  <2> QED BY <2>1, TestInvElsewhere
<1>3. CASE CloseTests \/ CancelTest
  BY <1>3, TestInvUntouched DEF CloseTests, CancelTest
<1>4. CASE TestsDone \/ RecordFails \/ NothingToMove \/ PruneFails \/ Crash
  BY <1>4, TestInvElsewhere DEF TestsDone, RecordFails, NothingToMove, PruneFails, Crash
<1>5. CASE Restart
  <2>1. step' \in {"over", "testing"} /\ UNCHANGED <<proxyFile, dead, savedProxies, overwritten>>
    BY <1>5 DEF Restart, AfterLoad
  <2> QED BY <2>1, TestInvElsewhere
<1>6. CASE Record
  BY <1>6, TestInvRecord
<1>7. CASE PruneRead
  BY <1>7, TestInvPruneRead
<1>8. CASE PruneRename
  BY <1>8, TestInvPruneRename
<1>9. CASE UserSave
  BY <1>9, TestInvUserSave
<1>10. CASE UNCHANGED preflightVars
  BY <1>10, TestInvUntouched DEF preflightVars
<1> QED BY <1>1, <1>2, <1>3, <1>4, <1>5, <1>6, <1>7, <1>8, <1>9, <1>10 DEF TestNext

\* Between the two files no proxy goes without a trace: it is in the list or, as it is
\* shown, among the dead (writeDeadProxies and pruneProxies).
THEOREM NoProxyLostHolds == TestSpec => []NoProxyLost
<1>1. TestInv => NoProxyLost
  BY DEF TestInv
<1> QED BY <1>1, TestInvInit, TestInvNext, PTL DEF TestSpec

\* What prune takes out was tested and failed.
LEMMA PrunesTheFailed ==
  TestInv /\ [TestNext]_preflightVars
    => (PruneRename /\ ~overwritten => \A p \in TakenOut : reports[p] # "untested")
<1> SUFFICES ASSUME TestInv, PruneRename, ~overwritten, NEW p \in TakenOut
             PROVE  reports[p] # "untested"
  OBVIOUS
<1>1. proxyFile' = Kept
  BY DEF PruneRename, TestInv, Drafted
<1>2. p \in Failed
  BY <1>1 DEF TakenOut, Kept
<1> QED BY <1>2 DEF Failed

\* A proxy that was not asked stays in the list (pruneProxies).
THEOREM UntestedStaysHolds == TestSpec => UntestedStays
<1>1. TestInv /\ [TestNext]_preflightVars =>
        [PruneRename /\ ~overwritten => \A p \in TakenOut : reports[p] # "untested"]_preflightVars
  BY PrunesTheFailed
<1> QED BY <1>1, TestInvInit, TestInvNext, PTL DEF TestSpec, UntestedStays
-----------------------------------------------------------------------------
\* A proxy is with one worker or in the queue: two workers never test the same.
HandedOutOnce ==
    \A v, w \in Testers : v # w /\ testing[v] = testing[w] => testing[v] \in {Idle, Gone}

TestTypeInv == TestTypeOK /\ HandedOutOnce

LEMMA TestTypeInit == TestInit => TestTypeInv
<1> SUFFICES ASSUME TestInit PROVE TestTypeInv
  OBVIOUS
<1>1. proxyFile \subseteq ProxyLines /\ pool \subseteq Proxies
  BY PreflightAssumption DEF TestInit
<1>2. /\ testing = [w \in Testers |-> Idle] /\ reports = [p \in Proxies |-> "untested"]
      /\ queue = pool /\ Idle \notin pool /\ step \in Steps
  BY <1>1, PreflightAssumption DEF TestInit, AfterLoad, Steps
<1>3. /\ keepDead \in BOOLEAN /\ jobsClosed \in BOOLEAN
      /\ interrupted \in BOOLEAN /\ overwritten \in BOOLEAN
  BY DEF TestInit
<1>4. /\ savedProxies = proxyFile /\ draft = {} /\ dead = {} /\ cut = {}
      /\ proxySaves \in 0 .. MaxProxySaves /\ starts \in Nat
  BY PreflightAssumption DEF TestInit
<1> QED BY <1>1, <1>2, <1>3, <1>4 DEF TestTypeInv, TestTypeOK, HandedOutOnce

LEMMA TestTypeNext == TestTypeInv /\ [TestNext]_preflightVars => TestTypeInv'
<1> SUFFICES ASSUME TestTypeInv, [TestNext]_preflightVars PROVE TestTypeInv'
  OBVIOUS
<1> USE PreflightAssumption DEF TestTypeInv, TestTypeOK, HandedOutOnce, Steps
<1>1. ASSUME NEW w \in Testers, HandOut(w) PROVE TestTypeInv'
  <2>1. PICK p \in queue : testing' = [testing EXCEPT ![w] = p] /\ queue' = queue \ {p}
    BY <1>1 DEF HandOut
  <2>2. p \in Proxies /\ \A v \in Testers : testing[v] # p
    BY <2>1
  <2>3. \A v \in Testers : testing'[v] = IF v = w THEN p ELSE testing[v]
    BY <2>1
  <2>4. HandedOutOnce' /\ \A v \in Testers : testing'[v] \in pool => testing'[v] \notin queue'
    BY <2>1, <2>2, <2>3
  <2> QED BY <1>1, <2>1, <2>4 DEF HandOut, diskVars, userVars
<1>2. ASSUME NEW w \in Testers, NEW r \in {"ok", "failed"}, Reports(w, r), cut' \subseteq Proxies
      PROVE  TestTypeInv'
  BY <1>2 DEF Reports, diskVars, userVars
<1>3. ASSUME NEW w \in Testers, WorkerLeaves(w) PROVE TestTypeInv'
  BY <1>3 DEF WorkerLeaves, diskVars, userVars
<1>4. CASE CloseTests
  BY <1>4 DEF CloseTests, diskVars, userVars
<1>5. CASE TestsDone \/ NothingToMove
  BY <1>5 DEF TestsDone, NothingToMove, Goes, diskVars, userVars, testVars
<1>6. CASE Record \/ RecordFails
  <2>1. dead' \subseteq Proxies
    BY <1>6 DEF Record, RecordFails, Failed, Written
  <2>2. step' \in {"recorded", "over"} /\ UNCHANGED <<proxyFile, draft>>
    BY <1>6 DEF Record, RecordFails, Goes
  <2>3. UNCHANGED <<userVars, testVars, keepDead, pool, interrupted, starts>>
    BY <1>6 DEF Record, RecordFails, Goes
  <2> QED BY <2>1, <2>2, <2>3 DEF userVars, testVars
<1>7. CASE PruneRead \/ PruneRename \/ PruneFails
  BY <1>7 DEF PruneRead, PruneRename, PruneFails, Kept, Goes, diskVars, userVars, testVars,
              ProxyLines
<1>8. CASE UserSave
  BY <1>8 DEF UserSave, testVars
<1>9. CASE CancelTest
  BY <1>9 DEF CancelTest, diskVars, userVars, testVars
<1>10. CASE Crash
  BY <1>10 DEF Crash, Running, diskVars, userVars
<1>11. CASE Restart
  <2>1. /\ pool' = proxyFile \cap Proxies /\ queue' = pool' /\ step' \in Steps
        /\ testing' = [w \in Testers |-> Idle] /\ reports' = [p \in Proxies |-> "untested"]
    BY <1>11 DEF Restart, AfterLoad
  <2>2. /\ jobsClosed' \in BOOLEAN /\ interrupted' \in BOOLEAN
        /\ draft' = {} /\ cut' = {} /\ starts' = starts + 1
        /\ UNCHANGED <<proxyFile, dead, savedProxies, overwritten, proxySaves, keepDead>>
    BY <1>11 DEF Restart, diskVars, userVars
  <2> QED BY <2>1, <2>2
<1>12. CASE UNCHANGED preflightVars
  BY <1>12 DEF preflightVars, diskVars, userVars, testVars
<1>13. ASSUME NEW w \in Testers, TestPasses(w) \/ TestFails(w) \/ TestCut(w) PROVE TestTypeInv'
  <2>1. \E r \in {"ok", "failed"} : Reports(w, r)
    BY <1>13 DEF TestPasses, TestFails, TestCut
  <2>2. cut' \subseteq Proxies
    BY <1>13 DEF TestPasses, TestFails, TestCut, Reports
  <2> QED BY <1>2, <2>1, <2>2
<1> QED
  BY <1>1, <1>3, <1>4, <1>5, <1>6, <1>7, <1>8, <1>9, <1>10, <1>11, <1>12, <1>13 DEF TestNext

\* Every variable keeps its type, and no proxy is handed to two workers (proxycheck.go,
\* checkProxies).
THEOREM PreflightTypeCorrect == TestSpec => [](TestTypeOK /\ HandedOutOnce)
<1>1. TestTypeInv => TestTypeOK /\ HandedOutOnce
  BY DEF TestTypeInv
<1> QED BY TestTypeInit, TestTypeNext, <1>1, PTL DEF TestSpec
=============================================================================
