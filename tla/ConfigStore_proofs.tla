---------------------------- MODULE ConfigStore_proofs ----------------------------
(***************************************************************************)
(* Proofs about ConfigStore, for any registry, any number of processes,    *)
(* any contents of .env and any number of commands and edits.              *)
(***************************************************************************)
EXTENDS ConfigStore, FunctionTheorems, FiniteSetTheorems, SequenceTheorems, TLAPS

-------------------------------------------------------------------------------
(* Least and greatest positions. *)

LEMMA LeastExists ==
  ASSUME NEW I \in SUBSET Nat, I # {}
  PROVE  \E m \in I : \A k \in I : m <= k
<1> DEFINE R == OpToRel(<, Nat)
<1>1. PICK m \in I : \A k \in I : ~ (<<k, m>> \in R)
  <2>1. IsWellFoundedOn(R, Nat)
    BY NatLessThanWellFounded, Zenon
  <2> HIDE DEF R
  <2> QED
    BY <2>1, WFMin
<1>2. R = {p \in Nat \X Nat : p[1] < p[2]}
  BY Zenon DEF OpToRel
<1> HIDE DEF R
<1>3. \A k \in I : ~ (k < m)
  BY <1>1, <1>2
<1> QED
  BY <1>3

LEMMA GreatestExists ==
  ASSUME NEW n \in Nat, NEW I \in SUBSET (1 .. n), I # {}
  PROVE  \E m \in I : \A k \in I : k <= m
<1> DEFINE T == {n - k : k \in I}
<1>1. \A k \in I : k \in Int /\ 1 <= k /\ k <= n
  OBVIOUS
<1>2. T \in SUBSET Nat /\ T # {}
  <2>1. \A k \in I : n - k \in Nat
    BY <1>1
  <2>2. PICK i \in I : TRUE
    OBVIOUS
  <2>3. n - i \in T
    OBVIOUS
  <2> QED
    BY <2>1, <2>3
<1>3. PICK t \in T : \A u \in T : t <= u
  BY <1>2, LeastExists
<1>4. PICK m \in I : t = n - m
  BY <1>3
<1>5. \A k \in I : n - m <= n - k
  BY <1>3, <1>4
<1> QED
  BY <1>1, <1>4, <1>5

LEMMA MinIs ==
  ASSUME NEW I \in SUBSET Nat, NEW m \in I, \A k \in I : m <= k
  PROVE  Min(I) = m
<1>1. \A x \in I : (\A k \in I : x <= k) => x = m
  OBVIOUS
<1> QED
  BY <1>1 DEF Min

LEMMA MaxIs ==
  ASSUME NEW I \in SUBSET Nat, NEW m \in I, \A k \in I : k <= m
  PROVE  Max(I) = m
<1>1. \A x \in I : (\A k \in I : k <= x) => x = m
  OBVIOUS
<1> QED
  BY <1>1 DEF Max

-------------------------------------------------------------------------------
(***************************************************************************)
(* Selected: the positions kept are numbered by their ranks.               *)
(***************************************************************************)
LEMMA Ranks ==
  ASSUME NEW K \in SUBSET Nat, IsFiniteSet(K)
  PROVE  /\ Cardinality(K) \in Nat
         /\ \A i \in K : Rank(i, K) \in 1 .. Cardinality(K)
         /\ \A i \in K : \A j \in K : i < j => Rank(i, K) < Rank(j, K)
         /\ \A k \in 1 .. Cardinality(K) : \E i \in K : Rank(i, K) = k
<1> DEFINE Below(i) == {j \in K : j <= i}
           f == [i \in K |-> Rank(i, K)]
           n == Cardinality(K)
<1>1. n \in Nat
  BY FS_CardinalityType
<1>2. \A i \in K : IsFiniteSet(Below(i)) /\ Cardinality(Below(i)) <= n
  BY FS_Subset
<1>3. \A i \in K : Cardinality(Below(i)) \in 1 .. n
  <2> SUFFICES ASSUME NEW i \in K PROVE Cardinality(Below(i)) \in 1 .. n
    OBVIOUS
  <2>1. i \in Below(i)
    OBVIOUS
  <2>2. Cardinality(Below(i)) \in Nat /\ Cardinality(Below(i)) # 0
    BY <1>2, <2>1, FS_CardinalityType, FS_EmptySet
  <2> QED
    BY <1>1, <1>2, <2>2
<1>4. ASSUME NEW i \in K, NEW j \in K, i < j
      PROVE  Cardinality(Below(i)) < Cardinality(Below(j))
  <2>1. Below(i) \cup {j} \in SUBSET Below(j) /\ j \notin Below(i)
    <3>1. i \in Nat /\ j \in Nat
      OBVIOUS
    <3>2. \A k \in Below(i) : k \in Below(j)
      BY <1>4, <3>1
    <3>3. j \in Below(j)
      BY <3>1
    <3>4. ~ (j <= i)
      BY <1>4, <3>1
    <3> QED
      BY <3>2, <3>3, <3>4
  <2>2. Cardinality(Below(i) \cup {j}) = Cardinality(Below(i)) + 1
    BY <1>2, <2>1, FS_AddElement
  <2>3. Cardinality(Below(i) \cup {j}) <= Cardinality(Below(j))
    BY <1>2, <2>1, FS_Subset
  <2> QED
    BY <1>1, <1>3, <2>2, <2>3
<1>5. \A i \in K : f[i] = Cardinality(Below(i)) /\ Rank(i, K) = f[i]
  BY DEF Rank
<1> HIDE DEF n, Below
<1>6. f \in [K -> 1 .. n]
  BY <1>3, <1>5
<1>7. \A i, j \in K : f[i] = f[j] => i = j
  <2> SUFFICES ASSUME NEW i \in K, NEW j \in K, f[i] = f[j], i # j PROVE FALSE
    OBVIOUS
  <2>1. i < j \/ j < i
    OBVIOUS
  <2> QED
    BY <1>1, <1>3, <1>4, <1>5, <2>1
<1>8. IsFiniteSet(1 .. n) /\ Cardinality(1 .. n) = n
  BY <1>1, FS_Interval
<1> HIDE DEF f
<1>9. f \in Injection(K, 1 .. n)
  BY <1>6, <1>7, Fun_IsInj, Zenon
<1>10. f \in Surjection(K, 1 .. n)
  BY <1>8, <1>9, FS_Injection DEF n
<1>11. \A k \in 1 .. n : \E i \in K : f[i] = k
  BY <1>10 DEF Surjection
<1> QED
  BY <1>1, <1>3, <1>4, <1>5, <1>11 DEF n

Position(K, k) == CHOOSE i \in K : Rank(i, K) = k

LEMMA Positions ==
  ASSUME NEW K \in SUBSET Nat, IsFiniteSet(K)
  PROVE  /\ \A k \in 1 .. Cardinality(K) : Position(K, k) \in K /\ Rank(Position(K, k), K) = k
         /\ \A i \in K : Position(K, Rank(i, K)) = i
<1>1. \A k \in 1 .. Cardinality(K) : Position(K, k) \in K /\ Rank(Position(K, k), K) = k
  BY Ranks DEF Position
<1>2. ASSUME NEW i \in K PROVE Position(K, Rank(i, K)) = i
  <2> DEFINE j == Position(K, Rank(i, K))
  <2>1. j \in K /\ Rank(j, K) = Rank(i, K) /\ Rank(i, K) \in Int
    BY <1>1, Ranks
  <2> HIDE DEF j
  <2>2. ~ (i < j) /\ ~ (j < i)
    BY <2>1, Ranks
  <2>3. j = i
    BY <2>1, <2>2
  <2> QED
    BY <2>3 DEF j
<1> QED
  BY <1>1, <1>2

LEMMA SelectedLines ==
  ASSUME NEW S, NEW file \in Seq(S), NEW K \in SUBSET DOMAIN file
  PROVE  /\ K \in SUBSET Nat /\ IsFiniteSet(K)
         /\ Selected(file, K) \in Seq(S)
         /\ Len(Selected(file, K)) = Cardinality(K)
         /\ \A k \in 1 .. Cardinality(K) :
              Position(K, k) \in K /\ Selected(file, K)[k] = file[Position(K, k)]
<1>1. Len(file) \in Nat /\ DOMAIN file = 1 .. Len(file) /\ \A i \in DOMAIN file : file[i] \in S
  BY LenProperties, ElementOfSeq
<1>2. IsFiniteSet(1 .. Len(file))
  BY <1>1, FS_Interval
<1>3. K \in SUBSET Nat /\ IsFiniteSet(K)
  BY <1>1, <1>2, FS_Subset
<1>4. Cardinality(K) \in Nat
  BY <1>3, FS_CardinalityType
<1>5. \A k \in 1 .. Cardinality(K) : Position(K, k) \in K
  BY <1>3, Positions
<1>6. Selected(file, K) = [k \in 1 .. Cardinality(K) |-> file[Position(K, k)]]
  BY DEF Selected, Position
<1>7. Selected(file, K) \in [1 .. Cardinality(K) -> S]
  BY <1>1, <1>5, <1>6
<1>8. Selected(file, K) \in Seq(S)
  BY <1>4, <1>7, IsASeq
<1>9. Len(Selected(file, K)) = Cardinality(K)
  BY <1>4, <1>7, <1>8, LenProperties
<1> QED
  BY <1>3, <1>5, <1>6, <1>8, <1>9

(* A line that is kept keeps its place among the lines that are kept.      *)
LEMMA KeptInOrder ==
  ASSUME NEW S, NEW file \in Seq(S), NEW K \in SUBSET DOMAIN file
  PROVE  LET t == Selected(file, K)
         IN  /\ \A i \in K : Rank(i, K) \in DOMAIN t /\ t[Rank(i, K)] = file[i]
             /\ \A k \in DOMAIN t : \E i \in K : Rank(i, K) = k /\ t[k] = file[i]
             /\ \A i, j \in K : i <= j <=> Rank(i, K) <= Rank(j, K)
<1> DEFINE t == Selected(file, K)
           n == Cardinality(K)
<1>1. /\ K \in SUBSET Nat /\ IsFiniteSet(K)
      /\ t \in Seq(S) /\ Len(t) = n
      /\ \A k \in 1 .. n : Position(K, k) \in K /\ t[k] = file[Position(K, k)]
  BY SelectedLines
<1>2. /\ n \in Nat
      /\ \A i \in K : Rank(i, K) \in 1 .. n
      /\ \A i \in K : \A j \in K : i < j => Rank(i, K) < Rank(j, K)
  BY <1>1, Ranks
<1>3. /\ \A k \in 1 .. n : Rank(Position(K, k), K) = k
      /\ \A i \in K : Position(K, Rank(i, K)) = i
  BY <1>1, Positions
<1>4. DOMAIN t = 1 .. n
  BY <1>1, LenProperties
<1> HIDE DEF t, n
<1>5. \A i \in K : Rank(i, K) \in DOMAIN t /\ t[Rank(i, K)] = file[i]
  BY <1>1, <1>2, <1>3, <1>4
<1>6. \A k \in DOMAIN t : \E i \in K : Rank(i, K) = k /\ t[k] = file[i]
  BY <1>1, <1>3, <1>4
<1>7. ASSUME NEW i \in K, NEW j \in K
      PROVE  i <= j <=> Rank(i, K) <= Rank(j, K)
  <2>1. i \in Nat /\ j \in Nat /\ Rank(i, K) \in Nat /\ Rank(j, K) \in Nat
    <3>1. i \in Nat /\ j \in Nat
      BY <1>1
    <3>2. Rank(i, K) \in 1 .. n /\ Rank(j, K) \in 1 .. n
      BY <1>2
    <3> QED
      BY <3>1, <3>2
  <2>2. /\ i < j => Rank(i, K) < Rank(j, K)
        /\ j < i => Rank(j, K) < Rank(i, K)
    BY <1>2
  <2> QED
    BY <2>1, <2>2
<1> QED
  BY <1>5, <1>6, <1>7 DEF t

(* Selecting from a file everything it holds changes nothing. *)
LEMMA SelectAll ==
  ASSUME NEW S, NEW file \in Seq(S)
  PROVE  Selected(file, DOMAIN file) = file
<1> DEFINE K == DOMAIN file
           t == Selected(file, K)
<1>1. Len(file) \in Nat /\ K = 1 .. Len(file)
  BY LenProperties
<1>2. Cardinality(K) = Len(file) /\ t \in Seq(S) /\ Len(t) = Len(file)
  <2>1. Cardinality(1 .. Len(file)) = Len(file)
    BY <1>1, FS_Interval
  <2>2. t \in Seq(S) /\ Len(t) = Cardinality(K)
    BY SelectedLines
  <2> QED
    BY <1>1, <2>1, <2>2
<1>3. \A i \in K : Rank(i, K) = i
  <2> SUFFICES ASSUME NEW i \in K PROVE Rank(i, K) = i
    OBVIOUS
  <2>1. i \in Nat /\ 1 <= i
    BY <1>1
  <2>2. {j \in K : j <= i} = 1 .. i
    BY <1>1, <2>1
  <2>3. Cardinality(1 .. i) = i
    BY <2>1, FS_Interval
  <2> QED
    BY <2>2, <2>3 DEF Rank
<1>4. \A i \in K : t[i] = file[i]
  BY <1>3, KeptInOrder
<1> HIDE DEF t, K
<1>5. t = file
  BY <1>1, <1>2, <1>4, SeqEqual
<1> QED
  BY <1>5 DEF t, K

-------------------------------------------------------------------------------
(***************************************************************************)
(* What a file says about a name.                                          *)
(***************************************************************************)
Says(file, n, heeded) == {i \in DOMAIN file : file[i] \in heeded /\ file[i].name = n}

LEMMA ValueSaid ==
  ASSUME NEW file \in Seq(Lines), NEW n, NEW heeded
  PROVE  /\ Says(file, n, heeded) = {} => ValueIn(file, n, heeded) = Unset
         /\ \A i \in Says(file, n, heeded) :
              (\A j \in Says(file, n, heeded) : j <= i)
                => ValueIn(file, n, heeded) = file[i].value
         /\ Says(file, n, heeded) # {} =>
              \E i \in Says(file, n, heeded) : \A j \in Says(file, n, heeded) : j <= i
<1> DEFINE I == Says(file, n, heeded)
<1>1. Len(file) \in Nat /\ DOMAIN file = 1 .. Len(file)
  BY LenProperties
<1>2. I = {i \in 1 .. Len(file) : file[i] \in heeded /\ file[i].name = n}
  BY <1>1 DEF Says
<1>3. I \in SUBSET (1 .. Len(file)) /\ I \in SUBSET Nat
  BY <1>1, <1>2
<1>4. SelectLastInSeq(file, LAMBDA l : l \in heeded /\ l.name = n)
        = IF I # {} THEN Max(I) ELSE 0
  BY <1>2 DEF SelectLastInSeq
<1> HIDE DEF I
<1>5. ValueIn(file, n, heeded)
        = LET i == IF I # {} THEN Max(I) ELSE 0 IN IF i = 0 THEN Unset ELSE file[i].value
  BY <1>4 DEF ValueIn
<1>6. I = {} => ValueIn(file, n, heeded) = Unset
  BY <1>5
<1>7. ASSUME NEW i \in I, \A j \in I : j <= i
      PROVE  ValueIn(file, n, heeded) = file[i].value
  <2>1. Max(I) = i
    BY <1>3, <1>7, MaxIs
  <2>2. i # 0
    BY <1>1, <1>3
  <2> QED
    BY <1>5, <2>1, <2>2
<1>8. I # {} => \E i \in I : \A j \in I : j <= i
  BY <1>1, <1>3, GreatestExists
<1> QED
  BY <1>6, <1>7, <1>8 DEF I

(* Leaving out lines that say nothing about a name leaves its value alone. *)
LEMMA ValueKept ==
  ASSUME NEW file \in Seq(Lines), NEW K \in SUBSET DOMAIN file, NEW n, NEW heeded,
         Says(file, n, heeded) \subseteq K
  PROVE  ValueIn(Selected(file, K), n, heeded) = ValueIn(file, n, heeded)
<1> DEFINE t == Selected(file, K)
           I == Says(file, n, heeded)
           J == Says(t, n, heeded)
<1>1. t \in Seq(Lines)
  BY SelectedLines
<1>2. /\ \A i \in K : Rank(i, K) \in DOMAIN t /\ t[Rank(i, K)] = file[i]
      /\ \A k \in DOMAIN t : \E i \in K : Rank(i, K) = k /\ t[k] = file[i]
      /\ \A i, j \in K : i <= j <=> Rank(i, K) <= Rank(j, K)
  BY KeptInOrder
<1> HIDE DEF t
<1>3. \A i \in I : i \in K /\ Rank(i, K) \in J /\ t[Rank(i, K)] = file[i]
  BY <1>2 DEF Says
<1>4. \A k \in J : \E i \in I : Rank(i, K) = k
  BY <1>2 DEF Says
<1> HIDE DEF I, J
<1>5. CASE I = {}
  <2>1. J = {}
    BY <1>4, <1>5
  <2> QED
    BY <1>1, <1>5, <2>1, ValueSaid DEF I, J, t
<1>6. CASE I # {}
  <2>1. PICK i \in I : \A j \in I : j <= i
    BY <1>6, ValueSaid DEF I
  <2>2. ValueIn(file, n, heeded) = file[i].value
    BY <2>1, ValueSaid DEF I
  <2>3. Rank(i, K) \in J /\ t[Rank(i, K)] = file[i]
    BY <1>3
  <2>4. \A k \in J : k <= Rank(i, K)
    BY <1>2, <1>3, <1>4, <2>1
  <2>5. ValueIn(t, n, heeded) = t[Rank(i, K)].value
    BY <1>1, <2>3, <2>4, ValueSaid DEF J
  <2> QED
    BY <2>2, <2>3, <2>5 DEF t
<1> QED
  BY <1>5, <1>6

LEMMA SameSaid ==
  ASSUME NEW f \in Seq(Lines), NEW g \in Seq(Lines), NEW n, NEW heeded,
         Says(f, n, heeded) = Says(g, n, heeded),
         \A i \in Says(f, n, heeded) : f[i].value = g[i].value
  PROVE  ValueIn(f, n, heeded) = ValueIn(g, n, heeded)
<1>1. CASE Says(f, n, heeded) = {}
  BY <1>1, ValueSaid
<1>2. CASE Says(f, n, heeded) # {}
  <2>1. PICK i \in Says(f, n, heeded) : \A j \in Says(f, n, heeded) : j <= i
    BY <1>2, ValueSaid
  <2> QED
    BY <2>1, ValueSaid
<1> QED
  BY <1>1, <1>2

LEMMA SelectedSame ==
  ASSUME NEW f, NEW g, NEW K \in SUBSET Nat, IsFiniteSet(K), \A i \in K : f[i] = g[i]
  PROVE  Selected(f, K) = Selected(g, K)
<1>1. \A k \in 1 .. Cardinality(K) : Position(K, k) \in K
  BY Positions
<1>2. \A k \in 1 .. Cardinality(K) : f[Position(K, k)] = g[Position(K, k)]
  BY <1>1
<1> QED
  BY <1>2 DEF Selected, Position

(* The lines that bind a name decide its value. *)
LEMMA BindingsDecide ==
  ASSUME NEW f \in Seq(Lines), NEW g \in Seq(Lines), NEW n, NEW heeded \in SUBSET Assignments,
         Bindings(f, n) = Bindings(g, n)
  PROVE  ValueIn(f, n, heeded) = ValueIn(g, n, heeded)
<1>1. ASSUME NEW file \in Seq(Lines)
      PROVE  ValueIn(Bindings(file, n), n, heeded) = ValueIn(file, n, heeded)
  <2> DEFINE K == {i \in DOMAIN file : Binds(file[i], n)}
  <2>1. Says(file, n, heeded) \subseteq K
    BY DEF Says, Binds, Foreign, Assignments
  <2> HIDE DEF K
  <2>2. ValueIn(Selected(file, K), n, heeded) = ValueIn(file, n, heeded)
    BY <2>1, ValueKept DEF K
  <2> QED
    BY <2>2 DEF Bindings, K
<1> QED
  BY <1>1

LEMMA LineFacts ==
  ASSUME NEW file \in Seq(Lines), NEW n
  PROVE  /\ Len(file) \in Nat /\ DOMAIN file = 1 .. Len(file)
         /\ \A i \in DOMAIN file : file[i] \in Lines
         /\ Says(file, n, Assignments) = {i \in DOMAIN file : Binds(file[i], n)}
         /\ \A i \in Says(file, n, Assignments) : file[i].value \in Values \cup {Empty}
<1>1. Len(file) \in Nat /\ DOMAIN file = 1 .. Len(file)
  BY LenProperties
<1>2. \A i \in DOMAIN file : file[i] \in Lines
  BY <1>1, ElementOfSeq
<1>3. \A i \in DOMAIN file :
        file[i] \in Assignments /\ file[i].name = n <=> Binds(file[i], n)
  BY <1>2 DEF Lines, Foreign, Assignments, Binds
<1>4. \A i \in DOMAIN file : file[i] \in Assignments => file[i].value \in Values \cup {Empty}
  BY DEF Assignments
<1> QED
  BY <1>1, <1>2, <1>3, <1>4 DEF Says

LEMMA UnsetSaysNothing ==
  ASSUME NEW file \in Seq(Lines), NEW n, NEW heeded \in SUBSET Assignments
  PROVE  ValueIn(file, n, heeded) = Unset <=> Says(file, n, heeded) = {}
<1>1. CASE Says(file, n, heeded) = {}
  BY <1>1, ValueSaid
<1>2. CASE Says(file, n, heeded) # {}
  <2>1. PICK i \in Says(file, n, heeded) : \A j \in Says(file, n, heeded) : j <= i
    BY <1>2, ValueSaid
  <2>2. ValueIn(file, n, heeded) = file[i].value
    BY <2>1, ValueSaid
  <2>3. file[i].value \in Values \cup {Empty}
    BY <2>1 DEF Says, Assignments
  <2> QED
    BY <1>2, <2>2, <2>3, UnsetAssumption DEF UnsetAssumption, Unset, Empty
<1> QED
  BY <1>1, <1>2

(* A line set_var owns is a binding. *)
LEMMA OwnedBinds ==
  ASSUME NEW file \in Seq(Lines), NEW n, NEW i \in DOMAIN file, Owns(file[i], n)
  PROVE  i \in Says(file, n, Assignments)
<1>1. file[i] \in Lines
  BY LineFacts
<1> QED
  BY <1>1 DEF Owns, Says, Lines, Foreign, Assignments

(* Leaving out lines of other names takes a name out of no shadow. *)
LEMMA ShadowKept ==
  ASSUME NEW file \in Seq(Lines), NEW K \in SUBSET DOMAIN file, NEW n,
         Says(file, n, Assignments) \subseteq K
  PROVE  Shadowed(Selected(file, K), n) <=> Shadowed(file, n)
<1> DEFINE t == Selected(file, K)
           Listing(f, i) == f[i] \in ForList /\ f[i].name = n
           Before(f, i) == \E j \in DOMAIN f : j < i /\ Owns(f[j], n)
           Nowhere(f) == \A j \in DOMAIN f : ~ Owns(f[j], n)
<1>1. t \in Seq(Lines) /\ K \in SUBSET Nat
  BY SelectedLines
<1>2. /\ \A i \in K : Rank(i, K) \in DOMAIN t /\ t[Rank(i, K)] = file[i]
      /\ \A k \in DOMAIN t : \E i \in K : Rank(i, K) = k /\ t[k] = file[i]
      /\ \A i, j \in K : i <= j <=> Rank(i, K) <= Rank(j, K)
  BY KeptInOrder
<1>3. ASSUME NEW f \in Seq(Lines)
      PROVE  Shadowed(f, n) <=> \E i \in DOMAIN f : Listing(f, i) /\ (Before(f, i) \/ Nowhere(f))
  <2>1. DOMAIN f = 1 .. Len(f) /\ Len(f) \in Nat
    BY LenProperties
  <2>2. \A i \in DOMAIN f : (\E j \in 1 .. i - 1 : Owns(f[j], n)) <=> Before(f, i)
    BY <2>1
  <2> QED
    BY <2>2 DEF Shadowed
<1>4. /\ \A i \in DOMAIN file : Listing(file, i) => i \in K
      /\ \A i \in DOMAIN file : Owns(file[i], n) => i \in K
  BY OwnedBinds DEF Says, ForList
<1> HIDE DEF t
<1>5. DOMAIN t \in SUBSET Nat
  BY <1>1, LenProperties
<1>6. \A i, j \in K : i < j <=> Rank(i, K) < Rank(j, K)
  <2>1. \A i \in K : i \in Nat /\ Rank(i, K) \in Nat
    BY <1>1, <1>2, <1>5
  <2> QED
    BY <1>2, <2>1
<1>7. Nowhere(t) <=> Nowhere(file)
  BY <1>2, <1>4
<1>8. \A i \in K : Before(t, Rank(i, K)) <=> Before(file, i)
  <2> SUFFICES ASSUME NEW i \in K PROVE Before(t, Rank(i, K)) <=> Before(file, i)
    OBVIOUS
  <2>1. ASSUME Before(file, i) PROVE Before(t, Rank(i, K))
    <3>1. PICK j \in DOMAIN file : j < i /\ Owns(file[j], n)
      BY <2>1
    <3>2. j \in K /\ Rank(j, K) \in DOMAIN t /\ t[Rank(j, K)] = file[j]
      BY <1>2, <1>4, <3>1
    <3> QED
      BY <1>6, <3>1, <3>2
  <2>2. ASSUME Before(t, Rank(i, K)) PROVE Before(file, i)
    <3>1. PICK k \in DOMAIN t : k < Rank(i, K) /\ Owns(t[k], n)
      BY <2>2
    <3>2. PICK j \in K : Rank(j, K) = k /\ t[k] = file[j]
      BY <1>2
    <3> QED
      BY <1>6, <3>1, <3>2
  <2> QED
    BY <2>1, <2>2
<1>9. ASSUME Shadowed(file, n) PROVE Shadowed(t, n)
  <2>1. PICK i \in DOMAIN file : Listing(file, i) /\ (Before(file, i) \/ Nowhere(file))
    BY <1>3, <1>9
  <2>2. i \in K /\ Rank(i, K) \in DOMAIN t /\ Listing(t, Rank(i, K))
    BY <1>2, <1>4, <2>1
  <2> QED
    BY <1>1, <1>3, <1>7, <1>8, <2>1, <2>2
<1>10. ASSUME Shadowed(t, n) PROVE Shadowed(file, n)
  <2>1. PICK k \in DOMAIN t : Listing(t, k) /\ (Before(t, k) \/ Nowhere(t))
    BY <1>1, <1>3, <1>10
  <2>2. PICK i \in K : Rank(i, K) = k /\ t[k] = file[i]
    BY <1>2
  <2> QED
    BY <1>3, <1>7, <1>8, <2>1, <2>2
<1> QED
  BY <1>9, <1>10 DEF t

-------------------------------------------------------------------------------
(* set_var: one line takes the value, every other one stays. *)

Owned(file, n) == {i \in DOMAIN file : Owns(file[i], n)}
Spot(file, n) == SelectInSeq(file, LAMBDA l : Owns(l, n))

LEMMA SpotIsFirst ==
  ASSUME NEW file \in Seq(Lines), NEW n
  PROVE  /\ Owned(file, n) = {} => Spot(file, n) = 0
         /\ Owned(file, n) # {} =>
              Spot(file, n) \in Owned(file, n) /\ \A i \in Owned(file, n) : Spot(file, n) <= i
<1> DEFINE I == Owned(file, n)
<1>1. Len(file) \in Nat /\ DOMAIN file = 1 .. Len(file)
  BY LenProperties
<1>2. I = {i \in 1 .. Len(file) : Owns(file[i], n)}
  BY <1>1 DEF Owned
<1>3. I \in SUBSET Nat
  BY <1>2
<1>4. Spot(file, n) = IF I # {} THEN Min(I) ELSE 0
  BY <1>2 DEF SelectInSeq, Spot
<1> HIDE DEF I
<1>5. CASE I # {}
  <2>1. PICK m \in I : \A k \in I : m <= k
    BY <1>3, <1>5, LeastExists
  <2>2. Spot(file, n) = m
    BY <1>3, <1>4, <1>5, <2>1, MinIs
  <2> QED
    BY <1>5, <2>1, <2>2 DEF I
<1> QED
  BY <1>4, <1>5 DEF I

SetAt(file, n) == IF Spot(file, n) = 0 THEN Len(file) + 1 ELSE Spot(file, n)

LEMMA SetLine ==
  ASSUME NEW file \in Seq(Lines), NEW n \in Names, NEW v \in Values
  PROVE  LET W == WithSet(file, n, v)
         IN  /\ W \in Seq(Lines)
             /\ SetAt(file, n) \in DOMAIN W /\ W[SetAt(file, n)] = Plain(n, v)
             /\ DOMAIN W = DOMAIN file \cup {SetAt(file, n)}
             /\ \A i \in DOMAIN file : i # SetAt(file, n) => W[i] = file[i]
             /\ SetAt(file, n) \in DOMAIN file =>
                  SetAt(file, n) = Spot(file, n) /\ Owns(file[SetAt(file, n)], n)
             /\ SetAt(file, n) \notin DOMAIN file =>
                  \A i \in DOMAIN file : i <= SetAt(file, n)
<1> DEFINE W == WithSet(file, n, v)
           own == Spot(file, n)
           line == Plain(n, v)
<1>1. Len(file) \in Nat /\ DOMAIN file = 1 .. Len(file)
  BY LenProperties
<1>2. line \in Lines
  BY DEF Plain, Lines, Assignments
<1>3. W = IF own = 0 THEN Append(file, line) ELSE [file EXCEPT ![own] = line]
  BY DEF WithSet, Spot, ReplaceAt
<1>4. own # 0 => own \in DOMAIN file /\ Owns(file[own], n)
  BY SpotIsFirst DEF Owned
<1> HIDE DEF W, own, line, SetAt
<1>5. CASE own = 0
  <2>1. /\ W \in Seq(Lines) /\ Len(W) = Len(file) + 1 /\ W[Len(file) + 1] = line
        /\ \A i \in 1 .. Len(file) : W[i] = file[i]
    BY <1>2, <1>3, <1>5, AppendProperties
  <2>2. DOMAIN W = 1 .. Len(file) + 1
    BY <2>1, LenProperties
  <2> QED
    BY <1>1, <1>4, <1>5, <2>1, <2>2 DEF W, own, line, SetAt
<1>6. CASE own # 0
  <2>1. W \in Seq(Lines) /\ Len(W) = Len(file)
    BY <1>1, <1>2, <1>3, <1>4, <1>6, ExceptSeq
  <2>2. /\ DOMAIN W = DOMAIN file /\ W[own] = line
        /\ \A i \in DOMAIN file : i # own => W[i] = file[i]
    BY <1>3, <1>4, <1>6
  <2> QED
    BY <1>4, <1>6, <2>1, <2>2 DEF W, own, line, SetAt
<1> QED
  BY <1>5, <1>6

LEMMA SetEffect ==
  ASSUME NEW file \in Seq(Lines), NEW n \in Names, NEW v \in Values
  PROVE  LET W == WithSet(file, n, v)
         IN  /\ W \in Seq(Lines)
             /\ NotOwned(W, n) = NotOwned(file, n)
             /\ \A m \in Names, heeded \in SUBSET Assignments :
                  m # n => ValueIn(W, m, heeded) = ValueIn(file, m, heeded)
             /\ \A m \in Names : m # n => (Shadowed(W, m) <=> Shadowed(file, m))
             /\ \E i \in DOMAIN W :
                  W[i] = Plain(n, v) /\ \A j \in DOMAIN W : j < i => ~ Owns(W[j], n)
             /\ \A heeded \in SUBSET Assignments :
                  IF Plain(n, v) \in heeded
                  THEN (\A i \in Says(file, n, heeded) : Spot(file, n) = 0 \/ i <= Spot(file, n))
                         => ValueIn(W, n, heeded) = v
                  ELSE Says(W, n, heeded) = Says(file, n, heeded) \ {Spot(file, n)}
<1> DEFINE W == WithSet(file, n, v)
           own == Spot(file, n)
           set == SetAt(file, n)
<1>1. /\ W \in Seq(Lines)
      /\ set \in DOMAIN W /\ W[set] = Plain(n, v)
      /\ DOMAIN W = DOMAIN file \cup {set}
      /\ \A i \in DOMAIN file : i # set => W[i] = file[i]
      /\ set \in DOMAIN file => set = own /\ Owns(file[set], n)
      /\ set \notin DOMAIN file => \A i \in DOMAIN file : i <= set
  BY SetLine
<1>0. own = 0 => set \notin DOMAIN file
  BY LineFacts DEF SetAt
<1> HIDE DEF W
<1>2. Plain(n, v).shape = "plain" /\ Plain(n, v).name = n /\ Plain(n, v).value = v
  BY DEF Plain
<1>3. Owns(W[set], n)
  BY <1>1, <1>2 DEF Owns
<1>4. set \in DOMAIN file => Owns(file[set], n)
  BY <1>1
<1> HIDE DEF set
<1>5. NotOwned(W, n) = NotOwned(file, n)
  <2> DEFINE K == {i \in DOMAIN file : ~ Owns(file[i], n)}
  <2>1. {i \in DOMAIN W : ~ Owns(W[i], n)} = K
    BY <1>1, <1>3, <1>4
  <2>2. \A i \in K : W[i] = file[i]
    BY <1>1, <1>4
  <2>3. K \in SUBSET DOMAIN file
    OBVIOUS
  <2> HIDE DEF K
  <2>4. K \in SUBSET Nat /\ IsFiniteSet(K)
    BY <2>3, SelectedLines
  <2>5. Selected(W, K) = Selected(file, K)
    BY <2>2, <2>4, SelectedSame
  <2> QED
    BY <2>1, <2>5 DEF NotOwned, K
<1>6. ASSUME NEW m \in Names, NEW heeded \in SUBSET Assignments, m # n
      PROVE  ValueIn(W, m, heeded) = ValueIn(file, m, heeded)
  <2>1. set \notin Says(W, m, heeded) /\ set \notin Says(file, m, heeded)
    BY <1>3, <1>4, <1>6 DEF Says, Owns
  <2>2. Says(W, m, heeded) = Says(file, m, heeded)
    BY <1>1, <2>1 DEF Says
  <2>3. \A i \in Says(W, m, heeded) : W[i].value = file[i].value
    BY <1>1, <2>1, <2>2 DEF Says
  <2> QED
    BY <1>1, <2>2, <2>3, SameSaid
<1>7. ASSUME NEW m \in Names, m # n PROVE Shadowed(W, m) <=> Shadowed(file, m)
  <2>1. /\ set \notin Says(W, m, ForList) /\ set \notin Says(file, m, ForList)
        /\ ~ Owns(W[set], m) /\ (set \in DOMAIN file => ~ Owns(file[set], m))
    BY <1>3, <1>4, <1>7 DEF Says, Owns
  <2>2. /\ Says(W, m, ForList) = Says(file, m, ForList)
        /\ \A j : j \in DOMAIN W /\ Owns(W[j], m) <=> j \in DOMAIN file /\ Owns(file[j], m)
    BY <1>1, <2>1 DEF Says
  <2>3. DOMAIN W = 1 .. Len(W) /\ DOMAIN file = 1 .. Len(file) /\ Len(W) \in Nat /\ Len(file) \in Nat
    BY <1>1, LenProperties
  <2>4. ASSUME NEW f \in {W, file}
        PROVE  Shadowed(f, m) <=>
                 \E i \in Says(f, m, ForList) :
                   \/ \E j \in Nat : j < i /\ j \in DOMAIN f /\ Owns(f[j], m)
                   \/ \A j : ~ (j \in DOMAIN f /\ Owns(f[j], m))
    BY <2>3 DEF Shadowed, Says
  <2> QED
    BY <2>2, <2>4
<1>8. \A j \in DOMAIN W : j < set => ~ Owns(W[j], n)
  <2> SUFFICES ASSUME NEW j \in DOMAIN W, j < set, Owns(W[j], n) PROVE FALSE
    OBVIOUS
  <2>1. j \in Nat /\ set \in Nat
    BY <1>1, LenProperties
  <2>2. j \in Owned(file, n)
    BY <1>1, <2>1 DEF Owned
  <2>3. own \in Owned(file, n) /\ own <= j
    BY <2>2, SpotIsFirst
  <2>4. own = set
    <3>1. own # 0
      BY <2>3, LineFacts DEF Owned
    <3> QED
      BY <3>1 DEF set, SetAt
  <2> QED
    BY <2>1, <2>3, <2>4
<1>9. ASSUME NEW heeded \in SUBSET Assignments, Plain(n, v) \in heeded,
             \A i \in Says(file, n, heeded) : own = 0 \/ i <= own
      PROVE  ValueIn(W, n, heeded) = v
  <2>1. set \in Says(W, n, heeded)
    BY <1>1, <1>2, <1>9 DEF Says
  <2>2. ASSUME NEW i \in Says(W, n, heeded) PROVE i <= set
    <3>1. i \in DOMAIN file \/ i = set
      BY <1>1 DEF Says
    <3>2. CASE i = set
      <4>1. i \in Nat
        BY <1>1, <3>2, LenProperties
      <4> QED
        BY <3>2, <4>1
    <3>3. CASE i \in DOMAIN file /\ i # set
      <4>1. i \in Says(file, n, heeded)
        BY <1>1, <3>3 DEF Says
      <4> QED
        BY <1>0, <1>1, <1>9, <3>3, <4>1 DEF SetAt
    <3> QED
      BY <3>1, <3>2, <3>3
  <2> QED
    BY <1>1, <1>2, <2>1, <2>2, ValueSaid
<1>10. ASSUME NEW heeded \in SUBSET Assignments, Plain(n, v) \notin heeded
       PROVE  Says(W, n, heeded) = Says(file, n, heeded) \ {own}
  <2>1. set \notin Says(W, n, heeded)
    BY <1>1, <1>10 DEF Says
  <2>2. Says(W, n, heeded) = Says(file, n, heeded) \ {set}
    BY <1>1, <2>1 DEF Says
  <2>3. own = set \/ (own \notin DOMAIN file /\ set \notin DOMAIN file)
    <3>1. own = 0 => own \notin DOMAIN file
      BY LineFacts
    <3>2. own # 0 => own = set
      BY DEF set, SetAt
    <3> QED
      BY <1>0, <3>1, <3>2
  <2> QED
    BY <2>2, <2>3 DEF Says
<1> HIDE DEF own
<1>11. \E i \in DOMAIN W : W[i] = Plain(n, v) /\ \A j \in DOMAIN W : j < i => ~ Owns(W[j], n)
  BY <1>1, <1>8
<1>12. \A heeded \in SUBSET Assignments :
         IF Plain(n, v) \in heeded
         THEN (\A i \in Says(file, n, heeded) : own = 0 \/ i <= own) => ValueIn(W, n, heeded) = v
         ELSE Says(W, n, heeded) = Says(file, n, heeded) \ {own}
  BY <1>9, <1>10
<1> QED
  BY <1>1, <1>5, <1>6, <1>7, <1>11, <1>12 DEF W, own

-------------------------------------------------------------------------------
(* unset_var: every line it owns goes, every other one stays. *)
LEMMA UnsetEffect ==
  ASSUME NEW file \in Seq(Lines), NEW n \in Names
  PROVE  LET W == WithUnset(file, n)
         IN  /\ W \in Seq(Lines)
             /\ NotOwned(W, n) = NotOwned(file, n)
             /\ \A m \in Names, heeded \in SUBSET Assignments :
                  m # n => ValueIn(W, m, heeded) = ValueIn(file, m, heeded)
             /\ \A m \in Names : m # n => (Shadowed(W, m) <=> Shadowed(file, m))
             /\ \A k \in DOMAIN W : ~ Owns(W[k], n)
             /\ \A heeded \in SUBSET Assignments :
                  Says(W, n, heeded) = {} <=> Says(file, n, heeded) \subseteq Owned(file, n)
<1> DEFINE K == {i \in DOMAIN file : ~ Owns(file[i], n)}
           W == Selected(file, K)
<1>1. WithUnset(file, n) = W
  BY DEF WithUnset, NotOwned
<1>2. K \in SUBSET DOMAIN file /\ \A i \in DOMAIN file : i \in K <=> ~ Owns(file[i], n)
  OBVIOUS
<1> HIDE DEF K
<1>3. W \in Seq(Lines)
  BY <1>2, SelectedLines
<1>4. /\ \A i \in K : Rank(i, K) \in DOMAIN W /\ W[Rank(i, K)] = file[i]
      /\ \A k \in DOMAIN W : \E i \in K : Rank(i, K) = k /\ W[k] = file[i]
  BY <1>2, KeptInOrder
<1>5. \A m \in Names, heeded \in SUBSET Assignments :
        m # n => ValueIn(W, m, heeded) = ValueIn(file, m, heeded)
  <2> SUFFICES ASSUME NEW m \in Names, NEW heeded \in SUBSET Assignments, m # n
               PROVE  ValueIn(W, m, heeded) = ValueIn(file, m, heeded)
    OBVIOUS
  <2>1. Says(file, m, heeded) \subseteq K
    BY <1>2 DEF Says, Owns
  <2> QED
    BY <1>2, <2>1, ValueKept
<1> HIDE DEF W
<1>6. NotOwned(W, n) = W
  <2>1. \A k \in DOMAIN W : ~ Owns(W[k], n)
    BY <1>2, <1>4
  <2>2. {k \in DOMAIN W : ~ Owns(W[k], n)} = DOMAIN W
    BY <2>1
  <2> QED
    BY <1>3, <2>2, SelectAll DEF NotOwned
<1>7. NotOwned(file, n) = W
  BY DEF NotOwned, K, W
<1>8. \A k \in DOMAIN W : ~ Owns(W[k], n)
  BY <1>2, <1>4
<1>9. ASSUME NEW m \in Names, m # n PROVE Shadowed(W, m) <=> Shadowed(file, m)
  <2>1. Says(file, m, Assignments) \subseteq K
    BY <1>2, <1>9 DEF Says, Owns
  <2> QED
    BY <1>2, <2>1, ShadowKept DEF W
<1>10. ASSUME NEW heeded \in SUBSET Assignments
       PROVE  Says(W, n, heeded) = {} <=> Says(file, n, heeded) \subseteq Owned(file, n)
  <2>1. ASSUME NEW i \in Says(file, n, heeded), i \notin Owned(file, n)
        PROVE  Says(W, n, heeded) # {}
    <3>1. i \in K
      BY <1>2, <2>1 DEF Says, Owned
    <3>2. Rank(i, K) \in Says(W, n, heeded)
      BY <1>4, <3>1 DEF Says
    <3> QED
      BY <3>2
  <2>2. ASSUME NEW k \in Says(W, n, heeded)
        PROVE  ~ (Says(file, n, heeded) \subseteq Owned(file, n))
    <3>1. PICK i \in K : W[k] = file[i]
      BY <1>4 DEF Says
    <3>2. i \in Says(file, n, heeded) /\ i \notin Owned(file, n)
      BY <1>2, <3>1 DEF Says, Owned
    <3> QED
      BY <3>2
  <2> QED
    BY <2>1, <2>2
<1> QED
  BY <1>1, <1>3, <1>5, <1>6, <1>7, <1>8, <1>9, <1>10

-------------------------------------------------------------------------------
(* Commands and metadata. *)

LEMMA CommandFacts ==
  ASSUME NEW c \in Commands
  PROVE  /\ c.name \in Names /\ c.op \in {"set", "unset"}
         /\ c.op = "set" => c.value \in Values
         /\ c.op # "set" => c.value = Unset
         /\ c.value \in Values \cup {Unset}
<1>1. CASE \E n \in Names : c \in [op : {"set"}, name : {n}, value : Typed[n]]
  BY <1>1 DEF Values
<1>2. CASE c \in [op : {"unset"}, name : Names, value : {Unset}]
  BY <1>2
<1>3. \/ \E n \in Names : c \in [op : {"set"}, name : {n}, value : Typed[n]]
      \/ c \in [op : {"unset"}, name : Names, value : {Unset}]
  <2> DEFINE SetsOf(n) == [op : {"set"}, name : {n}, value : Typed[n]]
             unsets == [op : {"unset"}, name : Names, value : {Unset}]
  <2>1. Commands = (UNION {SetsOf(n) : n \in Names}) \cup unsets
    BY DEF Commands
  <2> HIDE DEF SetsOf, unsets
  <2>2. c \in unsets \/ \E n \in Names : c \in SetsOf(n)
    BY <2>1
  <2> QED
    BY <2>2 DEF SetsOf, unsets
<1> QED
  BY <1>1, <1>2, <1>3, Zenon

LEMMA SetValue ==
  ASSUME NEW c \in Commands
  PROVE  c.op = "set" <=> c.value # Unset
BY CommandFacts, UnsetAssumption DEF UnsetAssumption

Entry == [last4 : Masks \cup {"none"}, rotated : BOOLEAN]

LEMMA EntriesType ==
  ASSUME NEW old \in EntrySets, NEW c \in Commands
  PROVE  /\ EntriesAfter(old, c) \in EntrySets
         /\ DOMAIN EntriesAfter(old, c) =
              IF c.op = "set" THEN DOMAIN old \cup {c.name} ELSE DOMAIN old \ {c.name}
         /\ \A n \in DOMAIN EntriesAfter(old, c) :
              EntriesAfter(old, c)[n] = IF n = c.name THEN EntryAfter(old, c) ELSE old[n]
<1> DEFINE new == EntriesAfter(old, c)
           D == IF c.op = "set" THEN DOMAIN old \cup {c.name} ELSE DOMAIN old \ {c.name}
<1>1. DOMAIN old \in SUBSET Names /\ \A n \in DOMAIN old : old[n] \in Entry
  BY DEF EntrySets, Entry
<1>2. c.name \in Names
  BY CommandFacts
<1>3. D \in SUBSET Names
  BY <1>1, <1>2
<1>4. new = [n \in D |-> IF n = c.name THEN EntryAfter(old, c) ELSE old[n]]
  BY DEF EntriesAfter
<1>5. c.name \in D => EntryAfter(old, c) \in Entry
  <2>1. c.name \in D => c.op = "set"
    OBVIOUS
  <2>2. c.op = "set" => Last4(c.value) \in Masks
    BY CommandFacts DEF Last4, Masks
  <2> QED
    BY <2>1, <2>2 DEF EntryAfter, Entry
<1> HIDE DEF D
<1>6. \A n \in D : n # c.name => n \in DOMAIN old
  BY DEF D
<1>7. new \in [D -> Entry]
  BY <1>1, <1>4, <1>5, <1>6
<1>8. new \in EntrySets
  BY <1>3, <1>7 DEF EntrySets, Entry
<1> QED
  BY <1>4, <1>8 DEF D

LEMMA NoEntriesType == NoEntries \in EntrySets /\ DOMAIN NoEntries = {}
<1>1. NoEntries \in [{} -> Entry] /\ {} \in SUBSET Names
  BY DEF NoEntries
<1> QED
  BY <1>1 DEF EntrySets, Entry, NoEntries

-------------------------------------------------------------------------------
(***************************************************************************)
(* The types, and that a second copy of .env is about to be renamed.       *)
(***************************************************************************)
Commanded == \A p \in Busy : command[p] \in Commands

Base ==
  /\ TypeOK
  /\ Commanded
  /\ NoStrayCopies

LEMMA BaseInit == Init => Base
<1> SUFFICES ASSUME Init PROVE Base
  OBVIOUS
<1>1. TypeOK
  <2>1. env \in Seq(Lines)
    BY FilesAssumption DEF Init, FilesAssumption
  <2>2. meta \in EntrySets /\ entries \in [Procs -> EntrySets]
    BY NoEntriesType DEF Init
  <2>3. lines \in [Procs -> Seq(Lines)] /\ taken \in [Names -> Seq(Values \cup {Unset})]
    BY DEF Init
  <2>4. /\ at \in [Procs -> {"idle", "reading", "writing", "replacing", "loading",
                             "truncating", "dumping", "killed"}]
        /\ command \in [Procs -> Commands \cup {NoCommand}]
        /\ alone \in [Procs -> BOOLEAN] /\ tmp \subseteq Procs /\ excused \subseteq Names
        /\ document \in {"whole", "empty", "part"}
    BY DEF Init
  <2>5. changes \in 0 .. MaxChanges
    BY BoundsAssumption DEF Init, BoundsAssumption
  <2> QED
    BY <2>1, <2>2, <2>3, <2>4, <2>5 DEF TypeOK
<1>2. Commanded /\ NoStrayCopies
  BY DEF Init, Commanded, Busy, NoStrayCopies
<1> QED
  BY <1>1, <1>2 DEF Base

(* What a command makes of the file it has read. *)
After(p) ==
  IF command[p].op = "set" THEN WithSet(lines[p], command[p].name, command[p].value)
  ELSE WithUnset(lines[p], command[p].name)

LEMMA AfterType ==
  ASSUME Base, NEW p \in Busy
  PROVE  After(p) \in Seq(Lines)
<1>1. command[p] \in Commands /\ lines[p] \in Seq(Lines)
  BY DEF Base, Commanded, TypeOK, Busy
<1> QED
  BY <1>1, CommandFacts, SetEffect, UnsetEffect DEF After

LEMMA BaseNext == Base /\ [StoreNext]_storeVars => Base'
<1> SUFFICES ASSUME Base, [StoreNext]_storeVars PROVE Base'
  OBVIOUS
<1> USE DEF Base
<1>1. ASSUME NEW p \in Procs, NEW c \in Commands, Issue(p, c) PROVE Base'
  <2>1. TypeOK'
    <3>1. alone' \in [Procs -> BOOLEAN]
      BY <1>1 DEF Issue
    <3>2. changes' \in 0 .. MaxChanges
      BY <1>1, BoundsAssumption DEF Issue, TypeOK, BoundsAssumption
    <3> QED
      BY <1>1, <3>1, <3>2 DEF Issue, TypeOK
  <2>2. Commanded' /\ NoStrayCopies'
    BY <1>1 DEF Issue, TypeOK, Commanded, Busy, NoStrayCopies
  <2> QED
    BY <2>1, <2>2
<1>2. ASSUME NEW p \in Procs, Read(p) PROVE Base'
  <2>1. TypeOK'
    BY <1>2 DEF Read, TypeOK
  <2>2. Commanded' /\ NoStrayCopies'
    BY <1>2 DEF Read, TypeOK, Commanded, Busy, NoStrayCopies
  <2> QED
    BY <2>1, <2>2
<1>3. ASSUME NEW p \in Procs, NEW how \in {"idle", "killed"}, Leave(p, how), p \in Busy,
             env' \in Seq(Lines), meta' \in EntrySets, document' \in {"whole", "empty", "part"},
             \/ tmp' = tmp \ {p}
             \/ tmp' = tmp /\ (at[p] = "replacing" => how = "killed"),
             excused' \subseteq Names, UNCHANGED <<changes, taken>>
      PROVE  Base'
  <2>1. TypeOK'
    BY <1>3, NoEntriesType DEF Leave, TypeOK
  <2>2. Commanded' /\ NoStrayCopies'
    BY <1>3 DEF Leave, TypeOK, Commanded, Busy, NoStrayCopies
  <2> QED
    BY <2>1, <2>2
<1>4. ASSUME NEW p \in Procs, Refuse(p) PROVE Base'
  BY <1>3, <1>4 DEF Refuse, Busy, TypeOK
<1>5. ASSUME NEW p \in Procs, WriteTmp(p) PROVE Base'
  <2>1. TypeOK'
    BY <1>5 DEF WriteTmp, TypeOK
  <2>2. Commanded' /\ NoStrayCopies'
    BY <1>5 DEF WriteTmp, TypeOK, Commanded, Busy, NoStrayCopies
  <2> QED
    BY <2>1, <2>2
<1>6. ASSUME NEW p \in Procs, WriteFails(p) PROVE Base'
  BY <1>3, <1>6 DEF WriteFails, Busy, TypeOK
<1>7. ASSUME NEW p \in Procs, Replace(p) PROVE Base'
  <2>1. p \in Busy /\ command[p] \in Commands
    BY <1>7 DEF Replace, Busy, Commanded
  <2>2. env' \in Seq(Lines)
    BY <1>7, <2>1, AfterType DEF Replace, After
  <2>3. taken' \in [Names -> Seq(Values \cup {Unset})]
    <3> DEFINE n == command[p].name
               V == Values \cup {Unset}
    <3>1. command[p].value \in V /\ n \in Names /\ taken \in [Names -> Seq(V)]
      BY <2>1, CommandFacts DEF TypeOK
    <3>2. taken' = [taken EXCEPT ![n] = Append(taken[n], command[p].value)]
      BY <1>7 DEF Replace
    <3> HIDE DEF n, V
    <3>3. Append(taken[n], command[p].value) \in Seq(V)
      BY <3>1, AppendProperties
    <3> QED
      BY <3>1, <3>2, <3>3 DEF V
  <2>4. lines' \in [Procs -> Seq(Lines)]
    <3>1. <<>> \in Seq(Lines)
      OBVIOUS
    <3> QED
      BY <1>7, <3>1 DEF Replace, TypeOK
  <2>5. TypeOK'
    BY <1>7, <2>2, <2>3, <2>4 DEF Replace, TypeOK
  <2>6. Commanded' /\ NoStrayCopies'
    BY <1>7 DEF Replace, TypeOK, Commanded, Busy, NoStrayCopies
  <2> QED
    BY <2>5, <2>6
<1>8. ASSUME NEW p \in Procs, LoadMeta(p) PROVE Base'
  <2>1. TypeOK'
    BY <1>8 DEF LoadMeta, TypeOK
  <2>2. Commanded' /\ NoStrayCopies'
    BY <1>8 DEF LoadMeta, TypeOK, Commanded, Busy, NoStrayCopies
  <2> QED
    BY <2>1, <2>2
<1>9. ASSUME NEW p \in Procs, LoadMetaFails(p) PROVE Base'
  <2>1. TypeOK'
    BY <1>9 DEF LoadMetaFails, TypeOK
  <2>2. Commanded' /\ NoStrayCopies'
    BY <1>9 DEF LoadMetaFails, TypeOK, Commanded, Busy, NoStrayCopies
  <2> QED
    BY <2>1, <2>2
<1>10. ASSUME NEW p \in Procs, TruncateMeta(p) PROVE Base'
  <2>1. TypeOK'
    BY <1>10, NoEntriesType DEF TruncateMeta, TypeOK
  <2>2. Commanded' /\ NoStrayCopies'
    BY <1>10 DEF TruncateMeta, TypeOK, Commanded, Busy, NoStrayCopies
  <2> QED
    BY <2>1, <2>2
<1>11. ASSUME NEW p \in Procs, DumpMeta(p) PROVE Base'
  <2>1. p \in Busy /\ command[p] \in Commands /\ entries[p] \in EntrySets
    BY <1>11 DEF DumpMeta, Busy, Commanded, TypeOK
  <2>2. EntriesAfter(entries[p], command[p]) \in EntrySets /\ command[p].name \in Names
    BY <2>1, EntriesType, CommandFacts
  <2>3. meta' \in EntrySets /\ document' \in {"whole", "empty", "part"}
    BY <1>11, <2>2, NoEntriesType DEF DumpMeta
  <2>4. excused' \subseteq Names
    BY <1>11, <2>2 DEF DumpMeta, TypeOK
  <2> QED
    BY <1>3, <1>11, <2>1, <2>3, <2>4 DEF DumpMeta, TypeOK
<1>12. ASSUME NEW p \in Procs, p \in Busy, LeaveMeta(p)
       PROVE  /\ meta' \in EntrySets /\ document' \in {"whole", "empty", "part"}
              /\ InDoubt(p) \subseteq Names
  <2>1. command[p].name \in Names
    BY <1>12, CommandFacts DEF Commanded
  <2> QED
    BY <1>12, <2>1, NoEntriesType DEF LeaveMeta, InDoubt, TypeOK
<1>13. ASSUME NEW p \in Procs, SaveMetaFails(p) PROVE Base'
  <2>1. p \in Busy
    BY <1>13 DEF SaveMetaFails, Busy
  <2> QED
    BY <1>3, <1>12, <1>13, <2>1 DEF SaveMetaFails, TypeOK
<1>14. ASSUME NEW p \in Procs, Kill(p) PROVE Base'
  BY <1>3, <1>12, <1>14 DEF Kill, TypeOK
<1>15. ASSUME NEW file \in Edited, EditByHand(file) PROVE Base'
  <2>1. file \in Seq(Lines)
    <3>1. CASE file \in {Append(env, line) : line \in HandLines}
      <4>1. PICK line \in HandLines : file = Append(env, line)
        BY <3>1
      <4>2. line \in Lines /\ env \in Seq(Lines)
        BY FilesAssumption DEF FilesAssumption, TypeOK
      <4> QED
        BY <4>1, <4>2, AppendProperties
    <3>2. CASE file \in {RemoveAt(env, i) : i \in DOMAIN env}
      <4>1. PICK i \in DOMAIN env : file = RemoveAt(env, i)
        BY <3>2
      <4>2. env \in Seq(Lines) /\ Len(env) \in Nat /\ i \in 1 .. Len(env)
        BY LenProperties DEF TypeOK
      <4>3. SubSeq(env, 1, i - 1) \in Seq(Lines) /\ SubSeq(env, i + 1, Len(env)) \in Seq(Lines)
        BY <4>2, SubSeqProperties
      <4> QED
        BY <4>1, <4>3, ConcatProperties DEF RemoveAt
    <3> QED
      BY <3>1, <3>2 DEF Edited
  <2>2. TypeOK'
    <3>1. alone' \in [Procs -> BOOLEAN]
      BY <1>15 DEF EditByHand, TypeOK
    <3>2. changes' \in 0 .. MaxChanges
      BY <1>15, BoundsAssumption DEF EditByHand, TypeOK, BoundsAssumption
    <3>3. excused' \subseteq Names
      BY <1>15 DEF EditByHand, TypeOK
    <3> QED
      BY <1>15, <2>1, <3>1, <3>2, <3>3 DEF EditByHand, TypeOK
  <2>3. Commanded' /\ NoStrayCopies'
    BY <1>15 DEF EditByHand, Commanded, Busy, NoStrayCopies
  <2> QED
    BY <2>2, <2>3
<1>16. CASE UNCHANGED storeVars
  BY <1>16 DEF storeVars, TypeOK, Commanded, Busy, NoStrayCopies
<1> QED
  BY <1>1, <1>2, <1>4, <1>5, <1>6, <1>7, <1>8, <1>9, <1>10, <1>11, <1>13, <1>14, <1>15, <1>16
     DEF StoreNext, Step

-------------------------------------------------------------------------------
(***************************************************************************)
(* What the metadata says has happened.  An entry exists only for a        *)
(* variable that was set more often than there are commands that have set  *)
(* it and not yet written their own entry: the one that finds an entry     *)
(* records a rotation.                                                     *)
(***************************************************************************)
Working == {"loading", "truncating", "dumping"}

SetsIn(q) == {i \in DOMAIN q : q[i] # Unset}

PlacedBy(n, where, what) ==
  {p \in Procs : where[p] \in Working /\ what[p].op = "set" /\ what[p].name = n}

Vouch(n, e, q, k) ==
  /\ n \in Secrets => \E v \in Range(q) \ {Unset} : e.last4 = Last4(v)
  /\ e.rotated => Cardinality(SetsIn(q)) > 1
  /\ Cardinality(SetsIn(q)) > k

History ==
  /\ \A n \in DOMAIN meta :
       Vouch(n, meta[n], taken[n], Cardinality(PlacedBy(n, at, command)))
  /\ \A p \in Procs : \A n \in DOMAIN entries[p] :
       Vouch(n, entries[p][n], taken[n], Cardinality(PlacedBy(n, at, command)))
  /\ \A n \in Names : Cardinality(SetsIn(taken[n])) >= Cardinality(PlacedBy(n, at, command))
  /\ \A n \in Names : \A p \in PlacedBy(n, at, command) : command[p].value \in Range(taken[n])

TakenValues == Values \cup {Unset}

LEMMA SetsFinite ==
  ASSUME NEW q \in Seq(TakenValues)
  PROVE  IsFiniteSet(SetsIn(q)) /\ Cardinality(SetsIn(q)) \in Nat
<1>1. Len(q) \in Nat /\ DOMAIN q = 1 .. Len(q)
  BY LenProperties
<1>2. IsFiniteSet(DOMAIN q) /\ SetsIn(q) \in SUBSET DOMAIN q
  BY <1>1, FS_Interval DEF SetsIn
<1> QED
  BY <1>2, FS_Subset, FS_CardinalityType

LEMMA AppendFacts ==
  ASSUME NEW S, NEW q \in Seq(S), NEW x \in S
  PROVE  /\ Len(q) \in Nat /\ DOMAIN q = 1 .. Len(q) /\ DOMAIN Append(q, x) = 1 .. Len(q) + 1
         /\ \A i \in 1 .. Len(q) : Append(q, x)[i] = q[i]
         /\ Append(q, x)[Len(q) + 1] = x
BY AppendProperties, LenProperties

LEMMA SetsGrow ==
  ASSUME NEW q \in Seq(TakenValues), NEW v \in TakenValues
  PROVE  /\ Range(q) \subseteq Range(Append(q, v)) /\ v \in Range(Append(q, v))
         /\ Cardinality(SetsIn(Append(q, v)))
              = IF v = Unset THEN Cardinality(SetsIn(q)) ELSE Cardinality(SetsIn(q)) + 1
<1> DEFINE t == Append(q, v)
           n == Len(q)
<1>1. /\ n \in Nat /\ DOMAIN q = 1 .. n /\ DOMAIN t = 1 .. n + 1
      /\ \A i \in 1 .. n : t[i] = q[i]
      /\ t[n + 1] = v
  BY AppendFacts
<1> HIDE DEF t, n
<1>2. Range(q) \subseteq Range(t) /\ v \in Range(t)
  <2>1. \A i \in DOMAIN q : i \in DOMAIN t /\ t[i] = q[i]
    BY <1>1
  <2>2. n + 1 \in DOMAIN t
    BY <1>1
  <2> QED
    BY <1>1, <2>1, <2>2 DEF Range
<1>3. IsFiniteSet(SetsIn(q)) /\ Cardinality(SetsIn(q)) \in Nat
  BY SetsFinite
<1>4. n + 1 \notin SetsIn(q)
  BY <1>1 DEF SetsIn
<1>5. CASE v = Unset
  <2>1. SetsIn(t) = SetsIn(q)
    BY <1>1, <1>5 DEF SetsIn
  <2> QED
    BY <1>2, <1>5, <2>1 DEF t
<1>6. CASE v # Unset
  <2>1. SetsIn(t) = SetsIn(q) \cup {n + 1}
    BY <1>1, <1>6 DEF SetsIn
  <2>2. Cardinality(SetsIn(t)) = Cardinality(SetsIn(q)) + 1
    BY <1>3, <1>4, <2>1, FS_AddElement
  <2> QED
    BY <1>2, <1>6, <2>2 DEF t
<1> QED
  BY <1>5, <1>6

LEMMA PlacedFinite ==
  ASSUME NEW n, NEW where, NEW what
  PROVE  /\ IsFiniteSet(PlacedBy(n, where, what))
         /\ Cardinality(PlacedBy(n, where, what)) \in Nat
<1>1. PlacedBy(n, where, what) \in SUBSET Procs
  BY DEF PlacedBy
<1> QED
  BY <1>1, ProcsAssumption, FS_Subset, FS_CardinalityType DEF ProcsAssumption

(* A step that adds nothing to the metadata and finishes no command well.  *)
LEMMA HistoryKept ==
  ASSUME Base, History, UNCHANGED taken,
         \A n \in Names : PlacedBy(n, at', command') \subseteq PlacedBy(n, at, command),
         \A n \in Names : \A p \in PlacedBy(n, at', command') : command'[p] = command[p],
         meta' \in {meta, NoEntries},
         \A p \in Procs : entries'[p] \in {entries[p], meta, NoEntries}
  PROVE  History'
<1>1. ASSUME NEW n \in Names
      PROVE  /\ Cardinality(PlacedBy(n, at', command')) \in Nat
             /\ Cardinality(PlacedBy(n, at, command)) \in Nat
             /\ Cardinality(SetsIn(taken[n])) \in Nat
             /\ Cardinality(PlacedBy(n, at', command')) <= Cardinality(PlacedBy(n, at, command))
  <2>1. PlacedBy(n, at', command') \in SUBSET PlacedBy(n, at, command)
    OBVIOUS
  <2>2. taken[n] \in Seq(TakenValues)
    BY DEF Base, TypeOK, TakenValues
  <2> QED
    BY <2>1, <2>2, PlacedFinite, SetsFinite, FS_Subset
<1>2. ASSUME NEW n \in Names, NEW e, Vouch(n, e, taken[n], Cardinality(PlacedBy(n, at, command)))
      PROVE  Vouch(n, e, taken'[n], Cardinality(PlacedBy(n, at', command')))
  BY <1>1, <1>2 DEF Vouch
<1>3. DOMAIN meta \subseteq Names /\ \A p \in Procs : DOMAIN entries[p] \subseteq Names
  BY DEF Base, TypeOK, EntrySets
<1>4. \A n \in DOMAIN meta' :
        Vouch(n, meta'[n], taken'[n], Cardinality(PlacedBy(n, at', command')))
  BY <1>2, <1>3, NoEntriesType DEF History
<1>5. ASSUME NEW p \in Procs, NEW n \in DOMAIN entries'[p]
      PROVE  Vouch(n, entries'[p][n], taken'[n], Cardinality(PlacedBy(n, at', command')))
  BY <1>2, <1>3, NoEntriesType DEF History
<1>6. \A n \in Names :
        Cardinality(SetsIn(taken'[n])) >= Cardinality(PlacedBy(n, at', command'))
  BY <1>1 DEF History
<1>7. \A n \in Names : \A p \in PlacedBy(n, at', command') : command'[p].value \in Range(taken'[n])
  BY DEF History
<1> QED
  BY <1>4, <1>5, <1>6, <1>7 DEF History

LEMMA HistoryReplace ==
  ASSUME Base, History, NEW p \in Procs, Replace(p)
  PROVE  History'
<1> DEFINE c == command[p]
           n == c.name
           S(m) == Cardinality(SetsIn(taken[m]))
           P(m) == Cardinality(PlacedBy(m, at, command))
<1>1. /\ at[p] = "replacing" /\ at' = [at EXCEPT ![p] = "loading"]
      /\ taken' = [taken EXCEPT ![n] = Append(taken[n], c.value)]
      /\ UNCHANGED <<meta, command, entries>>
  BY DEF Replace
<1>2. c \in Commands /\ at \in [Procs -> {"idle", "reading", "writing", "replacing", "loading",
                             "truncating", "dumping", "killed"}]
      /\ taken \in [Names -> Seq(TakenValues)]
  BY <1>1 DEF Base, Commanded, Busy, TypeOK, TakenValues
<1>3. n \in Names /\ c.value \in TakenValues /\ (c.op = "set" <=> c.value # Unset)
  BY <1>2, CommandFacts, SetValue DEF TakenValues
<1>4. ASSUME NEW m \in Names
      PROVE  S(m) \in Nat /\ P(m) \in Nat /\ IsFiniteSet(PlacedBy(m, at, command))
  BY <1>2, PlacedFinite, SetsFinite
<1>5. p \notin PlacedBy(n, at, command)
  BY <1>1 DEF PlacedBy, Working
<1>6. ASSUME NEW m \in Names, m # n \/ c.op # "set"
      PROVE  PlacedBy(m, at', command') = PlacedBy(m, at, command)
  BY <1>1, <1>2, <1>6 DEF PlacedBy, Working
<1>7. c.op = "set" => PlacedBy(n, at', command') = PlacedBy(n, at, command) \cup {p}
  BY <1>1, <1>2 DEF PlacedBy, Working
<1>8. ASSUME NEW m \in Names
      PROVE  \E d \in {0, 1} :
               /\ Cardinality(SetsIn(taken'[m])) = S(m) + d
               /\ Cardinality(PlacedBy(m, at', command')) = P(m) + d
               /\ Range(taken[m]) \subseteq Range(taken'[m])
  <2>1. CASE m # n
    <3>1. taken'[m] = taken[m]
      BY <1>1, <1>2, <2>1
    <3> QED
      BY <1>4, <1>6, <2>1, <3>1
  <2>2. CASE m = n /\ c.op # "set"
    <3>1. taken'[m] = Append(taken[m], c.value) /\ c.value = Unset
      BY <1>1, <1>2, <1>3, <2>2
    <3>2. Cardinality(SetsIn(taken'[m])) = S(m) /\ Range(taken[m]) \subseteq Range(taken'[m])
      BY <1>2, <1>3, <3>1, SetsGrow
    <3> QED
      BY <1>4, <1>6, <2>2, <3>2
  <2>3. CASE m = n /\ c.op = "set"
    <3>1. taken'[m] = Append(taken[m], c.value) /\ c.value # Unset
      BY <1>1, <1>2, <1>3, <2>3
    <3>2. Cardinality(SetsIn(taken'[m])) = S(m) + 1 /\ Range(taken[m]) \subseteq Range(taken'[m])
      BY <1>2, <1>3, <3>1, SetsGrow
    <3>3. Cardinality(PlacedBy(m, at', command')) = P(m) + 1
      BY <1>4, <1>5, <1>7, <2>3, FS_AddElement
    <3> QED
      BY <3>2, <3>3
  <2> QED
    BY <2>1, <2>2, <2>3
<1> HIDE DEF c, n
<1>9. ASSUME NEW m \in Names, NEW e, Vouch(m, e, taken[m], P(m))
      PROVE  Vouch(m, e, taken'[m], Cardinality(PlacedBy(m, at', command')))
  BY <1>4, <1>8, <1>9 DEF Vouch
<1>10. DOMAIN meta \subseteq Names /\ \A q \in Procs : DOMAIN entries[q] \subseteq Names
  BY DEF Base, TypeOK, EntrySets
<1>11. \A m \in DOMAIN meta' :
         Vouch(m, meta'[m], taken'[m], Cardinality(PlacedBy(m, at', command')))
  BY <1>1, <1>9, <1>10 DEF History
<1>12. \A q \in Procs : \A m \in DOMAIN entries'[q] :
         Vouch(m, entries'[q][m], taken'[m], Cardinality(PlacedBy(m, at', command')))
  BY <1>1, <1>9, <1>10 DEF History
<1>13. \A m \in Names :
         Cardinality(SetsIn(taken'[m])) >= Cardinality(PlacedBy(m, at', command'))
  BY <1>4, <1>8 DEF History
<1>14. ASSUME NEW m \in Names, NEW q \in PlacedBy(m, at', command')
       PROVE  command'[q].value \in Range(taken'[m])
  <2>1. CASE q \in PlacedBy(m, at, command)
    BY <1>1, <1>8, <2>1 DEF History
  <2>2. CASE q \notin PlacedBy(m, at, command)
    <3>1. m = n /\ c.op = "set" /\ q = p
      BY <1>6, <1>7, <1>14, <2>2
    <3>2. c.value \in Range(taken'[n])
      BY <1>1, <1>2, <1>3, SetsGrow
    <3> QED
      BY <1>1, <3>1, <3>2 DEF c
  <2> QED
    BY <2>1, <2>2
<1> QED
  BY <1>11, <1>12, <1>13, <1>14 DEF History

LEMMA HistoryDump ==
  ASSUME Base, History, NEW p \in Procs, DumpMeta(p)
  PROVE  History'
<1> DEFINE c == command[p]
           n == c.name
           S(m) == Cardinality(SetsIn(taken[m]))
           P(m) == Cardinality(PlacedBy(m, at, command))
           Q(m) == Cardinality(PlacedBy(m, at', command'))
<1>1. /\ at[p] = "dumping" /\ at' = [at EXCEPT ![p] = "idle"]
      /\ command' = [command EXCEPT ![p] = NoCommand]
      /\ entries' = [entries EXCEPT ![p] = NoEntries]
      /\ UNCHANGED taken
      /\ meta' \in {NoEntries, EntriesAfter(entries[p], c)}
  BY DEF DumpMeta, Leave
<1>2. /\ c \in Commands /\ entries[p] \in EntrySets
      /\ at \in [Procs -> {"idle", "reading", "writing", "replacing", "loading",
                           "truncating", "dumping", "killed"}]
      /\ command \in [Procs -> Commands \cup {NoCommand}]
      /\ entries \in [Procs -> EntrySets]
      /\ taken \in [Names -> Seq(TakenValues)]
  BY <1>1 DEF Base, Commanded, Busy, TypeOK, TakenValues
<1>3. /\ n \in Names /\ (c.op = "set" <=> c.value # Unset)
  BY <1>2, CommandFacts, SetValue
<1>4. ASSUME NEW m \in Names
      PROVE  /\ S(m) \in Nat /\ P(m) \in Nat /\ Q(m) \in Nat
             /\ IsFiniteSet(PlacedBy(m, at, command))
  BY <1>2, PlacedFinite, SetsFinite
<1>5. ASSUME NEW m \in Names
      PROVE  /\ PlacedBy(m, at', command') \in SUBSET PlacedBy(m, at, command)
             /\ p \notin PlacedBy(m, at', command')
             /\ \A q \in PlacedBy(m, at', command') : command'[q] = command[q]
  BY <1>1, <1>2 DEF PlacedBy, Working
<1>6. ASSUME NEW m \in Names PROVE Q(m) <= P(m)
  BY <1>4, <1>5, FS_Subset
<1>7. c.op = "set" => p \in PlacedBy(n, at, command) /\ Q(n) < P(n)
  <2> SUFFICES ASSUME c.op = "set" PROVE p \in PlacedBy(n, at, command) /\ Q(n) < P(n)
    OBVIOUS
  <2>1. p \in PlacedBy(n, at, command)
    BY <1>1 DEF PlacedBy, Working
  <2>2. PlacedBy(n, at', command') # PlacedBy(n, at, command)
    BY <1>3, <1>5, <2>1
  <2>3. P(n) # Q(n)
    BY <1>3, <1>4, <1>5, <2>2, FS_Subset
  <2> QED
    BY <1>3, <1>4, <1>6, <2>1, <2>3
<1> HIDE DEF c, n
<1>8. ASSUME NEW m \in Names, NEW e, Vouch(m, e, taken[m], P(m))
      PROVE  Vouch(m, e, taken'[m], Q(m))
  <2>1. S(m) \in Nat /\ P(m) \in Nat /\ Q(m) \in Nat /\ Q(m) <= P(m) /\ taken'[m] = taken[m]
    BY <1>1, <1>4, <1>6
  <2> HIDE DEF P, Q
  <2> QED
    BY <1>8, <2>1 DEF Vouch
<1>9. DOMAIN meta \subseteq Names /\ \A q \in Procs : DOMAIN entries[q] \subseteq Names
  BY DEF Base, TypeOK, EntrySets
<1>10. \A m \in DOMAIN meta' : Vouch(m, meta'[m], taken'[m], Q(m))
  <2>1. CASE meta' = NoEntries
    BY <2>1, NoEntriesType
  <2>2. CASE meta' = EntriesAfter(entries[p], c)
    <3> SUFFICES ASSUME NEW m \in DOMAIN meta' PROVE Vouch(m, meta'[m], taken'[m], Q(m))
      OBVIOUS
    <3>1. /\ DOMAIN meta' = IF c.op = "set" THEN DOMAIN entries[p] \cup {n}
                                            ELSE DOMAIN entries[p] \ {n}
          /\ meta'[m] = IF m = n THEN EntryAfter(entries[p], c) ELSE entries[p][m]
      BY <1>2, <2>2, EntriesType DEF n
    <3>2. CASE m # n
      <4>1. m \in DOMAIN entries[p] /\ meta'[m] = entries[p][m]
        BY <3>1, <3>2
      <4> QED
        BY <1>8, <1>9, <4>1 DEF History
    <3>3. CASE m = n
      <4>1. c.op = "set" /\ meta'[m] = EntryAfter(entries[p], c)
        BY <3>1, <3>3
      <4>2. S(n) >= P(n) /\ c.value \in Range(taken[n])
        BY <1>3, <1>7, <4>1 DEF History, c
      <4>3. n \in DOMAIN entries[p] => S(n) > P(n)
        BY DEF History, Vouch
      <4>4. /\ n \in Secrets => meta'[m].last4 = Last4(c.value)
            /\ meta'[m].rotated <=> n \in DOMAIN entries[p]
        <5> DEFINE secret == IF n \in Secrets THEN Last4(c.value) ELSE "none"
                   had == n \in DOMAIN entries[p]
        <5>1. meta'[m] = [last4 |-> secret, rotated |-> had]
          BY <4>1 DEF EntryAfter, n
        <5>2. meta'[m].last4 = secret /\ meta'[m].rotated = had
          BY <5>1
        <5> QED
          BY <5>2
      <4>5. S(n) > Q(n) /\ (meta'[m].rotated => S(n) > 1)
        BY <1>3, <1>4, <1>7, <4>1, <4>2, <4>3, <4>4
      <4>6. n \in Secrets => \E v \in Range(taken[n]) \ {Unset} : meta'[m].last4 = Last4(v)
        BY <1>3, <4>1, <4>2, <4>4
      <4> QED
        BY <1>1, <3>3, <4>5, <4>6 DEF Vouch
    <3> QED
      BY <3>2, <3>3
  <2> QED
    BY <1>1, <2>1, <2>2
<1>11. \A q \in Procs : \A m \in DOMAIN entries'[q] : Vouch(m, entries'[q][m], taken'[m], Q(m))
  <2>1. \A q \in Procs : entries'[q] \in {entries[q], NoEntries}
    BY <1>1, <1>2
  <2> QED
    BY <1>8, <1>9, <2>1, NoEntriesType DEF History
<1>12. \A m \in Names : Cardinality(SetsIn(taken'[m])) >= Q(m)
  <2> SUFFICES ASSUME NEW m \in Names PROVE Cardinality(SetsIn(taken'[m])) >= Q(m)
    OBVIOUS
  <2>1. S(m) >= P(m)
    BY DEF History
  <2>2. S(m) \in Nat /\ P(m) \in Nat /\ Q(m) \in Nat /\ Q(m) <= P(m) /\ taken'[m] = taken[m]
    BY <1>1, <1>4, <1>6
  <2> HIDE DEF P, Q
  <2> QED
    BY <2>1, <2>2
<1>13. \A m \in Names : \A q \in PlacedBy(m, at', command') : command'[q].value \in Range(taken'[m])
  BY <1>1, <1>5 DEF History
<1> QED
  BY <1>10, <1>11, <1>12, <1>13 DEF History

LEMMA HistoryInit == Init => History
<1> SUFFICES ASSUME Init PROVE History
  OBVIOUS
<1>1. \A n \in Names : PlacedBy(n, at, command) = {} /\ SetsIn(taken[n]) = {}
  BY DEF Init, PlacedBy, Working, SetsIn
<1>2. \A n \in Names : Cardinality(PlacedBy(n, at, command)) = 0
                       /\ Cardinality(SetsIn(taken[n])) = 0
  BY <1>1, FS_EmptySet
<1> QED
  BY <1>1, <1>2, NoEntriesType DEF Init, History

LEMMA HistoryNext == Base /\ Base' /\ History /\ [StoreNext]_storeVars => History'
<1> SUFFICES ASSUME Base, History, [StoreNext]_storeVars PROVE History'
  OBVIOUS
<1> DEFINE Fewer(n) == PlacedBy(n, at', command') \subseteq PlacedBy(n, at, command)
           Same(n) == \A p \in PlacedBy(n, at', command') : command'[p] = command[p]
           Read_(p) == entries'[p] \in {entries[p], meta, NoEntries}
<1>1. /\ at \in [Procs -> {"idle", "reading", "writing", "replacing", "loading",
                           "truncating", "dumping", "killed"}]
      /\ command \in [Procs -> Commands \cup {NoCommand}]
      /\ entries \in [Procs -> EntrySets]
  BY DEF Base, TypeOK
<1> USE DEF PlacedBy, Working
<1>2. ASSUME NEW p \in Procs, NEW how \in {"idle", "killed"}, Leave(p, how), UNCHANGED taken,
             meta' \in {meta, NoEntries}
      PROVE  History'
  <2>1. /\ \A n \in Names : Fewer(n) /\ Same(n)
        /\ \A q \in Procs : Read_(q)
    BY <1>1, <1>2 DEF Leave
  <2> QED
    BY <1>2, <2>1, HistoryKept
<1>3. ASSUME NEW p \in Procs, NEW c \in Commands, Issue(p, c) PROVE History'
  <2>1. \A n \in Names : Fewer(n) /\ Same(n)
    BY <1>1, <1>3 DEF Issue
  <2> QED
    BY <1>3, <2>1, HistoryKept DEF Issue
<1>4. ASSUME NEW p \in Procs, Read(p) PROVE History'
  <2>1. \A n \in Names : Fewer(n) /\ Same(n)
    BY <1>1, <1>4 DEF Read
  <2> QED
    BY <1>4, <2>1, HistoryKept DEF Read
<1>5. ASSUME NEW p \in Procs, Refuse(p) \/ WriteFails(p) PROVE History'
  BY <1>2, <1>5 DEF Refuse, WriteFails
<1>6. ASSUME NEW p \in Procs, WriteTmp(p) PROVE History'
  <2>1. \A n \in Names : Fewer(n) /\ Same(n)
    BY <1>1, <1>6 DEF WriteTmp
  <2> QED
    BY <1>6, <2>1, HistoryKept DEF WriteTmp
<1>7. ASSUME NEW p \in Procs, LoadMeta(p) PROVE History'
  <2>1. /\ \A n \in Names : Fewer(n) /\ Same(n)
        /\ \A q \in Procs : Read_(q)
    BY <1>1, <1>7 DEF LoadMeta
  <2> QED
    BY <1>7, <2>1, HistoryKept DEF LoadMeta
<1>8. ASSUME NEW p \in Procs, LoadMetaFails(p) PROVE History'
  <2>1. \A n \in Names : Fewer(n) /\ Same(n)
    BY <1>1, <1>8 DEF LoadMetaFails
  <2> QED
    BY <1>8, <2>1, HistoryKept DEF LoadMetaFails
<1>9. ASSUME NEW p \in Procs, TruncateMeta(p) PROVE History'
  <2>1. \A n \in Names : Fewer(n) /\ Same(n)
    BY <1>1, <1>9 DEF TruncateMeta
  <2> QED
    BY <1>9, <2>1, HistoryKept DEF TruncateMeta
<1>10. ASSUME NEW p \in Procs, SaveMetaFails(p) \/ Kill(p) PROVE History'
  <2>1. meta' \in {meta, NoEntries}
    BY <1>10 DEF SaveMetaFails, Kill, LeaveMeta
  <2> QED
    BY <1>2, <1>10, <2>1 DEF SaveMetaFails, Kill
<1>11. ASSUME NEW file, EditByHand(file) PROVE History'
  <2>1. \A n \in Names : Fewer(n) /\ Same(n)
    BY <1>11 DEF EditByHand
  <2> QED
    BY <1>11, <2>1, HistoryKept DEF EditByHand
<1>12. CASE UNCHANGED storeVars
  <2>1. \A n \in Names : Fewer(n) /\ Same(n)
    BY <1>12 DEF storeVars
  <2> QED
    BY <1>12, <2>1, HistoryKept DEF storeVars
<1> QED
  BY <1>3, <1>4, <1>5, <1>6, <1>7, <1>8, <1>9, <1>10, <1>11, <1>12, HistoryReplace, HistoryDump
     DEF StoreNext, Step

-------------------------------------------------------------------------------
(***************************************************************************)
(* What the metadata shows of .env.  A command that nobody has disturbed   *)
(* works on the present files; when it ends they agree again.              *)
(***************************************************************************)
Tells(E, n, v) ==
  IF v = Unset THEN n \notin DOMAIN E
  ELSE n \in DOMAIN E /\ (n \in Secrets => E[n].last4 = Last4(v))

(* What the entries E say of n goes with this file, or set_var and         *)
(* list_vars mean different lines.                                         *)
Fits(E, file, n) ==
  \/ Shadowed(file, n)
  \/ Tells(E, n, LET v == ValueIn(file, n, ForList) IN IF v = Empty THEN Unset ELSE v)

Truthful ==
  document = "whole" =>
    \A n \in Names \ excused :
      (\A p \in Procs : at[p] \in Working => command[p].name # n) => Fits(meta, env, n)

(* What the first line set_var takes for its own says after command c.     *)
Written(file, c) ==
  IF c.op = "set"
  THEN \E i \in DOMAIN file :
         file[i] = Plain(c.name, c.value) /\ \A j \in DOMAIN file : j < i => ~ Owns(file[j], c.name)
  ELSE \A i \in DOMAIN file : ~ Owns(file[i], c.name)

Solo == \A p \in Busy : alone[p] => Busy = {p}

SoloCopies ==
  \A p \in Busy : alone[p] =>
    /\ at[p] \in {"writing", "replacing"} => lines[p] = env
    /\ at[p] \in {"loading", "truncating", "dumping"} => Written(env, command[p])
    /\ at[p] \in {"truncating", "dumping"} =>
         \A n \in Names \ excused : n # command[p].name => Fits(entries[p], env, n)
    /\ at[p] = "dumping" => document = "empty"

Torn == document # "whole" => excused = Names \/ \E p \in Procs : at[p] = "dumping"

MaskInv ==
  /\ Truthful
  /\ Solo
  /\ SoloCopies
  /\ Torn

LEMMA HeededSets == ForList \in SUBSET Assignments /\ ForDotenv \in SUBSET Assignments
BY DEF ForList, ForDotenv

LEMMA MaskInit == Init => MaskInv
<1> SUFFICES ASSUME Init PROVE MaskInv
  OBVIOUS
<1>1. Busy = {} /\ document = "whole"
  BY DEF Init, Busy
<1>2. ASSUME NEW n \in Names \ excused PROVE Fits(meta, env, n)
  <2>1. Listed(n) = Unset
    BY DEF Init
  <2> QED
    BY <2>1, NoEntriesType DEF Init, Tells, Fits, Listed
<1> QED
  BY <1>1, <1>2 DEF MaskInv, Truthful, Solo, SoloCopies, Torn

(* A file that says the same of a name fits the same entries. *)
LEMMA FitsFollows ==
  ASSUME NEW E, NEW f, NEW g, NEW n,
         ValueIn(f, n, ForList) = ValueIn(g, n, ForList), Shadowed(f, n) <=> Shadowed(g, n)
  PROVE  Fits(E, f, n) <=> Fits(E, g, n)
BY DEF Fits

(* Where a command has just written and no shadow lies, list_vars reads    *)
(* what it wrote.                                                          *)
LEMMA WrittenIsListed ==
  ASSUME NEW file \in Seq(Lines), NEW c \in Commands, Written(file, c), ~ Shadowed(file, c.name)
  PROVE  ValueIn(file, c.name, ForList) = c.value
<1>1. DOMAIN file = 1 .. Len(file) /\ Len(file) \in Nat
  BY LenProperties
<1>2. \A i \in Says(file, c.name, ForList) :
        /\ \A j \in DOMAIN file : j < i => ~ Owns(file[j], c.name)
        /\ \E j \in DOMAIN file : Owns(file[j], c.name)
  BY <1>1 DEF Shadowed, Says
<1>3. CASE c.op = "set"
  <2>1. PICK i \in DOMAIN file : file[i] = Plain(c.name, c.value)
    BY <1>3 DEF Written
  <2>2. Owns(file[i], c.name) /\ file[i].value = c.value
    BY <2>1 DEF Plain, Owns
  <2>3. i \in Says(file, c.name, ForList)
    BY <2>2, OwnedBinds DEF Says, ForList, Owns
  <2>4. \A k \in Says(file, c.name, ForList) : k <= i
    BY <1>1, <1>2, <2>2 DEF Says
  <2> QED
    BY <2>2, <2>3, <2>4, ValueSaid
<1>4. CASE c.op # "set"
  <2>1. Says(file, c.name, ForList) = {}
    BY <1>2, <1>4 DEF Written
  <2>2. c.value = Unset
    BY <1>4, CommandFacts
  <2> QED
    BY <2>1, <2>2, ValueSaid
<1> QED
  BY <1>3, <1>4

(* Where a command ends, nobody else is alone. *)
LEMMA SoloLeaves ==
  ASSUME Base, MaskInv, NEW p \in Busy, NEW how \in {"idle", "killed"}, Leave(p, how)
  PROVE  /\ Solo' /\ SoloCopies'
         /\ at[p] \in {"idle", "reading", "writing", "replacing", "loading",
                       "truncating", "dumping", "killed"}
         /\ \A q \in Procs : at'[q] \in Working \cup {"dumping"} =>
              q # p /\ at'[q] = at[q] /\ command'[q] = command[q]
         /\ \A q \in Procs : q # p => at'[q] = at[q]
<1>1. /\ at \in [Procs -> {"idle", "reading", "writing", "replacing", "loading",
                           "truncating", "dumping", "killed"}]
      /\ alone \in [Procs -> BOOLEAN] /\ command \in [Procs -> Commands \cup {NoCommand}]
  BY DEF Base, TypeOK
<1>2. \A q \in Busy' : q \in Busy /\ q # p /\ alone'[q] = alone[q]
  BY <1>1 DEF Leave, Busy
<1>3. \A q \in Busy' : ~ alone'[q]
  BY <1>2 DEF MaskInv, Solo
<1>4. Solo' /\ SoloCopies'
  BY <1>3 DEF Solo, SoloCopies
<1> QED
  BY <1>1, <1>4 DEF Leave, Working, Busy

(* A command that stops early leaves in doubt what it may have spoilt. *)
LEMMA MaskLeaves ==
  ASSUME Base, Base', MaskInv, NEW p \in Busy, NEW how \in {"idle", "killed"}, Leave(p, how),
         UNCHANGED env, excused' = excused \cup InDoubt(p),
         UNCHANGED <<meta, document>> \/ at[p] = "dumping"
  PROVE  MaskInv'
<1>1. /\ Solo' /\ SoloCopies'
      /\ \A q \in Procs : at'[q] \in Working \cup {"dumping"} =>
           q # p /\ at'[q] = at[q] /\ command'[q] = command[q]
      /\ \A q \in Procs : q # p => at'[q] = at[q]
  BY SoloLeaves
<1>2. excused \subseteq Names /\ excused' \subseteq Names
  BY DEF Base, TypeOK
<1>3. CASE at[p] = "dumping"
  <2>1. excused' = Names
    BY <1>2, <1>3 DEF InDoubt
  <2> QED
    BY <1>1, <2>1 DEF MaskInv, Truthful, Torn
<1>4. CASE UNCHANGED <<meta, document>> /\ at[p] # "dumping"
  <2>1. Truthful'
    <3> SUFFICES ASSUME document' = "whole", NEW n \in Names \ excused',
                        \A q \in Procs : at'[q] \in Working => command'[q].name # n
                 PROVE  Fits(meta', env', n)
      BY DEF Truthful
    <3>1. \A q \in Procs : at[q] \in Working => command[q].name # n
      <4> SUFFICES ASSUME NEW q \in Procs, at[q] \in Working PROVE command[q].name # n
        OBVIOUS
      <4>1. CASE q = p
        BY <1>4, <4>1 DEF InDoubt, Working
      <4>2. CASE q # p
        BY <1>1, <4>2 DEF Working
      <4> QED
        BY <4>1, <4>2
    <3>2. Fits(meta, env, n)
      BY <1>4, <3>1 DEF MaskInv, Truthful
    <3> QED
      BY <1>4, <3>2
  <2>2. Torn'
    BY <1>1, <1>2, <1>4 DEF MaskInv, Torn
  <2> QED
    BY <1>1, <2>1, <2>2 DEF MaskInv
<1> QED
  BY <1>3, <1>4
(* Where nothing is written and nobody starts or ends, the claim stands. *)
LEMMA MaskStays ==
  ASSUME Base, Base', MaskInv, UNCHANGED <<env, meta, document>>, excused \subseteq excused',
         \A q \in Procs : at[q] \in Working =>
           at'[q] \in Working /\ command'[q] = command[q]
           /\ (at[q] = "dumping" => at'[q] = "dumping")
  PROVE  Truthful' /\ Torn'
<1>1. excused \subseteq Names /\ excused' \subseteq Names
  BY DEF Base, TypeOK
<1>2. Truthful'
  <2> SUFFICES ASSUME document' = "whole", NEW n \in Names \ excused',
                      \A q \in Procs : at'[q] \in Working => command'[q].name # n
               PROVE  Fits(meta', env', n)
    BY DEF Truthful
  <2>1. Fits(meta, env, n)
    BY DEF MaskInv, Truthful
  <2> QED
    BY <2>1
<1>3. Torn'
  BY <1>1 DEF MaskInv, Torn, Working
<1> QED
  BY <1>2, <1>3

(* While one command takes a step, whoever is alone is that command. *)
LEMMA SoloSteps ==
  ASSUME Base, MaskInv, NEW p \in Busy, UNCHANGED alone,
         NEW where \in {"writing", "replacing", "loading", "truncating", "dumping"},
         at' = [at EXCEPT ![p] = where]
  PROVE  /\ Solo'
         /\ Busy' = Busy /\ at'[p] = where /\ \A q \in Procs : q # p => at'[q] = at[q]
         /\ \A q \in Busy' : alone'[q] => q = p /\ alone[p] /\ Busy = {p}
<1>1. Busy' = Busy /\ at'[p] = where /\ \A q \in Procs : q # p => at'[q] = at[q]
  BY DEF Base, TypeOK, Busy
<1>2. \A q \in Busy : alone[q] => Busy = {q}
  BY DEF MaskInv, Solo
<1> QED
  BY <1>1, <1>2 DEF Solo

LEMMA MaskIssue ==
  ASSUME Base, Base', MaskInv, NEW p \in Procs, NEW c \in Commands, Issue(p, c)
  PROVE  MaskInv'
<1>1. /\ at[p] = "idle" /\ at'[p] = "reading"
      /\ \A q \in Procs : q # p => at'[q] = at[q] /\ command'[q] = command[q]
  BY DEF Issue, Base, TypeOK
<1>2. Truthful' /\ Torn'
  BY <1>1, MaskStays DEF Issue, Working
<1>3. Busy' = Busy \cup {p}
  BY <1>1 DEF Busy
<1>4. \A q \in Busy' : alone'[q] => Busy = {}
  BY <1>3 DEF Issue, Busy
<1>5. \A q \in Busy' : alone'[q] => q = p /\ Busy' = {p}
  BY <1>3, <1>4
<1>6. Solo' /\ SoloCopies'
  BY <1>1, <1>5 DEF Solo, SoloCopies
<1> QED
  BY <1>2, <1>6 DEF MaskInv

LEMMA MaskRead ==
  ASSUME Base, Base', MaskInv, NEW p \in Procs, Read(p) \/ WriteTmp(p)
  PROVE  MaskInv'
<1>1. p \in Busy /\ at[p] \in {"reading", "writing"}
  BY DEF Read, WriteTmp, Busy
<1>2. PICK where \in {"writing", "replacing"} :
        /\ at' = [at EXCEPT ![p] = where]
        /\ at[p] = IF where = "writing" THEN "reading" ELSE "writing"
  BY DEF Read, WriteTmp
<1>3. /\ Solo'
      /\ at'[p] = where /\ \A q \in Procs : q # p => at'[q] = at[q]
      /\ \A q \in Busy' : alone'[q] => q = p /\ alone[p] /\ Busy = {p}
  BY <1>1, <1>2, SoloSteps DEF Read, WriteTmp
<1>4. UNCHANGED <<env, meta, document, command, excused>>
  BY DEF Read, WriteTmp
<1>5. Truthful' /\ Torn'
  <2>1. \A q \in Procs : at[q] \in Working => q # p
    BY <1>1 DEF Working
  <2> QED
    BY <1>3, <1>4, <2>1, MaskStays
<1>6. alone[p] => lines'[p] = env
  <2>1. CASE Read(p)
    BY <2>1 DEF Read, Base, TypeOK
  <2>2. CASE WriteTmp(p)
    BY <1>1, <2>2 DEF WriteTmp, MaskInv, SoloCopies
  <2> QED
    BY <2>1, <2>2
<1>7. SoloCopies'
  BY <1>2, <1>3, <1>4, <1>6 DEF SoloCopies
<1> QED
  BY <1>3, <1>5, <1>7 DEF MaskInv

(* A replacement: only the variable of the command reads differently. *)
LEMMA OthersRead ==
  ASSUME Base, NEW p \in Busy, lines[p] = env, env' = After(p)
  PROVE  /\ \A n \in Names : \A E :
              n # command[p].name => (Fits(E, env', n) <=> Fits(E, env, n))
         /\ Written(env', command[p])
<1>1. command[p] \in Commands /\ env \in Seq(Lines)
  BY DEF Base, Commanded, TypeOK
<1>2. command[p].name \in Names /\ (command[p].op = "set" => command[p].value \in Values)
  BY <1>1, CommandFacts
<1>3. ASSUME NEW n \in Names, n # command[p].name
      PROVE  /\ ValueIn(env', n, ForList) = ValueIn(env, n, ForList)
             /\ Shadowed(env', n) <=> Shadowed(env, n)
  <2>1. CASE command[p].op = "set"
    <3>1. env' = WithSet(env, command[p].name, command[p].value)
      BY <2>1 DEF After
    <3> QED
      BY <1>1, <1>2, <1>3, <2>1, <3>1, SetEffect, HeededSets
  <2>2. CASE command[p].op # "set"
    <3>1. env' = WithUnset(env, command[p].name)
      BY <2>2 DEF After
    <3> QED
      BY <1>1, <1>2, <1>3, <3>1, UnsetEffect, HeededSets
  <2> QED
    BY <2>1, <2>2
<1>4. Written(env', command[p])
  <2>1. CASE command[p].op = "set"
    <3>1. env' = WithSet(env, command[p].name, command[p].value)
      BY <2>1 DEF After
    <3> QED
      BY <1>1, <1>2, <2>1, <3>1, SetEffect DEF Written
  <2>2. CASE command[p].op # "set"
    <3>1. env' = WithUnset(env, command[p].name)
      BY <2>2 DEF After
    <3> QED
      BY <1>1, <1>2, <2>2, <3>1, UnsetEffect DEF Written
  <2> QED
    BY <2>1, <2>2
<1> QED
  BY <1>3, <1>4, FitsFollows

LEMMA MaskReplace ==
  ASSUME Base, Base', MaskInv, NEW p \in Procs, Replace(p)
  PROVE  MaskInv'
<1>1. p \in Busy /\ at[p] = "replacing" /\ at' = [at EXCEPT ![p] = "loading"]
  BY DEF Replace, Busy
<1>2. /\ Solo'
      /\ at'[p] = "loading" /\ \A q \in Procs : q # p => at'[q] = at[q]
      /\ \A q \in Busy' : alone'[q] => q = p /\ alone[p] /\ Busy = {p}
  BY <1>1, SoloSteps DEF Replace
<1>3. SoloCopies'
  <2> SUFFICES ASSUME alone[p], Busy = {p} PROVE Written(env', command'[p])
    BY <1>2 DEF SoloCopies
  <2>1. lines[p] = env
    BY <1>1 DEF MaskInv, SoloCopies
  <2> QED
    BY <1>1, <2>1, OthersRead DEF Replace, After
<1>4. env' = After(p) /\ UNCHANGED <<meta, document, command, alone>>
  BY DEF Replace, After
<1>5. excused \subseteq Names
  BY DEF Base, TypeOK
<1>6. CASE ~ alone[p]
  <2>1. excused' = Names
    BY <1>6 DEF Replace
  <2> QED
    BY <1>2, <1>3, <2>1 DEF MaskInv, Truthful, Torn
<1>7. CASE alone[p]
  <2>1. excused' = excused /\ lines[p] = env /\ Busy = {p}
    BY <1>1, <1>7 DEF Replace, MaskInv, Solo, SoloCopies
  <2>2. Torn'
    BY <1>1, <1>2, <1>4, <2>1 DEF MaskInv, Torn
  <2>3. Truthful'
    <3> SUFFICES ASSUME document' = "whole", NEW n \in Names \ excused',
                        \A q \in Procs : at'[q] \in Working => command'[q].name # n
                 PROVE  Fits(meta', env', n)
      BY DEF Truthful
    <3>1. n # command[p].name
      BY <1>2, <1>4 DEF Working
    <3>2. \A q \in Procs : at[q] \notin Working
      BY <1>1, <2>1 DEF Busy, Working
    <3>3. Fits(meta, env, n)
      BY <1>4, <2>1, <3>2 DEF MaskInv, Truthful
    <3>4. Fits(meta, env', n) <=> Fits(meta, env, n)
      BY <1>1, <1>4, <2>1, <3>1, OthersRead
    <3> QED
      BY <1>4, <3>3, <3>4
  <2> QED
    BY <1>2, <1>3, <2>2, <2>3 DEF MaskInv
<1> QED
  BY <1>6, <1>7

LEMMA MaskLoad ==
  ASSUME Base, Base', MaskInv, NEW p \in Procs, LoadMeta(p) \/ LoadMetaFails(p)
  PROVE  MaskInv'
<1>1. p \in Busy /\ at[p] = "loading" /\ at' = [at EXCEPT ![p] = "truncating"]
  BY DEF LoadMeta, LoadMetaFails, Busy
<1>2. UNCHANGED <<env, meta, document, command, alone>>
  BY DEF LoadMeta, LoadMetaFails
<1>3. /\ Solo'
      /\ at'[p] = "truncating" /\ \A q \in Procs : q # p => at'[q] = at[q]
      /\ \A q \in Busy' : alone'[q] => q = p /\ alone[p] /\ Busy = {p}
  BY <1>1, <1>2, SoloSteps
<1>4. excused \subseteq Names /\ excused \subseteq excused'
  BY DEF LoadMeta, LoadMetaFails, Base, TypeOK
<1>5. Truthful' /\ Torn'
  BY <1>1, <1>2, <1>3, <1>4, MaskStays DEF Working
<1>6. ASSUME alone[p], Busy = {p}, NEW n \in Names \ excused', n # command[p].name
      PROVE  Fits(entries'[p], env, n)
  <2>1. LoadMeta(p)
    BY <1>6 DEF LoadMetaFails
  <2>2. entries'[p] = meta
    BY <2>1 DEF LoadMeta, Base, TypeOK
  <2>3. \A q \in Procs : at[q] \in Working => q = p
    BY <1>6 DEF Busy, Working
  <2>4. document = "whole"
    BY <1>1, <1>4, <1>6, <2>3 DEF MaskInv, Torn, Working
  <2> QED
    BY <1>4, <1>6, <2>2, <2>3, <2>4 DEF MaskInv, Truthful
<1>7. alone[p] => Written(env, command[p])
  BY <1>1 DEF MaskInv, SoloCopies
<1>8. SoloCopies'
  BY <1>2, <1>3, <1>6, <1>7 DEF SoloCopies
<1> QED
  BY <1>3, <1>5, <1>8 DEF MaskInv

LEMMA MaskTruncate ==
  ASSUME Base, Base', MaskInv, NEW p \in Procs, TruncateMeta(p)
  PROVE  MaskInv'
<1>1. p \in Busy /\ at[p] = "truncating" /\ at' = [at EXCEPT ![p] = "dumping"]
  BY DEF TruncateMeta, Busy
<1>2. UNCHANGED <<env, command, entries, alone, excused>> /\ document' = "empty"
  BY DEF TruncateMeta
<1>3. /\ Solo'
      /\ at'[p] = "dumping" /\ \A q \in Procs : q # p => at'[q] = at[q]
      /\ \A q \in Busy' : alone'[q] => q = p /\ alone[p] /\ Busy = {p}
  BY <1>1, <1>2, SoloSteps
<1>4. Truthful' /\ Torn'
  BY <1>2, <1>3 DEF Truthful, Torn
<1>5. alone[p] => Written(env, command[p])
  BY <1>1 DEF MaskInv, SoloCopies
<1>6. ASSUME alone[p], NEW n \in Names \ excused, n # command[p].name
      PROVE  Fits(entries[p], env, n)
  BY <1>1, <1>6 DEF MaskInv, SoloCopies
<1>7. SoloCopies'
  BY <1>2, <1>3, <1>5, <1>6 DEF SoloCopies
<1> QED
  BY <1>3, <1>4, <1>7 DEF MaskInv

(* The entry a command writes tells of the value it has left in .env. *)
LEMMA EntryTells ==
  ASSUME NEW old \in EntrySets, NEW c \in Commands
  PROVE  /\ Tells(EntriesAfter(old, c), c.name, c.value)
         /\ \A n, v : n # c.name /\ Tells(old, n, v) => Tells(EntriesAfter(old, c), n, v)
<1> DEFINE new == EntriesAfter(old, c)
<1>1. DOMAIN new = IF c.op = "set" THEN DOMAIN old \cup {c.name} ELSE DOMAIN old \ {c.name}
  BY EntriesType
<1>2. \A n \in DOMAIN new : new[n] = IF n = c.name THEN EntryAfter(old, c) ELSE old[n]
  BY EntriesType
<1> HIDE DEF new
<1>3. c.op = "set" <=> c.value # Unset
  BY SetValue
<1>4. Tells(new, c.name, c.value)
  <2>1. CASE c.op = "set"
    <3>1. c.name \in DOMAIN new /\ new[c.name] = EntryAfter(old, c)
      BY <1>1, <1>2, <2>1
    <3>2. c.name \in Secrets => new[c.name].last4 = Last4(c.value)
      BY <3>1 DEF EntryAfter
    <3> QED
      BY <1>3, <2>1, <3>1, <3>2 DEF Tells
  <2>2. CASE c.op # "set"
    BY <1>1, <1>3, <2>2 DEF Tells
  <2> QED
    BY <2>1, <2>2
<1>5. ASSUME NEW n, NEW v, n # c.name, Tells(old, n, v) PROVE Tells(new, n, v)
  <2>1. n \in DOMAIN new <=> n \in DOMAIN old
    BY <1>1, <1>5
  <2>2. n \in DOMAIN new => new[n] = old[n]
    BY <1>2, <1>5
  <2> QED
    BY <1>5, <2>1, <2>2 DEF Tells
<1> QED
  BY <1>4, <1>5 DEF new

LEMMA MaskDump ==
  ASSUME Base, Base', MaskInv, NEW p \in Procs, DumpMeta(p)
  PROVE  MaskInv'
<1> DEFINE c == command[p]
<1>1. p \in Busy /\ at[p] = "dumping" /\ Leave(p, "idle")
  BY DEF DumpMeta, Busy
<1>2. c \in Commands /\ entries[p] \in EntrySets /\ excused \subseteq Names /\ c.name \in Names
  BY <1>1, CommandFacts DEF Base, TypeOK, Commanded
<1>3. Solo' /\ SoloCopies'
  BY <1>1, SoloLeaves
<1>4. CASE ~ alone[p]
  <2>1. excused' = Names
    BY <1>4 DEF DumpMeta
  <2> QED
    BY <1>3, <2>1 DEF MaskInv, Truthful, Torn
<1>5. CASE alone[p]
  <2>1. document' = "whole" /\ meta' = EntriesAfter(entries[p], c)
    BY <1>1, <1>5 DEF MaskInv, SoloCopies, DumpMeta
  <2>2. env' = env /\ env \in Seq(Lines)
    BY DEF DumpMeta, Base, TypeOK
  <2>3. excused' = excused \ {c.name} /\ Written(env, c)
    BY <1>1, <1>5 DEF DumpMeta, MaskInv, SoloCopies
  <2>4. Truthful'
    <3> SUFFICES ASSUME NEW n \in Names \ excused'
                 PROVE  Fits(meta', env', n)
      BY DEF Truthful
    <3>1. CASE n = c.name
      <4> SUFFICES ASSUME ~ Shadowed(env, n) PROVE Fits(meta', env, n)
        BY <2>2 DEF Fits
      <4>1. ValueIn(env, n, ForList) = c.value
        BY <1>2, <2>2, <2>3, <3>1, WrittenIsListed
      <4>2. c.value # Empty
        BY <1>2, CommandFacts, UnsetAssumption DEF UnsetAssumption, Unset, Empty
      <4>3. Tells(meta', n, c.value)
        BY <1>2, <2>1, <3>1, EntryTells
      <4> QED
        BY <4>1, <4>2, <4>3 DEF Fits
    <3>2. CASE n # c.name
      <4>1. Fits(entries[p], env, n)
        BY <1>1, <1>5, <2>3, <3>2 DEF MaskInv, SoloCopies
      <4>2. \A v : Tells(entries[p], n, v) => Tells(meta', n, v)
        BY <1>2, <2>1, <3>2, EntryTells
      <4> QED
        BY <2>2, <4>1, <4>2 DEF Fits
    <3> QED
      BY <3>1, <3>2
  <2> QED
    BY <1>3, <2>1, <2>4 DEF MaskInv, Torn
<1> QED
  BY <1>4, <1>5

LEMMA MaskEdit ==
  ASSUME Base, Base', MaskInv, NEW file \in Edited, EditByHand(file)
  PROVE  MaskInv'
<1>1. UNCHANGED <<meta, document, at, command>> /\ Busy' = Busy /\ env' = file
  BY DEF EditByHand, Busy
<1>2. \A q \in Busy' : ~ alone'[q]
  BY <1>1 DEF EditByHand, Busy
<1>3. Solo' /\ SoloCopies'
  BY <1>2 DEF Solo, SoloCopies
<1>4. excused' = excused \cup {n \in Names : Bindings(env', n) # Bindings(env, n)}
  BY <1>1 DEF EditByHand
<1>5. env \in Seq(Lines) /\ env' \in Seq(Lines) /\ excused' \subseteq Names /\ excused \subseteq Names
  BY DEF Base, TypeOK
<1>6. Torn'
  BY <1>1, <1>4, <1>5 DEF MaskInv, Torn
<1>7. Truthful'
  <2> SUFFICES ASSUME document' = "whole", NEW n \in Names \ excused',
                      \A q \in Procs : at'[q] \in Working => command'[q].name # n
               PROVE  Fits(meta', env', n)
    BY DEF Truthful
  <2>1. Bindings(env', n) = Bindings(env, n) /\ n \notin excused
    BY <1>4
  <2>2. ValueIn(env', n, ForList) = ValueIn(env, n, ForList)
    BY <1>5, <2>1, HeededSets, BindingsDecide
  <2>3. Shadowed(env', n) <=> Shadowed(env, n)
    <3>1. ASSUME NEW f \in Seq(Lines) PROVE Shadowed(Bindings(f, n), n) <=> Shadowed(f, n)
      <4>1. {i \in DOMAIN f : Binds(f[i], n)} \in SUBSET DOMAIN f
        OBVIOUS
      <4>2. Says(f, n, Assignments) = {i \in DOMAIN f : Binds(f[i], n)}
        BY LineFacts
      <4> QED
        BY <4>1, <4>2, ShadowKept DEF Bindings
    <3> QED
      BY <1>5, <2>1, <3>1
  <2>4. Fits(meta, env, n)
    BY <1>1, <2>1 DEF MaskInv, Truthful
  <2> QED
    BY <1>1, <2>2, <2>3, <2>4, FitsFollows
<1> QED
  BY <1>3, <1>6, <1>7 DEF MaskInv

LEMMA MaskNext == Base /\ Base' /\ MaskInv /\ [StoreNext]_storeVars => MaskInv'
<1> SUFFICES ASSUME Base, Base', MaskInv, [StoreNext]_storeVars PROVE MaskInv'
  OBVIOUS
<1>1. ASSUME NEW p \in Procs, Refuse(p) \/ WriteFails(p) PROVE MaskInv'
  <2>1. p \in Busy /\ Leave(p, "idle") /\ at[p] \in {"reading", "writing", "replacing"}
    BY <1>1 DEF Refuse, WriteFails, Busy
  <2>2. InDoubt(p) = {}
    BY <2>1 DEF InDoubt
  <2> QED
    BY <1>1, <2>1, <2>2, MaskLeaves DEF Refuse, WriteFails
<1>2. ASSUME NEW p \in Procs, SaveMetaFails(p) PROVE MaskInv'
  <2>1. p \in Busy /\ (UNCHANGED <<meta, document>> \/ at[p] = "dumping")
    BY <1>2 DEF SaveMetaFails, LeaveMeta, Busy
  <2> QED
    BY <1>2, <2>1, MaskLeaves DEF SaveMetaFails
<1>3. ASSUME NEW p \in Procs, Kill(p) PROVE MaskInv'
  <2>1. UNCHANGED <<meta, document>> \/ at[p] = "dumping"
    BY <1>3 DEF Kill, LeaveMeta
  <2> QED
    BY <1>3, <2>1, MaskLeaves DEF Kill
<1>4. CASE UNCHANGED storeVars
  BY <1>4 DEF storeVars, MaskInv, Truthful, Solo, SoloCopies, Torn, Busy
<1> QED
  BY <1>1, <1>2, <1>3, <1>4, MaskIssue, MaskRead, MaskReplace, MaskLoad, MaskTruncate,
     MaskDump, MaskEdit DEF StoreNext, Step
-------------------------------------------------------------------------------
(* What a step that renames the temporary file is. *)
LEMMA ReplacedBy ==
  ASSUME Base, [StoreNext]_storeVars, NEW p \in Procs, Replaced(p)
  PROVE  Replace(p)
<1> DEFINE Others(q) == \A r \in Procs : r # q => at'[r] = at[r]
<1>1. /\ at \in [Procs -> {"idle", "reading", "writing", "replacing", "loading",
                           "truncating", "dumping", "killed"}]
      /\ at[p] = "replacing" /\ at'[p] = "loading"
  BY DEF Base, TypeOK, Replaced
<1>2. ASSUME NEW q \in Procs, Step(q) PROVE q = p
  <2>1. Others(q)
    <3>1. \A c \in Commands : Issue(q, c) => Others(q)
      BY <1>1 DEF Issue
    <3>2. Read(q) \/ WriteTmp(q) \/ Replace(q) => Others(q)
      BY <1>1 DEF Read, WriteTmp, Replace
    <3>3. LoadMeta(q) \/ LoadMetaFails(q) \/ TruncateMeta(q) => Others(q)
      BY <1>1 DEF LoadMeta, LoadMetaFails, TruncateMeta
    <3>4. Refuse(q) \/ WriteFails(q) \/ DumpMeta(q) \/ SaveMetaFails(q) \/ Kill(q) => Others(q)
      BY <1>1 DEF Refuse, WriteFails, DumpMeta, SaveMetaFails, Kill, Leave
    <3> QED
      BY <1>2, <3>1, <3>2, <3>3, <3>4 DEF Step
  <2> QED
    BY <1>1, <2>1
<1>3. \A file \in Edited : ~ EditByHand(file)
  BY <1>1 DEF EditByHand
<1>4. storeVars' # storeVars
  BY <1>1 DEF storeVars
<1>5. Step(p)
  BY <1>2, <1>3, <1>4 DEF StoreNext
<1>6. \A c \in Commands : ~ Issue(p, c)
  BY <1>1 DEF Issue
<1>7. ~ Read(p) /\ ~ WriteTmp(p)
  BY <1>1 DEF Read, WriteTmp
<1>8. ~ LoadMeta(p) /\ ~ LoadMetaFails(p) /\ ~ TruncateMeta(p)
  BY <1>1 DEF LoadMeta, LoadMetaFails, TruncateMeta
<1>9. ~ Refuse(p) /\ ~ WriteFails(p) /\ ~ DumpMeta(p) /\ ~ SaveMetaFails(p) /\ ~ Kill(p)
  BY <1>1 DEF Refuse, WriteFails, DumpMeta, SaveMetaFails, Kill, Leave
<1> QED
  BY <1>5, <1>6, <1>7, <1>8, <1>9 DEF Step

LEMMA OwnLinesStep ==
  ASSUME Base, MaskInv, [StoreNext]_storeVars, env' # env, changes' = changes
  PROVE  \E p \in Procs :
           /\ Replaced(p)
           /\ alone[p] \/ lines[p] = env =>
                NotOwned(env', command[p].name) = NotOwned(env, command[p].name)
<1>1. \E p \in Procs : Replace(p)
  <2>1. ASSUME NEW p \in Procs, Step(p) PROVE Replace(p)
    <3>1. \A c \in Commands : ~ Issue(p, c)
      BY DEF Issue, Base, TypeOK
    <3>2. ~ Read(p) /\ ~ Refuse(p) /\ ~ WriteTmp(p) /\ ~ WriteFails(p)
      BY DEF Read, Refuse, WriteTmp, WriteFails
    <3>3. ~ LoadMeta(p) /\ ~ LoadMetaFails(p) /\ ~ TruncateMeta(p) /\ ~ DumpMeta(p)
      BY DEF LoadMeta, LoadMetaFails, TruncateMeta, DumpMeta
    <3>4. ~ SaveMetaFails(p) /\ ~ Kill(p)
      BY DEF SaveMetaFails, Kill
    <3> QED
      BY <2>1, <3>1, <3>2, <3>3, <3>4 DEF Step
  <2>2. \A file \in Edited : ~ EditByHand(file)
    BY BoundsAssumption DEF EditByHand, Base, TypeOK, BoundsAssumption
  <2>3. ~ UNCHANGED storeVars
    BY DEF storeVars
  <2> QED
    BY <2>1, <2>2, <2>3 DEF StoreNext
<1>2. PICK p \in Procs : Replace(p)
  BY <1>1
<1>3. p \in Busy /\ Replaced(p)
  BY <1>2 DEF Replace, Busy, Replaced, Base, TypeOK
<1>4. command[p] \in Commands /\ env \in Seq(Lines)
  BY <1>3 DEF Base, Commanded, TypeOK
<1>5. command[p].name \in Names /\ (command[p].op = "set" => command[p].value \in Values)
  BY <1>4, CommandFacts
<1>6. ASSUME lines[p] = env
      PROVE  NotOwned(env', command[p].name) = NotOwned(env, command[p].name)
  <2>1. CASE command[p].op = "set"
    <3>1. env' = WithSet(env, command[p].name, command[p].value)
      BY <1>2, <1>6, <2>1 DEF Replace
    <3> QED
      BY <1>4, <1>5, <2>1, <3>1, SetEffect
  <2>2. CASE command[p].op # "set"
    <3>1. env' = WithUnset(env, command[p].name)
      BY <1>2, <1>6, <2>2 DEF Replace
    <3> QED
      BY <1>4, <1>5, <3>1, UnsetEffect
  <2> QED
    BY <2>1, <2>2
<1>7. alone[p] => lines[p] = env
  BY <1>2, <1>3 DEF Replace, MaskInv, SoloCopies
<1> QED
  BY <1>3, <1>6, <1>7

(* What load_dotenv finds is the last line it can parse. *)
LoadedFrom(file, n) ==
  LET v == ValueIn(file, n, ForDotenv) IN IF v = Unset THEN Unset ELSE Dotenv[v]

LEMMA LoadedIs ==
  ASSUME NEW file \in Seq(Lines), NEW n
  PROVE  /\ LoadedFrom(file, n) = Unset <=> Says(file, n, ForDotenv) = {}
         /\ \A v : v # Unset /\ ValueIn(file, n, ForDotenv) = v => LoadedFrom(file, n) = Dotenv[v]
<1>1. ValueIn(file, n, ForDotenv) = Unset <=> Says(file, n, ForDotenv) = {}
  BY UnsetSaysNothing, HeededSets
<1>2. ASSUME Says(file, n, ForDotenv) # {} PROVE Dotenv[ValueIn(file, n, ForDotenv)] # Unset
  <2>1. PICK i \in Says(file, n, ForDotenv) : \A j \in Says(file, n, ForDotenv) : j <= i
    BY <1>2, ValueSaid
  <2>2. ValueIn(file, n, ForDotenv) = file[i].value
    BY <2>1, ValueSaid
  <2> QED
    BY <2>1, <2>2 DEF Says, ForDotenv
<1> QED
  BY <1>1, <1>2 DEF LoadedFrom

LEMMA EffectStep ==
  ASSUME Base, Base', [StoreNext]_storeVars, NEW p \in Procs, Replaced(p)
  PROVE  LET c == command[p]
             file == lines[p]
             own == SelectInSeq(file, LAMBDA l : Owns(l, c.name))
             gone == IF c.op = "set" THEN {own} ELSE {i \in DOMAIN file : Owns(file[i], c.name)}
             left == {i \in DOMAIN file \ gone :
                        file[i] \in ForDotenv /\ file[i].name = c.name}
         IN  IF c.op = "set" /\ Dotenv[c.value] # Unset
             THEN (\A i \in left : own = 0 \/ i < own) => Loaded(c.name)' = Dotenv[c.value]
             ELSE (Loaded(c.name)' = Unset) <=> left = {}
<1> DEFINE n == command[p].name
           v == command[p].value
           file == lines[p]
           own == Spot(file, n)
           said == Says(file, n, ForDotenv)
           set == command[p].op = "set"
           gone == IF set THEN {own} ELSE {i \in DOMAIN file : Owns(file[i], n)}
           left == {i \in DOMAIN file \ gone : file[i] \in ForDotenv /\ file[i].name = n}
<1>1. Replace(p)
  BY ReplacedBy
<1>2. p \in Busy
  BY <1>1 DEF Replace, Busy
<1>3. command[p] \in Commands /\ file \in Seq(Lines)
  BY <1>2 DEF Base, Commanded, TypeOK
<1>4. n \in Names /\ (set => v \in Values /\ v # Unset)
  BY <1>3, CommandFacts, UnsetAssumption DEF UnsetAssumption
<1>5. left = said \ gone
  BY DEF Says
<1>6. env' \in Seq(Lines) /\ ForDotenv \in SUBSET Assignments
  BY HeededSets DEF Base, TypeOK
<1>7. Loaded(n)' = LoadedFrom(env', n)
  BY <1>1 DEF Replace, Loaded, LoadedFrom
<1>8. Loaded(n)' = Unset <=> Says(env', n, ForDotenv) = {}
  BY <1>6, <1>7, LoadedIs
<1>9. CASE set /\ Dotenv[v] # Unset
  <2>1. env' = WithSet(file, n, v)
    BY <1>1, <1>9 DEF Replace
  <2>2. Plain(n, v) \in ForDotenv
    BY <1>4, <1>9 DEF Plain, ForDotenv, Assignments
  <2>3. ASSUME \A i \in left : own = 0 \/ i < own PROVE Loaded(n)' = Dotenv[v]
    <3>1. \A i \in said : own = 0 \/ i <= own
      <4>1. DOMAIN file \in SUBSET Nat
        BY <1>3, LenProperties
      <4>2. ASSUME NEW i \in said, i # own PROVE own = 0 \/ i <= own
        <5>1. i \in left
          BY <1>5, <1>9, <4>2
        <5>2. i \in Nat
          BY <4>1 DEF Says
        <5>3. own = 0 \/ own \in Owned(file, n)
          BY <1>3, SpotIsFirst
        <5>4. own \in Nat
          BY <4>1, <5>3 DEF Owned
        <5> QED
          BY <2>3, <5>1, <5>2, <5>4
      <4>3. ASSUME own \in said PROVE own <= own
        BY <4>1, <4>3 DEF Says
      <4> QED
        BY <4>2, <4>3
    <3>2. ValueIn(env', n, ForDotenv) = v
      BY <1>3, <1>4, <1>6, <1>9, <2>1, <2>2, <3>1, SetEffect
    <3> QED
      BY <1>4, <1>6, <1>7, <1>9, <3>2, LoadedIs
  <2> QED
    BY <1>9, <2>3 DEF Spot
<1>10. CASE set /\ Dotenv[v] = Unset
  <2>1. env' = WithSet(file, n, v)
    BY <1>1, <1>10 DEF Replace
  <2>2. Plain(n, v) \notin ForDotenv
    BY <1>10 DEF Plain, ForDotenv
  <2>3. Says(env', n, ForDotenv) = said \ {own}
    BY <1>3, <1>4, <1>6, <1>10, <2>1, <2>2, SetEffect
  <2>4. (Loaded(n)' = Unset) <=> left = {}
    BY <1>5, <1>8, <1>10, <2>3
  <2> QED
    BY <1>10, <2>4 DEF Spot
<1>11. CASE ~ set
  <2>1. env' = WithUnset(file, n)
    BY <1>1, <1>11 DEF Replace
  <2>2. Says(env', n, ForDotenv) = {} <=> said \subseteq Owned(file, n)
    BY <1>3, <1>4, <1>6, <2>1, UnsetEffect
  <2>3. (Loaded(n)' = Unset) <=> left = {}
    BY <1>5, <1>8, <1>11, <2>2 DEF Owned
  <2> QED
    BY <1>11, <2>3 DEF Spot
<1> QED
  BY <1>9, <1>10, <1>11

-------------------------------------------------------------------------------
(***************************************************************************)
(* The theorems.                                                           *)
(***************************************************************************)
StoreInv ==
  /\ Base
  /\ History
  /\ MaskInv

LEMMA StoreInvInductive == StoreSpec => []StoreInv
<1>1. Init => StoreInv
  BY BaseInit, HistoryInit, MaskInit DEF StoreInv
<1>2. StoreInv /\ [StoreNext]_storeVars => StoreInv'
  BY BaseNext, HistoryNext, MaskNext DEF StoreInv
<1> QED
  BY <1>1, <1>2, PTL DEF StoreSpec

(* The state of the two files and of every command keeps its type,         *)
(* whatever the commands, the crashes and the edits by hand.               *)
THEOREM TypeCorrect == StoreSpec => []TypeOK
<1>1. StoreInv => TypeOK
  BY DEF StoreInv, Base
<1> QED
  BY <1>1, StoreInvInductive, PTL

(* _write_atomic: a second copy of the secrets is on disk only between the *)
(* write of the temporary file and the rename, or after a kill there.      *)
THEOREM CopiesAreRemoved == StoreSpec => []NoStrayCopies
<1>1. StoreInv => NoStrayCopies
  BY DEF StoreInv, Base
<1> QED
  BY <1>1, StoreInvInductive, PTL

(* set_var's metadata entry: its last four characters are those of a value *)
(* a command did write, and a rotation date appears only after a second    *)
(* set, however the commands interleave and whichever of them die.         *)
THEOREM MetadataIsTrue == StoreSpec => []MetadataTellsHistory
<1>1. StoreInv => MetadataTellsHistory
  <2> SUFFICES ASSUME StoreInv, NEW n \in DOMAIN meta
               PROVE  /\ n \in Secrets => \E v \in Range(taken[n]) \ {Unset} :
                                            meta[n].last4 = Last4(v)
                      /\ meta[n].rotated =>
                           Cardinality({i \in DOMAIN taken[n] : taken[n][i] # Unset}) > 1
    BY DEF MetadataTellsHistory
  <2> QED
    BY DEF StoreInv, History, Vouch, SetsIn
<1> QED
  BY <1>1, StoreInvInductive, PTL

(* list_vars: the tail it shows for a secret is that of the value .env     *)
(* holds, and a variable that is not there has no entry, save for the      *)
(* variables whose metadata an edit, a crash or a race has put in doubt,   *)
(* and those list_vars reads off a line set_var would not write.           *)
THEOREM MaskIsTrue == StoreSpec => []MaskTellsTheKey
<1>1. StoreInv => MaskTellsTheKey
  <2> SUFFICES ASSUME StoreInv, document = "whole", NEW n \in Names \ excused,
                      ~ Shadowed(env, n), \A p \in Busy : command[p].name # n
               PROVE  Tells(meta, n, Listed(n))
    BY DEF MaskTellsTheKey, Tells
  <2>1. \A p \in Procs : at[p] \in Working => p \in Busy
    BY DEF Working, Busy
  <2>2. Fits(meta, env, n)
    BY <2>1 DEF StoreInv, MaskInv, Truthful
  <2> QED
    BY <2>2 DEF Fits, Listed
<1> QED
  BY <1>1, StoreInvInductive, PTL

(* set_var and unset_var: nothing but a rename changes .env, and one by a  *)
(* command that had the file to itself, or that puts back the present      *)
(* file, leaves every line it does not own, in order.                      *)
THEOREM OtherLinesAreKept == StoreSpec => OnlyItsOwnLines
<1>1. StoreInv /\ [StoreNext]_storeVars =>
        [env' # env /\ changes' = changes =>
           \E p \in Procs :
             /\ Replaced(p)
             /\ alone[p] \/ lines[p] = env =>
                  NotOwned(env', command[p].name) = NotOwned(env, command[p].name)]_storeVars
  BY OwnLinesStep DEF StoreInv
<1> QED
  BY <1>1, StoreInvInductive, PTL DEF StoreSpec, OnlyItsOwnLines

(* set_var and unset_var: the next load_dotenv finds what python-dotenv    *)
(* makes of the value, provided no line it reads stands behind; after a    *)
(* value it cannot parse, and after an unset, it finds nothing exactly if  *)
(* no other line for the name is left.                                     *)
THEOREM CommandsCount == StoreSpec => CommandsTakeEffect
<1>1. StoreInv /\ StoreInv' /\ [StoreNext]_storeVars =>
        [\A p \in Procs : Replaced(p) =>
           LET c == command[p]
               file == lines[p]
               own == SelectInSeq(file, LAMBDA l : Owns(l, c.name))
               gone == IF c.op = "set" THEN {own} ELSE {i \in DOMAIN file : Owns(file[i], c.name)}
               left == {i \in DOMAIN file \ gone :
                          file[i] \in ForDotenv /\ file[i].name = c.name}
           IN  IF c.op = "set" /\ Dotenv[c.value] # Unset
               THEN (\A i \in left : own = 0 \/ i < own) => Loaded(c.name)' = Dotenv[c.value]
               ELSE (Loaded(c.name)' = Unset) <=> left = {}]_storeVars
  BY EffectStep DEF StoreInv
<1> QED
  BY <1>1, StoreInvInductive, PTL DEF StoreSpec, CommandsTakeEffect
================================================================================
