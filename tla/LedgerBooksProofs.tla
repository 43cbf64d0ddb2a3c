------------------------- MODULE LedgerBooksProofs -------------------------
(***************************************************************************)
(* The books of the ledger: what the entries, the pools and the balances   *)
(* add up to, and the account all of it implements.                        *)
(*                                                                         *)
(* Total, Booked and Available add a number up over a finite set with a    *)
(* recursive function.  Its value is found by counting: one token for each *)
(* unit of each term, so that facts about sums are facts about finite      *)
(* sets.                                                                   *)
(***************************************************************************)
EXTENDS LedgerProofs

\* One token for each unit of a term: of the positive terms, of the negative.
Units(g, S) == UNION {{x} \X (1..g[x]) : x \in S}
Debts(g, S) == UNION {{x} \X (1..(-g[x])) : x \in S}
Net(g, S) == Cardinality(Units(g, S)) - Cardinality(Debts(g, S))

LEMMA TokensFinite ==
  ASSUME NEW S, IsFiniteSet(S), NEW g, \A x \in S : g[x] \in Int
  PROVE  IsFiniteSet(Units(g, S)) /\ IsFiniteSet(Debts(g, S))
<1>1. \A x \in S : IsFiniteSet({x} \X (1..g[x])) /\ IsFiniteSet({x} \X (1..(-g[x])))
  <2> TAKE x \in S
  <2>1. IsFiniteSet({x})
    BY FS_Singleton
  <2>2. g[x] \in Int /\ -g[x] \in Int /\ 1 \in Int
    OBVIOUS
  <2>3. IsFiniteSet(1..g[x]) /\ IsFiniteSet(1..(-g[x]))
    BY <2>2, FS_Interval
  <2> QED
    BY <2>1, <2>3, FS_Product
<1>2. ASSUME NEW f, \A x \in S : IsFiniteSet(f[x])
      PROVE  IsFiniteSet(UNION {f[x] : x \in S})
  <2> DEFINE h == [x \in S |-> f[x]]
             T == {f[x] : x \in S}
  <2>1. h \in Surjection(S, T)
    BY DEF Surjection
  <2>2. IsFiniteSet(T)
    BY <2>1, FS_Surjection
  <2>3. \A Y \in T : IsFiniteSet(Y)
    BY <1>2
  <2> HIDE DEF T
  <2>4. IsFiniteSet(UNION T)
    BY <2>2, <2>3, FS_UNION
  <2> QED
    BY <2>4 DEF T
<1>3. IsFiniteSet(UNION {{x} \X (1..g[x]) : x \in S})
  <2> DEFINE f == [x \in S |-> {x} \X (1..g[x])]
             A == {f[x] : x \in S}
             B == {{x} \X (1..g[x]) : x \in S}
  <2>1. A = B
    OBVIOUS
  <2>2. IsFiniteSet(UNION A)
    <3>1. \A x \in S : IsFiniteSet(f[x])
      BY <1>1
    <3> HIDE DEF f
    <3> QED
      BY <1>2, <3>1
  <2> HIDE DEF A, B
  <2>3. IsFiniteSet(UNION B)
    BY <2>1, <2>2
  <2> QED
    BY <2>3 DEF B
<1>4. IsFiniteSet(UNION {{x} \X (1..(-g[x])) : x \in S})
  <2> DEFINE f == [x \in S |-> {x} \X (1..(-g[x]))]
             A == {f[x] : x \in S}
             B == {{x} \X (1..(-g[x])) : x \in S}
  <2>1. A = B
    OBVIOUS
  <2>2. IsFiniteSet(UNION A)
    <3>1. \A x \in S : IsFiniteSet(f[x])
      BY <1>1
    <3> HIDE DEF f
    <3> QED
      BY <1>2, <3>1
  <2> HIDE DEF A, B
  <2>3. IsFiniteSet(UNION B)
    BY <2>1, <2>2
  <2> QED
    BY <2>3 DEF B
<1> QED
  BY <1>3, <1>4 DEF Units, Debts

\* A sum is an integer; it does not depend on the order of its terms.
LEMMA NetEmpty == ASSUME NEW g PROVE Net(g, {}) = 0
<1>1. Units(g, {}) = {} /\ Debts(g, {}) = {}
  BY DEF Units, Debts
<1> QED
  BY <1>1, FS_EmptySet DEF Net

LEMMA NetType ==
  ASSUME NEW S, IsFiniteSet(S), NEW g, \A x \in S : g[x] \in Int
  PROVE  Net(g, S) \in Int
BY TokensFinite, FS_CardinalityType DEF Net

LEMMA NetSplit ==
  ASSUME NEW S, IsFiniteSet(S), NEW g, \A x \in S : g[x] \in Int, NEW x \in S
  PROVE  Net(g, S) = g[x] + Net(g, S \ {x})
<1> DEFINE R == S \ {x}
           U == {x} \X (1..g[x])
           D == {x} \X (1..(-g[x]))
<1>1. IsFiniteSet(R) /\ \A y \in R : g[y] \in Int
  BY FS_Subset
<1>2. Units(g, S) = U \cup Units(g, R) /\ Debts(g, S) = D \cup Debts(g, R)
  BY DEF Units, Debts
<1>3. U \cap Units(g, R) = {} /\ D \cap Debts(g, R) = {}
  BY DEF Units, Debts
<1>4. /\ IsFiniteSet(U) /\ Cardinality(U) = (IF g[x] >= 0 THEN g[x] ELSE 0)
      /\ IsFiniteSet(D) /\ Cardinality(D) = (IF g[x] <= 0 THEN -g[x] ELSE 0)
  <2>1. IsFiniteSet({x}) /\ Cardinality({x}) = 1
    BY FS_Singleton
  <2>2. /\ IsFiniteSet(1..g[x]) /\ Cardinality(1..g[x]) = (IF g[x] >= 0 THEN g[x] ELSE 0)
        /\ IsFiniteSet(1..(-g[x]))
        /\ Cardinality(1..(-g[x])) = (IF g[x] <= 0 THEN -g[x] ELSE 0)
    <3>1. g[x] \in Int /\ -g[x] \in Int /\ 1 \in Int
      OBVIOUS
    <3> HIDE DEF R, U, D
    <3>2. /\ IsFiniteSet(1..g[x])
          /\ Cardinality(1..g[x]) = IF 1 > g[x] THEN 0 ELSE g[x]-1+1
      BY <3>1, FS_Interval
    <3>3. /\ IsFiniteSet(1..(-g[x]))
          /\ Cardinality(1..(-g[x])) = IF 1 > -g[x] THEN 0 ELSE -g[x]-1+1
      BY <3>1, FS_Interval
    <3> QED
      BY <3>1, <3>2, <3>3
  <2>3. /\ Cardinality(U) = 1 * Cardinality(1..g[x]) /\ IsFiniteSet(U)
        /\ Cardinality(D) = 1 * Cardinality(1..(-g[x])) /\ IsFiniteSet(D)
    BY <2>1, <2>2, FS_Product
  <2> HIDE DEF U, D
  <2> QED
    BY <2>2, <2>3
<1>5. /\ IsFiniteSet(Units(g, R)) /\ Cardinality(Units(g, R)) \in Nat
      /\ IsFiniteSet(Debts(g, R)) /\ Cardinality(Debts(g, R)) \in Nat
  BY <1>1, TokensFinite, FS_CardinalityType
<1> HIDE DEF U, D, R
<1>6. /\ Cardinality(Units(g, S)) = Cardinality(U) + Cardinality(Units(g, R))
      /\ Cardinality(Debts(g, S)) = Cardinality(D) + Cardinality(Debts(g, R))
  <2>1. ASSUME NEW A, NEW B, IsFiniteSet(A), IsFiniteSet(B), A \cap B = {}
        PROVE  Cardinality(A \cup B) = Cardinality(A) + Cardinality(B)
    <3>1. /\ Cardinality(A \cup B)
                = Cardinality(A) + Cardinality(B) - Cardinality(A \cap B)
          /\ Cardinality(A) \in Nat /\ Cardinality(B) \in Nat
          /\ Cardinality(A \cap B) = 0
      BY <2>1, FS_Union, FS_EmptySet, FS_CardinalityType
    <3> QED
      BY <3>1
  <2> QED
    BY <1>2, <1>3, <1>4, <1>5, <2>1
<1>7. Net(g, S) = g[x] + Net(g, R)
  BY <1>4, <1>5, <1>6 DEF Net
<1> QED
  BY <1>7 DEF R

\* Whatever satisfies the recursion a sum is computed by, in some order of its
\* terms, is that sum.
LEMMA NetUnique ==
  ASSUME NEW S, IsFiniteSet(S), NEW g, \A x \in S : g[x] \in Int, NEW F,
         F[{}] = 0,
         \A s \in SUBSET S : s # {} => \E x \in s : F[s] = g[x] + F[s \ {x}]
  PROVE  F[S] = Net(g, S)
<1> DEFINE Bad == {s \in SUBSET S : F[s] # Net(g, s)}
<1>1. SUFFICES Bad = {}
  OBVIOUS
<1>2. SUFFICES ASSUME Bad # {} PROVE FALSE
  OBVIOUS
<1>3. PICK s \in Bad : \A t \in Bad : ~(<<t, s>> \in StrictSubsetOrdering(S))
  <2>1. IsWellFoundedOn(StrictSubsetOrdering(S), SUBSET S)
    BY FS_StrictSubsetOrderingWellFounded, FS_FiniteSubsetsOfFinite
  <2>2. Bad \subseteq SUBSET S
    OBVIOUS
  <2> HIDE DEF Bad
  <2> QED
    BY <1>2, <2>1, <2>2, WFMin
<1>4. s # {}
  BY NetEmpty
<1>5. PICK x \in s : F[s] = g[x] + F[s \ {x}]
  BY <1>4
<1>6. F[s \ {x}] = Net(g, s \ {x})
  <2>1. <<s \ {x}, s>> \in StrictSubsetOrdering(S)
    BY DEF StrictSubsetOrdering
  <2> QED
    BY <1>3, <2>1
<1>7. Net(g, s) = g[x] + Net(g, s \ {x})
  <2>1. IsFiniteSet(s) /\ \A y \in s : g[y] \in Int
    BY FS_Subset
  <2> QED
    BY <2>1, NetSplit
<1> QED
  BY <1>5, <1>6, <1>7

\* The recursive function the community modules' sums are computed by.
AnyOf(s) == CHOOSE x \in s : TRUE
IsSum(it, g, S) ==
  it = [s \in SUBSET S |-> IF s = {} THEN 0 ELSE g[AnyOf(s)] + it[s \ {AnyOf(s)}]]

LEMMA SumIsNet ==
  ASSUME NEW S, IsFiniteSet(S), NEW g, \A x \in S : g[x] \in Int
  PROVE  (CHOOSE it : IsSum(it, g, S))[S] = Net(g, S)
<1> DEFINE net == [s \in SUBSET S |-> Net(g, s)]
<1>1. IsSum(net, g, S)
  <2>1. ASSUME NEW s \in SUBSET S
        PROVE  Net(g, s) = IF s = {} THEN 0 ELSE g[AnyOf(s)] + net[s \ {AnyOf(s)}]
    <3>1. CASE s = {}
      BY <3>1, NetEmpty
    <3>2. CASE s # {}
      <4>1. AnyOf(s) \in s
        BY <3>2 DEF AnyOf
      <4>2. IsFiniteSet(s) /\ \A y \in s : g[y] \in Int
        BY FS_Subset
      <4>3. net[s \ {AnyOf(s)}] = Net(g, s \ {AnyOf(s)})
        OBVIOUS
      <4> QED
        BY <3>2, <4>1, <4>2, <4>3, NetSplit
    <3> QED
      BY <3>1, <3>2
  <2> QED
    BY <2>1 DEF IsSum
<1> HIDE DEF net
<1>2. PICK it : it = (CHOOSE f : IsSum(f, g, S)) /\ IsSum(it, g, S)
  BY <1>1
<1>3. it[{}] = 0
  BY <1>2 DEF IsSum
<1>4. ASSUME NEW s \in SUBSET S, s # {}
      PROVE  \E x \in s : it[s] = g[x] + it[s \ {x}]
  <2>1. AnyOf(s) \in s
    BY <1>4 DEF AnyOf
  <2>2. it[s] = g[AnyOf(s)] + it[s \ {AnyOf(s)}]
    BY <1>2, <1>4 DEF IsSum
  <2> QED
    BY <2>1, <2>2
<1> QED
  BY <1>2, <1>3, <1>4, NetUnique

\* What Total and Booked add up.
LEMMA IdFinite == IsFiniteSet(Id)
BY LedgerAssumption, FS_Interval DEF Id

LEMMA TotalIs ==
  ASSUME NEW f \in [Id -> Int]
  PROVE  Total(f) = Net(f, Id)
<1>1. Total(f) = (CHOOSE it : IsSum(it, f, Id))[Id]
  BY DEF Total, MapThenSumSet, MapThenFoldSet, IsSum, AnyOf
<1> QED
  BY <1>1, IdFinite, SumIsNet

Amounts(E) == [e \in E |-> Signed(e)]

LEMMA BookedIs ==
  ASSUME NEW E \in SUBSET Entry, IsFiniteSet(E)
  PROVE  Booked(E) = Net(Amounts(E), E)
<1>1. Booked(E) = (CHOOSE it : IsSum(it, Amounts(E), E))[E]
  BY DEF Booked, MapThenSumSet, MapThenFoldSet, IsSum, AnyOf, Amounts
<1>2. \A e \in E : Amounts(E)[e] \in Int
  BY DEF Amounts, Signed, Entry
<1> QED
  BY <1>1, <1>2, SumIsNet

LEMMA AvailableIs ==
  ASSUME NEW r \in Request, TypeOK
  PROVE  Available(r) = Net([i \in Id |-> seen[r][PoolRow(i)]], PoolsRead(r))
<1> DEFINE S == PoolsRead(r)
           g == [i \in S |-> seen[r][PoolRow(i)]]
           h == [i \in Id |-> seen[r][PoolRow(i)]]
<1>1. Available(r) = (CHOOSE it : IsSum(it, g, S))[S]
  BY DEF Available, MapThenSumSet, MapThenFoldSet, IsSum, AnyOf
<1>2. IsFiniteSet(S)
  BY IdFinite, FS_Subset DEF PoolsRead
<1>3. \A i \in S : g[i] \in Int /\ h[i] = g[i]
  BY DEF TypeOK, PoolsRead, PoolRow, Row
<1> HIDE DEF S, g, h
<1>4. Available(r) = Net(g, S)
  BY <1>1, <1>2, <1>3, SumIsNet
<1>5. Net(g, S) = Net(h, S)
  BY <1>3 DEF Net, Units, Debts
<1> QED
  BY <1>4, <1>5 DEF S, h

\* A sum depends on its terms only.
LEMMA NetSame ==
  ASSUME NEW S, NEW f, NEW g, \A x \in S : f[x] = g[x]
  PROVE  Net(f, S) = Net(g, S)
<1>1. Units(f, S) = Units(g, S)
  BY DEF Units
<1>2. Debts(f, S) = Debts(g, S)
  BY DEF Debts
<1> QED
  BY <1>1, <1>2 DEF Net

\* Zeros add up to zero.
LEMMA NetZero ==
  ASSUME NEW S, NEW g, \A x \in S : g[x] = 0
  PROVE  Net(g, S) = 0
<1>1. \A x \in S : 1..g[x] = {} /\ 1..(-g[x]) = {}
  OBVIOUS
<1>2. Units(g, S) = {} /\ Debts(g, S) = {}
  BY <1>1 DEF Units, Debts
<1> QED
  BY <1>2, FS_EmptySet DEF Net

\* One term is changed.
LEMMA NetChange ==
  ASSUME NEW S, IsFiniteSet(S), NEW f, NEW g, NEW x \in S,
         \A y \in S : f[y] \in Int /\ g[y] \in Int /\ (y # x => g[y] = f[y])
  PROVE  Net(g, S) = Net(f, S) - f[x] + g[x]
<1>1. IsFiniteSet(S \ {x})
  BY FS_Subset
<1>2. Net(f, S \ {x}) = Net(g, S \ {x}) /\ Net(f, S \ {x}) \in Int
  BY <1>1, NetSame, NetType
<1>3. Net(f, S) = f[x] + Net(f, S \ {x}) /\ Net(g, S) = g[x] + Net(g, S \ {x})
  BY NetSplit
<1>4. f[x] \in Int /\ g[x] \in Int
  OBVIOUS
<1> QED
  BY <1>2, <1>3, <1>4

\* The terms in T are lowered.
LEMMA NetLess ==
  ASSUME NEW S, IsFiniteSet(S), NEW T \in SUBSET S, NEW f, NEW g, NEW h,
         \A y \in S : f[y] \in Int,
         \A y \in T : g[y] \in Int,
         \A y \in S : h[y] = IF y \in T THEN f[y] - g[y] ELSE f[y]
  PROVE  Net(h, S) = Net(f, S) - Net(g, T)
<1> DEFINE F == [s \in SUBSET S |-> Net(f, s) - Net(g, s \cap T)]
<1>1. F[{}] = 0
  <2>1. F[{}] = Net(f, {}) - Net(g, {} \cap T)
    OBVIOUS
  <2>2. {} \cap T = {}
    OBVIOUS
  <2> QED
    BY <2>1, <2>2, NetEmpty
<1>2. ASSUME NEW s \in SUBSET S, NEW x \in s
      PROVE  F[s] = h[x] + F[s \ {x}]
  <2>1. IsFiniteSet(s) /\ IsFiniteSet(s \ {x}) /\ IsFiniteSet(s \cap T)
        /\ IsFiniteSet((s \ {x}) \cap T)
    BY FS_Subset
  <2>2. F[s] = Net(f, s) - Net(g, s \cap T)
    OBVIOUS
  <2>3. F[s \ {x}] = Net(f, s \ {x}) - Net(g, (s \ {x}) \cap T)
    OBVIOUS
  <2>4. Net(f, s) = f[x] + Net(f, s \ {x})
    BY <2>1, NetSplit
  <2>5. Net(f, s \ {x}) \in Int /\ Net(g, (s \ {x}) \cap T) \in Int
        /\ f[x] \in Int
    BY <2>1, NetType
  <2>6. CASE x \in T
    <3>1. (s \ {x}) \cap T = (s \cap T) \ {x}
      OBVIOUS
    <3>2. Net(g, s \cap T) = g[x] + Net(g, (s \ {x}) \cap T) /\ g[x] \in Int
      BY <2>1, <2>6, <3>1, NetSplit
    <3>3. h[x] = f[x] - g[x]
      BY <2>6
    <3> HIDE DEF F
    <3>4. F[s] = (f[x] + Net(f, s \ {x})) - (g[x] + Net(g, (s \ {x}) \cap T))
      BY <2>2, <2>4, <3>2
    <3> QED
      BY <2>3, <2>5, <3>2, <3>3, <3>4
  <2>7. CASE x \notin T
    <3>1. (s \ {x}) \cap T = s \cap T
      BY <2>7
    <3>2. h[x] = f[x]
      BY <2>7
    <3> HIDE DEF F
    <3>3. F[s] = (f[x] + Net(f, s \ {x})) - Net(g, (s \ {x}) \cap T)
      BY <2>2, <2>4, <3>1
    <3> QED
      BY <2>3, <2>5, <3>2, <3>3
  <2> QED
    BY <2>6, <2>7
<1>3. \A x \in S : h[x] \in Int
  OBVIOUS
<1>4. F[S] = Net(f, S) - Net(g, T)
  <2>1. S \cap T = T
    OBVIOUS
  <2> QED
    BY <2>1
<1> HIDE DEF F
<1>5. F[S] = Net(h, S)
  BY <1>1, <1>2, <1>3, NetUnique
<1> QED
  BY <1>4, <1>5

\* Of terms that are not negative, some do not add up to more than all.
LEMMA NetMonotone ==
  ASSUME NEW S, IsFiniteSet(S), NEW T \in SUBSET S, NEW g,
         \A x \in S : g[x] \in Int /\ g[x] >= 0
  PROVE  0 <= Net(g, T) /\ Net(g, T) <= Net(g, S)
<1>1. Units(g, T) \subseteq Units(g, S)
  BY DEF Units
<1>2. Debts(g, T) = {} /\ Debts(g, S) = {}
  <2>1. \A x \in S : 1..(-g[x]) = {}
    OBVIOUS
  <2> QED
    BY <2>1 DEF Debts
<1>3. IsFiniteSet(Units(g, S))
  BY TokensFinite
<1>4. /\ Cardinality(Units(g, T)) \in Nat /\ Cardinality(Units(g, S)) \in Nat
      /\ Cardinality(Units(g, T)) <= Cardinality(Units(g, S))
  BY <1>1, <1>3, FS_Subset, FS_CardinalityType
<1>5. Cardinality(Debts(g, T)) = 0 /\ Cardinality(Debts(g, S)) = 0
  BY <1>2, FS_EmptySet
<1> QED
  BY <1>4, <1>5 DEF Net

\* What processDebit's loop allocates is the amount, whatever its sign.
LEMMA Oldest ==
  ASSUME NEW S \in SUBSET Id, S # {}
  PROVE  \E m \in S : \A j \in S : m <= j
<1> DEFINE Upto == {1..i : i \in S}
<1>1. Upto \subseteq SUBSET Id /\ Upto # {}
  <2>1. \A i \in S : 1..i \in SUBSET Id
    BY LedgerAssumption DEF Id
  <2>2. \E i \in S : 1..i \in Upto
    OBVIOUS
  <2> QED
    BY <2>1, <2>2
<1>2. IsWellFoundedOn(StrictSubsetOrdering(Id), SUBSET Id)
  BY IdFinite, FS_StrictSubsetOrderingWellFounded, FS_FiniteSubsetsOfFinite
<1> HIDE DEF Upto
<1>3. PICK T \in Upto : \A U \in Upto : ~(<<U, T>> \in StrictSubsetOrdering(Id))
  BY <1>1, <1>2, WFMin
<1>4. PICK m \in S : T = 1..m
  BY DEF Upto
<1>5. ASSUME NEW j \in S, ~(m <= j)
      PROVE  FALSE
  <2>1. m \in Int /\ j \in Int /\ j < m /\ 1 <= j
    BY <1>5, LedgerAssumption DEF Id
  <2>2. 1..j \subseteq 1..m /\ m \in 1..m /\ m \notin 1..j
    BY <2>1
  <2>3. 1..j \in Upto
    BY DEF Upto
  <2> QED
    BY <1>1, <1>3, <1>4, <2>2, <2>3 DEF StrictSubsetOrdering
<1> QED
  BY <1>5

LEMMA AllocationTotal ==
  ASSUME NEW S \in SUBSET Id, S # {}, NEW avail, NEW amount \in Int,
         NEW f \in Allocations(avail, S, amount)
  PROVE  f \in [S -> Int] /\ Net(f, S) = amount
<1>1. IsFiniteSet(S)
  BY IdFinite, FS_Subset
<1>2. CASE amount <= 0
  <2>1. f = [i \in S |-> IF \A j \in S \ {i} : OldestFirst(i, j) THEN amount ELSE 0]
    BY <1>2 DEF Allocations
  <2>2. PICK m \in S : \A j \in S : m <= j
    BY Oldest
  <2>3. \A i \in S : i \in Int
    BY DEF Id
  <2>4. f[m] = amount
    BY <2>1, <2>2, <2>3 DEF OldestFirst
  <2>5. \A i \in S : i # m => f[i] = 0
    <3> SUFFICES ASSUME NEW i \in S, i # m PROVE ~(OldestFirst(i, m))
      BY <2>1
    <3> QED
      BY <2>2, <2>3 DEF OldestFirst
  <2> DEFINE zero == [i \in S |-> 0]
  <2>6. Net(zero, S) = 0
    BY NetZero
  <2>7. \A i \in S : zero[i] = 0
    OBVIOUS
  <2>8. f \in [S -> Int]
    BY <2>1
  <2> HIDE DEF zero
  <2>9. Net(f, S) = Net(zero, S) - zero[m] + f[m]
    BY <1>1, <2>5, <2>7, <2>8, NetChange
  <2> QED
    BY <2>4, <2>6, <2>7, <2>8, <2>9
<1>3. CASE amount > 0
  <2>1. /\ f \in [S -> 0..amount]
        /\ MapThenSumSet(LAMBDA i : f[i], S) = amount
    BY <1>3 DEF Allocations
  <2>2. f \in [S -> Int]
    BY <2>1
  <2>3. MapThenSumSet(LAMBDA i : f[i], S) = (CHOOSE it : IsSum(it, f, S))[S]
    BY DEF MapThenSumSet, MapThenFoldSet, IsSum, AnyOf
  <2>4. Net(f, S) = amount
    BY <1>1, <2>1, <2>2, <2>3, SumIsNet
  <2> QED
    BY <2>2, <2>4
<1> QED
  BY <1>2, <1>3

----------------------------------------------------------------------------
\* Where a transaction stands with respect to the books: the call it serves is
\* one it was sent, the SELECT that precedes its writes is of balance rows, of
\* which it takes at most one, and a debit that writes has found a pool and a
\* balance row, and pools that cover its amount.
BalanceRowsOf(r) == {i \in Id : BalanceRow(i) \in held[r] \cup want[r]}

SessionOK(r) ==
  /\ pc[r] # "idle" => call[r] \in Calls[r]
  /\ pc[r] \in {"write", "commit"} => \A x \in want[r] : x.table = "balance"
  /\ \A i, j \in BalanceRowsOf(r) : i = j
  /\ pc[r] \in {"write", "commit"} /\ call[r].kind = "debit"
        => PoolsRead(r) # {} /\ BalanceRowsOf(r) # {}
  /\ pc[r] = "commit" /\ call[r].kind = "debit"
        => Net([i \in Id |-> seen[r][PoolRow(i)]], PoolsRead(r)) >= call[r].amount

BalancesBacked == \A i \in Id : balances[i] # 0 => i \in balanceRows

\* The inductive invariant of the books.
BooksInv ==
  /\ LedgerInv
  /\ IsFiniteSet(entries) /\ BalancesBacked
  /\ \A r \in Request : SessionOK(r)
  /\ EntriesExplainPools /\ BooksAgree

\* At the start there is nothing to book.
LEMMA BooksInit == Init => BooksInv
<1> SUFFICES ASSUME Init PROVE BooksInv
  OBVIOUS
<1> USE DEF Init
<1>1. LedgerInv
  BY InitInv
<1>2. IsFiniteSet(entries) /\ BalancesBacked
  BY FS_EmptySet DEF BalancesBacked
<1>3. ASSUME NEW r \in Request
      PROVE  SessionOK(r)
  BY DEF SessionOK, BalanceRowsOf
<1>4. Total([i \in Id |-> 0]) = 0
  <2> DEFINE zero == [i \in Id |-> 0]
  <2>1. Total(zero) = Net(zero, Id)
    BY TotalIs
  <2>2. Net(zero, Id) = 0
    BY NetZero
  <2> QED
    BY <2>1, <2>2
<1>5. Booked({}) = 0
  BY BookedIs, NetEmpty, FS_EmptySet
<1>6. EntriesExplainPools
  <2>1. {e \in entries : e.revertOf = 0} = {}
    OBVIOUS
  <2> QED
    BY <1>4, <1>5, <2>1 DEF EntriesExplainPools
<1>7. BooksAgree
  BY DEF BooksAgree
<1> QED
  BY <1>1, <1>2, <1>3, <1>6, <1>7 DEF BooksInv

\* A step of another transaction does not touch this one.
LEMMA SessionKeeps ==
  ASSUME NEW q \in Request, SessionOK(q),
         pc'[q] = pc[q], call'[q] = call[q], want'[q] = want[q],
         held'[q] = held[q], seen'[q] = seen[q]
  PROVE  SessionOK(q)'
<1>1. BalanceRowsOf(q)' = BalanceRowsOf(q)
  BY DEF BalanceRowsOf
<1>2. PoolsRead(q)' = PoolsRead(q)
  BY DEF PoolsRead
<1>3. [i \in Id |-> seen'[q][PoolRow(i)]] = [i \in Id |-> seen[q][PoolRow(i)]]
  OBVIOUS
<1> QED
  BY <1>1, <1>2, <1>3 DEF SessionOK

\* A statement that writes no row keeps the books.
LEMMA StatementKeepsBooks ==
  ASSUME NEW r \in Request, BooksInv, LedgerInv', UNCHANGED tables, SessionOK(r)',
         \A q \in Request \ {r} :
            /\ pc'[q] = pc[q] /\ call'[q] = call[q] /\ want'[q] = want[q]
            /\ held'[q] = held[q] /\ seen'[q] = seen[q]
  PROVE  BooksInv'
<1>1. \A q \in Request : SessionOK(q)'
  BY SessionKeeps DEF BooksInv
<1>2. IsFiniteSet(entries)' /\ BalancesBacked'
  BY DEF BooksInv, BalancesBacked, tables
<1>3. EntriesExplainPools'
  BY DEF BooksInv, EntriesExplainPools, tables
<1>4. BooksAgree'
  BY DEF BooksInv, BooksAgree, NoReverts, tables
<1> QED
  BY <1>1, <1>2, <1>3, <1>4 DEF BooksInv

LEMMA EndTxSession ==
  ASSUME NEW r \in Request, TypeOK, EndTx(r)
  PROVE  /\ SessionOK(r)'
         /\ \A q \in Request \ {r} :
               /\ pc'[q] = pc[q] /\ call'[q] = call[q] /\ want'[q] = want[q]
               /\ held'[q] = held[q] /\ seen'[q] = seen[q]
<1>1. /\ pc'[r] = "idle" /\ want'[r] = {} /\ held'[r] = {}
      /\ \A q \in Request \ {r} :
            /\ pc'[q] = pc[q] /\ call'[q] = call[q] /\ want'[q] = want[q]
            /\ held'[q] = held[q] /\ seen'[q] = seen[q]
  BY DEF EndTx, TypeOK
<1>2. BalanceRowsOf(r)' = {}
  BY <1>1 DEF BalanceRowsOf
<1>3. SessionOK(r)'
  BY <1>1, <1>2 DEF SessionOK
<1> QED
  BY <1>1, <1>3

LEMMA RollbackBooks ==
  ASSUME NEW r \in Request, BooksInv, Rollback(r)
  PROVE  BooksInv'
<1>1. LedgerInv /\ TypeOK
  BY DEF BooksInv, LedgerInv
<1>2. LedgerInv' /\ EndTx(r) /\ UNCHANGED tables
  BY <1>1, RollbackInv DEF Rollback
<1> QED
  BY <1>1, <1>2, EndTxSession, StatementKeepsBooks

LEMMA ReceiveBooks ==
  ASSUME NEW r \in Request, BooksInv, Receive(r)
  PROVE  BooksInv'
<1>1. TypeOK /\ LocksOK(r) /\ LedgerInv
  BY DEF BooksInv, LedgerInv
<1>2. PICK c \in Calls[r] : call' = [call EXCEPT ![r] = c]
  BY DEF Receive
<1>3. /\ pc[r] = "idle" /\ pc'[r] = "tail" /\ call'[r] = c
      /\ UNCHANGED <<tables, want, held, seen>>
      /\ \A q \in Request \ {r} : pc'[q] = pc[q] /\ call'[q] = call[q]
  BY <1>1, <1>2 DEF Receive, TypeOK
<1>4. BalanceRowsOf(r)' = {}
  BY <1>1, <1>3 DEF BalanceRowsOf, LocksOK
<1>5. SessionOK(r)'
  BY <1>3, <1>4 DEF SessionOK
<1>6. LedgerInv'
  BY <1>1, ReceiveInv
<1> QED
  BY <1>3, <1>5, <1>6, StatementKeepsBooks

\* The SELECTs that precede the one of the balance row.
LEMMA SelectBooks ==
  ASSUME NEW r \in Request, BooksInv, LedgerInv', pc[r] \in {"tail", "pools"},
         NEW rows, NEW next \in {"pools", "balance"}, Select(r, rows, next),
         UNCHANGED <<tables, call, held, seen>>
  PROVE  BooksInv'
<1>1. TypeOK /\ LocksOK(r)
  BY DEF BooksInv, LedgerInv
<1>2. /\ pc'[r] = next /\ want'[r] = rows
      /\ \A q \in Request \ {r} : pc'[q] = pc[q] /\ want'[q] = want[q]
  BY <1>1 DEF Select, TypeOK
<1>3. LocksOK(r)'
  BY DEF LedgerInv
<1>4. BalanceRowsOf(r)' = {}
  BY <1>2, <1>3 DEF LocksOK, BalanceRowsOf, BalanceRow
<1>5. SessionOK(r) /\ pc[r] # "idle"
  BY DEF BooksInv
<1>6. SessionOK(r)'
  BY <1>2, <1>4, <1>5 DEF SessionOK
<1> QED
  BY <1>2, <1>6, StatementKeepsBooks

LEMMA FindsBooks ==
  ASSUME NEW r \in Request, BooksInv,
         GetLastEntry(r) \/ FindOriginal(r) \/ FindPools(r)
  PROVE  BooksInv'
<1>1. LedgerInv
  BY DEF BooksInv
<1>2. CASE GetLastEntry(r)
  <2>1. LedgerInv'
    BY <1>1, <1>2, GetLastEntryInv
  <2> DEFINE next == IF call[r].kind = "debit" THEN "pools" ELSE "balance"
  <2>2. PICK rows : Select(r, rows, next)
    BY <1>2 DEF GetLastEntry
  <2>3. next \in {"pools", "balance"}
    OBVIOUS
  <2>4. pc[r] = "tail" /\ UNCHANGED <<tables, call, held, seen>>
    BY <1>2 DEF GetLastEntry
  <2> HIDE DEF next
  <2> QED
    BY <2>1, <2>2, <2>3, <2>4, SelectBooks
<1>3. CASE FindOriginal(r) /\ ~Rollback(r)
  <2>1. LedgerInv'
    BY <1>1, <1>3, FindOriginalInv
  <2>2. /\ Select(r, {EntryRow(call[r].id)}, "balance")
        /\ pc[r] = "tail" /\ UNCHANGED <<tables, call, held, seen>>
    BY <1>3 DEF FindOriginal
  <2> QED
    BY <2>1, <2>2, SelectBooks
<1>4. CASE FindPools(r) /\ ~Rollback(r)
  <2>1. LedgerInv'
    BY <1>1, <1>4, FindPoolsInv
  <2>2. PICK rows : /\ Select(r, rows, "balance")
                    /\ pc[r] = "pools" /\ UNCHANGED <<tables, call, held, seen>>
    BY <1>4 DEF FindPools
  <2> QED
    BY <2>1, <2>2, SelectBooks
<1> QED
  BY <1>2, <1>3, <1>4, RollbackBooks

LEMMA FindBalanceBooks ==
  ASSUME NEW r \in Request, BooksInv, FindBalance(r)
  PROVE  BooksInv'
<1>1. CASE Rollback(r)
  BY <1>1, RollbackBooks
<1>2. CASE ~Rollback(r)
  <2>0. LedgerInv /\ TypeOK /\ RowsOK /\ LocksOK(r) /\ SessionOK(r) /\ LedgerInv'
    BY FindBalanceInv DEF BooksInv, LedgerInv
  <2>1. PICK rows :
           /\ want' = [want EXCEPT ![r] = rows]
           /\ \/ rows = {} /\ call[r].kind = "credit"
              \/ \E i \in balanceRows : rows = {BalanceRow(i)}
    BY <1>2 DEF FindBalance, Select
  <2>2. /\ pc[r] = "balance" /\ want[r] = {} /\ ~RefusedEarly(r)
        /\ pc' = [pc EXCEPT ![r] = "write"]
        /\ UNCHANGED <<tables, clock, call, tail, held, seen, born>>
    BY <1>2 DEF FindBalance, Select
  <2>3. /\ want'[r] = rows /\ pc'[r] = "write"
        /\ \A q \in Request \ {r} : pc'[q] = pc[q] /\ want'[q] = want[q]
    BY <2>0, <2>1, <2>2 DEF TypeOK
  <2>4. \A x \in held[r] : x.table # "balance"
    BY <2>0, <2>2 DEF LocksOK
  <2>5. BalanceRowsOf(r)' = {i \in Id : BalanceRow(i) \in rows}
    BY <2>2, <2>3, <2>4 DEF BalanceRowsOf, BalanceRow
  <2>6. \A i, j \in BalanceRowsOf(r)' : i = j
    BY <2>1, <2>5 DEF BalanceRow
  <2>7. \A x \in rows : x.table = "balance"
    BY <2>1 DEF BalanceRow
  <2>8. call[r].kind = "debit" => PoolsRead(r)' # {} /\ BalanceRowsOf(r)' # {}
    <3> SUFFICES ASSUME call[r].kind = "debit"
                 PROVE  PoolsRead(r)' # {} /\ BalanceRowsOf(r)' # {}
      OBVIOUS
    <3>1. PoolsRead(r)' # {}
      BY <2>2 DEF RefusedEarly, PoolsRead
    <3>2. PICK i \in balanceRows : rows = {BalanceRow(i)}
      BY <2>1
    <3>3. i \in Id
      BY <2>0 DEF TypeOK
    <3>4. i \in BalanceRowsOf(r)'
      BY <2>5, <3>2, <3>3
    <3> QED
      BY <3>1, <3>4
  <2>9. SessionOK(r)'
    BY <2>0, <2>2, <2>3, <2>6, <2>7, <2>8 DEF SessionOK
  <2> QED
    BY <2>0, <2>2, <2>3, <2>9, StatementKeepsBooks
<1> QED
  BY <1>1, <1>2

LEMMA LockBooks ==
  ASSUME NEW r \in Request, BooksInv, Lock(r)
  PROVE  BooksInv'
<1>0. LedgerInv /\ TypeOK /\ LocksOK(r) /\ SessionOK(r) /\ LedgerInv'
  BY LockInv DEF BooksInv, LedgerInv
<1>1. PICK x \in want[r] :
         /\ want' = [want EXCEPT ![r] = @ \ {x}]
         /\ held' = [held EXCEPT ![r] = @ \cup {x}]
         /\ seen' = [seen EXCEPT ![r][x] = Newest(x)]
         /\ UNCHANGED <<tables, clock, pc, call, tail, born>>
  BY DEF Lock
<1>2. /\ held'[r] = held[r] \cup {x} /\ want'[r] = want[r] \ {x}
      /\ seen'[r] = [seen[r] EXCEPT ![x] = Newest(x)]
      /\ \A q \in Request \ {r} : /\ held'[q] = held[q] /\ want'[q] = want[q]
                                  /\ seen'[q] = seen[q]
  BY <1>0, <1>1 DEF TypeOK
<1>3. BalanceRowsOf(r)' = BalanceRowsOf(r)
  BY <1>1, <1>2 DEF BalanceRowsOf
<1>4. pc[r] # "commit"
  BY <1>0, <1>1 DEF LocksOK
<1>5. pc[r] = "write" => PoolsRead(r)' = PoolsRead(r)
  <2> SUFFICES ASSUME pc[r] = "write" PROVE PoolsRead(r)' = PoolsRead(r)
    OBVIOUS
  <2>1. x.table = "balance"
    BY <1>0, <1>1 DEF SessionOK
  <2>2. ASSUME NEW i \in Id
        PROVE  seen'[r][PoolRow(i)] = seen[r][PoolRow(i)]
    <3>1. PoolRow(i) # x /\ PoolRow(i) \in Row
      BY <2>1 DEF PoolRow, Row
    <3> QED
      BY <1>0, <1>2, <3>1 DEF TypeOK
  <2> QED
    BY <2>2 DEF PoolsRead
<1>6. SessionOK(r)'
  BY <1>0, <1>1, <1>2, <1>3, <1>4, <1>5 DEF SessionOK
<1> QED
  BY <1>0, <1>1, <1>2, <1>6, StatementKeepsBooks

LEMMA WriteBooks ==
  ASSUME NEW r \in Request, BooksInv, Write(r)
  PROVE  BooksInv'
<1>1. CASE Rollback(r)
  BY <1>1, RollbackBooks
<1>2. CASE ~Rollback(r)
  <2>0. LedgerInv /\ TypeOK /\ SessionOK(r) /\ LedgerInv'
    BY WriteInv DEF BooksInv, LedgerInv
  <2>1. /\ pc[r] = "write" /\ Covered(r) /\ pc' = [pc EXCEPT ![r] = "commit"]
        /\ UNCHANGED <<tables, call, want, held, seen>>
    BY <1>2 DEF Write
  <2>2. pc'[r] = "commit" /\ \A q \in Request \ {r} : pc'[q] = pc[q]
    BY <2>0, <2>1 DEF TypeOK
  <2>3. BalanceRowsOf(r)' = BalanceRowsOf(r) /\ PoolsRead(r)' = PoolsRead(r)
    BY <2>1 DEF BalanceRowsOf, PoolsRead
  <2>4. [i \in Id |-> seen'[r][PoolRow(i)]] = [i \in Id |-> seen[r][PoolRow(i)]]
    BY <2>1
  <2>5. call[r].kind = "debit"
          => Net([i \in Id |-> seen[r][PoolRow(i)]], PoolsRead(r)) >= call[r].amount
    BY <2>0, <2>1, AvailableIs DEF Covered
  <2>6. SessionOK(r)'
    BY <2>0, <2>1, <2>2, <2>3, <2>4, <2>5 DEF SessionOK
  <2> QED
    BY <2>0, <2>1, <2>2, <2>6, StatementKeepsBooks
<1> QED
  BY <1>1, <1>2

\* One more entry is booked.
LEMMA BookedAdd ==
  ASSUME NEW E \in SUBSET Entry, IsFiniteSet(E), NEW e \in Entry, e \notin E
  PROVE  Booked(E \cup {e}) = Booked(E) + Signed(e) /\ Booked(E) \in Int
<1> DEFINE F == E \cup {e}
<1>1. F \in SUBSET Entry /\ IsFiniteSet(F) /\ F \ {e} = E
  BY FS_AddElement
<1>2. /\ \A x \in F : Amounts(F)[x] \in Int
      /\ \A x \in E : Amounts(E)[x] \in Int /\ Amounts(F)[x] = Amounts(E)[x]
      /\ Amounts(F)[e] = Signed(e) /\ Signed(e) \in Int
  BY DEF Amounts, Signed, Entry
<1>3. Booked(F) = Net(Amounts(F), F) /\ Booked(E) = Net(Amounts(E), E)
  BY <1>1, BookedIs
<1>4. Net(Amounts(F), F) = Signed(e) + Net(Amounts(F), E)
  <2>1. e \in F
    OBVIOUS
  <2> HIDE DEF F
  <2>2. Net(Amounts(F), F) = Amounts(F)[e] + Net(Amounts(F), F \ {e})
    BY <1>1, <1>2, <2>1, NetSplit
  <2> QED
    BY <1>1, <1>2, <2>2
<1>5. Net(Amounts(F), E) = Net(Amounts(E), E) /\ Net(Amounts(E), E) \in Int
  BY <1>2, NetSame, NetType
<1> HIDE DEF F
<1>6. Booked(F) = Booked(E) + Signed(e) /\ Booked(E) \in Int
  <2>1. Booked(F) = Signed(e) + Booked(E)
    BY <1>3, <1>4, <1>5
  <2>2. Signed(e) \in Int /\ Booked(E) \in Int
    BY <1>2, <1>3, <1>5
  <2> QED
    BY <2>1, <2>2
<1> QED
  BY <1>6 DEF F

\* COMMIT of an entry keeps the books if pools and balances move by what the
\* entry says.
LEMMA CommitKeepsBooks ==
  ASSUME NEW r \in Request, BooksInv, LedgerInv', EndTx(r), pc[r] = "commit",
         NEW e \in Entry, e.id = born[r], entries' = entries \cup {e},
         BalancesBacked',
         Total(remaining') = Total(remaining)
                               + (IF e.revertOf = 0 THEN Signed(e) ELSE 0),
         NoReverts => Total(balances') = Total(balances) + Signed(e)
                      /\ e.revertOf = 0
  PROVE  BooksInv'
<1>0. LedgerInv /\ TypeOK /\ TypeOK' /\ BornOK(r)
  BY DEF BooksInv, LedgerInv
<1>1. e \notin entries
  BY <1>0 DEF BornOK, EntryIds
<1>2. IsFiniteSet(entries)'
  BY FS_AddElement DEF BooksInv
<1>3. \A q \in Request : SessionOK(q)'
  BY <1>0, EndTxSession, SessionKeeps DEF BooksInv
<1>4. EntriesExplainPools'
  <2> DEFINE E == {x \in entries : x.revertOf = 0}
             F == {x \in entries' : x.revertOf = 0}
  <2>1. IsFiniteSet(E) /\ E \in SUBSET Entry
    <3>1. E \subseteq entries /\ IsFiniteSet(entries)
      BY DEF BooksInv
    <3>2. IsFiniteSet(E)
      BY <3>1, FS_Subset
    <3> QED
      BY <1>0, <3>1, <3>2 DEF TypeOK
  <2>2. F = IF e.revertOf = 0 THEN E \cup {e} ELSE E
    OBVIOUS
  <2>3. Total(remaining) = Booked(E)
    BY DEF BooksInv, EntriesExplainPools
  <2>4. e \notin E
    BY <1>1
  <2>5. /\ Booked(E \cup {e}) = Booked(E) + Signed(e) /\ Booked(E) \in Int
        /\ Signed(e) \in Int
    <3> HIDE DEF E
    <3>1. Signed(e) \in Int
      BY DEF Signed, Entry
    <3> QED
      BY <2>1, <2>4, <3>1, BookedAdd
  <2>6. Total(remaining') = Booked(F)
    <3> HIDE DEF E, F
    <3>1. CASE e.revertOf = 0
      BY <2>2, <2>3, <2>5, <3>1
    <3>2. CASE e.revertOf # 0
      BY <2>2, <2>3, <2>5, <3>2
    <3> QED
      BY <3>1, <3>2
  <2> QED
    BY <2>6 DEF EntriesExplainPools
<1>5. BooksAgree'
  <2> SUFFICES ASSUME NoReverts PROVE Total(balances') = Total(remaining')
    BY DEF BooksAgree, NoReverts
  <2>1. Total(balances) = Total(remaining)
    BY DEF BooksInv, BooksAgree
  <2> QED
    BY <2>1
<1> QED
  BY <1>2, <1>3, <1>4, <1>5 DEF BooksInv

\* Only the row at x changes: so does the total.
LEMMA TotalChange ==
  ASSUME NEW f \in [Id -> Int], NEW g \in [Id -> Int], NEW x \in Id,
         \A i \in Id : i # x => g[i] = f[i]
  PROVE  Total(g) = Total(f) - f[x] + g[x]
<1>1. Total(f) = Net(f, Id) /\ Total(g) = Net(g, Id)
  BY TotalIs
<1> QED
  BY <1>1, IdFinite, NetChange

LEMMA CommitCreditBooks ==
  ASSUME NEW r \in Request, BooksInv, CommitCredit(r)
  PROVE  BooksInv'
<1> DEFINE amount == call[r].amount
           e == NewEntry(r, "credit", amount, call[r].ref, 0)
<1>0. /\ LedgerInv /\ TypeOK /\ RowsOK /\ LocksOK(r) /\ BornOK(r) /\ CallOK(r)
      /\ SessionOK(r) /\ LedgerInv' /\ TypeOK' /\ BalancesBacked
      /\ BalancesNeverOverdrawn
  BY CommitCreditInv DEF BooksInv, LedgerInv
<1>1. /\ pc[r] = "commit" /\ EndTx(r) /\ entries' = entries \cup {e}
      /\ remaining' = [remaining EXCEPT ![born[r]] = amount]
      /\ call[r].kind = "credit"
  BY DEF CommitCredit
<1>2. amount \in Int /\ amount > 0 /\ call[r].ref \in STRING
  BY <1>0, <1>1 DEF TypeOK, CallRec, CallOK
<1>3. born[r] \in Id /\ born[r] \notin EntryIds /\ born[r] \notin balanceRows
  BY <1>0, <1>1 DEF BornOK, TypeOK, RowsOK
<1>4. e \in Entry /\ e.id = born[r] /\ e.revertOf = 0 /\ Signed(e) = amount
  BY <1>0, <1>2, <1>3
     DEF NewEntry, PreviousHash, Entry, TypeOK, ZeroTime, Genesis, Signed
<1>5. Total(remaining') = Total(remaining) + amount
  <2>1. remaining \in [Id -> Int] /\ remaining' \in [Id -> Int]
    BY <1>0 DEF TypeOK
  <2>2. remaining[born[r]] = 0 /\ remaining'[born[r]] = amount
    BY <1>0, <1>1, <1>3, <2>1 DEF RowsOK
  <2>3. \A i \in Id : i # born[r] => remaining'[i] = remaining[i]
    BY <1>1, <2>1
  <2>4. Total(remaining') = Total(remaining) - 0 + amount
    BY <1>3, <2>1, <2>2, <2>3, TotalChange
  <2>5. Total(remaining) \in Int
    BY <2>1, IdFinite, TotalIs, NetType
  <2> HIDE DEF amount
  <2> QED
    BY <1>2, <2>4, <2>5
<1>6. /\ BalancesBacked'
      /\ NoReverts => Total(balances') = Total(balances) + amount
  <2>0. /\ balances \in [Id -> Int] /\ balances' \in [Id -> Int]
        /\ Total(balances) \in Int
    <3>1. balances \in [Id -> Int] /\ balances' \in [Id -> Int]
      BY <1>0 DEF TypeOK
    <3> QED
      BY <3>1, IdFinite, TotalIs, NetType
  <2>1. CASE /\ balanceRows' = balanceRows \cup {born[r]}
             /\ balances' = [balances EXCEPT ![born[r]] = amount]
    <3>1. balances[born[r]] = 0 /\ balances'[born[r]] = amount
      BY <1>0, <1>3, <2>0, <2>1 DEF BalancesBacked
    <3>2. \A i \in Id : i # born[r] => balances'[i] = balances[i]
      BY <2>0, <2>1
    <3>3. BalancesBacked'
      BY <1>0, <2>1, <3>2 DEF BalancesBacked
    <3>4. Total(balances') = Total(balances) - 0 + amount
      BY <1>3, <2>0, <3>1, <3>2, TotalChange
    <3> HIDE DEF amount
    <3> QED
      BY <1>2, <2>0, <3>3, <3>4
  <2>2. CASE /\ BalanceLocked(r) # {} /\ balanceRows' = balanceRows
             /\ SetBalance(BalanceLocked(r),
                           [i \in Id |-> seen[r][BalanceRow(i)] + amount])
    <3>1. PICK x \in BalanceLocked(r) : x \in Id
      BY <2>2 DEF BalanceLocked
    <3>2. BalanceLocked(r) = {x}
      BY <1>0, <3>1 DEF SessionOK, BalanceLocked, BalanceRowsOf
    <3>3. seen[r][BalanceRow(x)] = balances[x] /\ x \in balanceRows
      BY <1>0, <3>1, SeenIsCurrent DEF LocksOK, BalanceLocked, BalanceRow
    <3>4. \A i \in Id : i # x => balances'[i] = balances[i]
      BY <2>2, <3>2 DEF SetBalance
    <3>5. balances[x] + amount # 0 => balances'[x] = balances[x] + amount
      BY <2>2, <3>1, <3>2, <3>3 DEF SetBalance
    <3>6. BalancesBacked'
      BY <1>0, <2>2, <3>3, <3>4 DEF BalancesBacked
    <3>7. ASSUME NoReverts
          PROVE  Total(balances') = Total(balances) + amount
      <4>1. balances[x] >= 0 /\ balances[x] \in Int
        BY <1>0, <2>0, <3>1, <3>7 DEF BalancesNeverOverdrawn
      <4> HIDE DEF amount
      <4>2. balances'[x] = balances[x] + amount
        BY <1>2, <3>5, <4>1
      <4>3. Total(balances') = Total(balances) - balances[x] + balances'[x]
        BY <2>0, <3>1, <3>4, TotalChange
      <4> QED
        BY <1>2, <2>0, <4>1, <4>2, <4>3
    <3> QED
      BY <3>6, <3>7
  <2> QED
    BY <2>1, <2>2 DEF CommitCredit
<1> HIDE DEF e, amount
<1> QED
  BY <1>0, <1>1, <1>4, <1>5, <1>6, CommitKeepsBooks

LEMMA CommitDebitBooks ==
  ASSUME NEW r \in Request, BooksInv, CommitDebit(r)
  PROVE  /\ BooksInv'
         /\ Total(remaining') = Total(remaining) - call[r].amount
         /\ 0 < Total(remaining) /\ call[r].amount <= Total(remaining)
<1> DEFINE amount == call[r].amount
           e == NewEntry(r, "debit", amount, call[r].ref, 0)
           avail == [i \in Id |-> seen[r][PoolRow(i)]]
           S == PoolsRead(r)
<1>0. /\ LedgerInv /\ TypeOK /\ LocksOK(r) /\ BornOK(r) /\ SessionOK(r)
      /\ LedgerInv' /\ TypeOK' /\ BalancesBacked /\ PoolsNeverOverdrawn
  BY CommitDebitInv DEF BooksInv, LedgerInv
<1>1. /\ pc[r] = "commit" /\ call[r].kind = "debit" /\ EndTx(r)
      /\ balanceRows' = balanceRows /\ entries' = entries \cup {e}
  BY DEF CommitDebit
<1>2. amount \in Int /\ call[r].ref \in STRING
  BY <1>0 DEF TypeOK, CallRec
<1>3. /\ e \in Entry /\ e.id = born[r] /\ e.revertOf = 0 /\ Signed(e) = -amount
  BY <1>0, <1>1, <1>2
     DEF NewEntry, PreviousHash, Entry, TypeOK, ZeroTime, Genesis, BornOK, Signed
<1>4. /\ remaining \in [Id -> Int] /\ remaining' \in [Id -> Int]
      /\ balances \in [Id -> Int] /\ balances' \in [Id -> Int]
      /\ Total(remaining) \in Int /\ Total(balances) \in Int
  <2>1. /\ remaining \in [Id -> Int] /\ remaining' \in [Id -> Int]
        /\ balances \in [Id -> Int] /\ balances' \in [Id -> Int]
    BY <1>0 DEF TypeOK
  <2> QED
    BY <2>1, IdFinite, TotalIs, NetType
<1>5. S \in SUBSET Id /\ S # {} /\ IsFiniteSet(S)
  <2>1. S \in SUBSET Id /\ S # {}
    BY <1>0, <1>1 DEF SessionOK, PoolsRead
  <2> QED
    BY <2>1, IdFinite, FS_Subset
<1>6. \A i \in S : avail[i] = remaining[i] /\ remaining[i] > 0
  <2> TAKE i \in S
  <2>1. i \in Id /\ avail[i] > 0
    BY DEF PoolsRead
  <2> QED
    BY <2>1, SeenIsCurrent DEF BooksInv
<1>7. PICK f \in Allocations(avail, S, amount) :
         remaining' = [i \in Id |-> IF i \in S THEN remaining[i] - f[i]
                                    ELSE remaining[i]]
  BY DEF CommitDebit
<1>8. f \in [S -> Int] /\ Net(f, S) = amount
  <2> HIDE DEF avail, S, amount
  <2> QED
    BY <1>2, <1>5, <1>7, AllocationTotal
<1>9. Total(remaining') = Total(remaining) - amount
  <2>1. Total(remaining') = Net(remaining', Id) /\ Total(remaining) = Net(remaining, Id)
    BY <1>4, TotalIs
  <2>2. \A i \in Id : remaining'[i] = IF i \in S THEN remaining[i] - f[i] ELSE remaining[i]
    BY <1>7
  <2> HIDE DEF S
  <2>3. Net(remaining', Id) = Net(remaining, Id) - Net(f, S)
    BY <1>4, <1>5, <1>8, <2>2, IdFinite, NetLess
  <2> QED
    BY <1>8, <2>1, <2>3
<1>10. 0 < Total(remaining) /\ amount <= Total(remaining)
  <2>1. Net(avail, S) >= amount
    BY <1>0, <1>1 DEF SessionOK
  <2> HIDE DEF avail, S, amount
  <2>2. Net(avail, S) = Net(remaining, S)
    BY <1>6, NetSame
  <2>3. \A i \in Id : remaining[i] \in Int /\ remaining[i] >= 0
    BY <1>0, <1>4 DEF PoolsNeverOverdrawn
  <2>4. Net(remaining, S) <= Net(remaining, Id) /\ Total(remaining) = Net(remaining, Id)
    BY <1>4, <1>5, <2>3, IdFinite, NetMonotone, TotalIs
  <2>5. PICK x \in S : TRUE
    BY <1>5
  <2>6. /\ Net(remaining, S) = remaining[x] + Net(remaining, S \ {x})
        /\ 0 <= Net(remaining, S \ {x}) /\ remaining[x] > 0
        /\ Net(remaining, S \ {x}) \in Int /\ remaining[x] \in Int
    <3>1. \A i \in S : remaining[i] \in Int /\ remaining[i] >= 0
      BY <1>5, <2>3
    <3>2. IsFiniteSet(S \ {x}) /\ S \ {x} \in SUBSET S
      BY <1>5, FS_Subset
    <3> QED
      BY <1>5, <1>6, <2>5, <3>1, <3>2, NetSplit, NetMonotone, NetType
  <2>7. Net(remaining, S) \in Int /\ Net(remaining, S) > 0
    BY <2>6
  <2> QED
    BY <1>2, <1>4, <2>1, <2>2, <2>4, <2>7
<1>11. PICK x \in Id : BalanceLocked(r) = {x}
  <2>1. want[r] = {}
    BY <1>0, <1>1 DEF LocksOK
  <2>2. BalanceLocked(r) = BalanceRowsOf(r)
    BY <2>1 DEF BalanceLocked, BalanceRowsOf
  <2>3. PICK x \in BalanceLocked(r) : x \in Id
    BY <1>0, <1>1, <2>2 DEF SessionOK, BalanceLocked
  <2>4. BalanceLocked(r) = {x}
    BY <1>0, <2>2, <2>3 DEF SessionOK
  <2> QED
    BY <2>3, <2>4
<1>12. balances' = [i \in Id |-> IF i = x THEN balances[i] - amount ELSE balances[i]]
  BY <1>11 DEF CommitDebit
<1>13. Total(balances') = Total(balances) - amount
  <2>1. Total(balances') = Total(balances) - balances[x] + balances'[x]
    BY <1>4, <1>12, TotalChange
  <2>2. balances'[x] = balances[x] - amount /\ balances[x] \in Int
    BY <1>4, <1>12
  <2> HIDE DEF amount
  <2> QED
    BY <1>2, <1>4, <2>1, <2>2
<1>14. BalancesBacked'
  <2>1. x \in balanceRows
    <3>1. BalanceRow(x) \in held[r]
      BY <1>11 DEF BalanceLocked
    <3>2. BalanceRow(x).table = "balance" /\ BalanceRow(x).id = x
      BY DEF BalanceRow
    <3> QED
      BY <1>0, <3>1, <3>2 DEF LocksOK
  <2> QED
    BY <1>0, <1>1, <1>12, <2>1 DEF BalancesBacked
<1> HIDE DEF e, amount, S, avail
<1>15. /\ Total(remaining') = Total(remaining)
                               + (IF e.revertOf = 0 THEN Signed(e) ELSE 0)
       /\ Total(balances') = Total(balances) + Signed(e)
  BY <1>2, <1>3, <1>4, <1>9, <1>13
<1>16. BooksInv'
  BY <1>0, <1>1, <1>3, <1>14, <1>15, CommitKeepsBooks
<1> QED
  BY <1>9, <1>10, <1>16 DEF amount

LEMMA CommitRevertBooks ==
  ASSUME NEW r \in Request, BooksInv, CommitRevert(r)
  PROVE  BooksInv'
<1> DEFINE original == EntryOf(tail[r])
           e == NewEntry(r, original.kind, original.amount, TransactionID[tail[r]], tail[r])
           value == [i \in Id |-> seen[r][BalanceRow(i)] - original.amount]
<1>0. /\ LedgerInv /\ TypeOK /\ BornOK(r) /\ CallOK(r) /\ LocksOK(r)
      /\ LedgerInv' /\ TypeOK' /\ BalancesBacked
  BY CommitRevertInv DEF BooksInv, LedgerInv
<1>1. /\ pc[r] = "commit" /\ call[r].kind = "revert" /\ EndTx(r)
      /\ balanceRows' = balanceRows /\ remaining' = remaining
      /\ entries' = entries \cup {e} /\ SetBalance(BalanceLocked(r), value)
  BY DEF CommitRevert
<1>2. tail[r] \in Id /\ original \in Entry
  <2>1. original \in entries
    BY <1>0, <1>1 DEF CallOK, EntryOf, EntryIds
  <2> QED
    BY <1>0, <1>1, <2>1 DEF CallOK, EntryIds, TypeOK, Entry
<1>3. e \in Entry /\ e.id = born[r] /\ e.revertOf # 0
  <2>1. original.kind \in {"credit", "debit"} /\ original.amount \in Int
    BY <1>2 DEF Entry
  <2>2. born[r] \in Id /\ tail[r] # 0
    BY <1>0, <1>1, <1>2 DEF BornOK, TypeOK, Id
  <2> HIDE DEF original
  <2> QED
    BY <1>2, <2>1, <2>2, LedgerAssumption
       DEF NewEntry, PreviousHash, Entry, ZeroTime, Genesis, Id
<1>4. ~NoReverts
  BY <1>0, <1>1 DEF CallOK
<1> HIDE DEF e, value, original
<1>5. BalancesBacked'
  <2>1. \A i \in BalanceLocked(r) : i \in balanceRows
    BY <1>0 DEF LocksOK, BalanceLocked, BalanceRow
  <2>2. \A i \in Id : i \notin BalanceLocked(r) => balances'[i] = balances[i]
    BY <1>1 DEF SetBalance
  <2> QED
    BY <1>0, <1>1, <2>1, <2>2 DEF BalancesBacked
<1>6. Total(remaining') = Total(remaining) + 0
  <2>1. Total(remaining) \in Int
    BY <1>0, IdFinite, TotalIs, NetType DEF TypeOK
  <2> QED
    BY <1>1, <2>1
<1> QED
  BY <1>0, <1>1, <1>3, <1>4, <1>5, <1>6, CommitKeepsBooks

LEMMA BooksNext == BooksInv /\ [Next]_vars => BooksInv'
<1>1. ASSUME BooksInv, NEW r \in Request, Receive(r) \/ Step(r) \/ Abort(r)
      PROVE  BooksInv'
  BY <1>1, ReceiveBooks, LockBooks, FindsBooks, FindBalanceBooks, WriteBooks,
     CommitCreditBooks, CommitDebitBooks, CommitRevertBooks, RollbackBooks
     DEF Step, Abort
<1>2. ASSUME BooksInv, UNCHANGED vars
      PROVE  BooksInv'
  <2>1. LedgerInv'
    BY <1>2, NextInv DEF BooksInv
  <2>2. UNCHANGED <<pc, call, want, held, seen>> /\ UNCHANGED tables
    BY <1>2 DEF vars, session
  <2>3. \A q \in Request : SessionOK(q)'
    BY <1>2, <2>2, SessionKeeps DEF BooksInv
  <2>4. IsFiniteSet(entries)' /\ BalancesBacked' /\ EntriesExplainPools' /\ BooksAgree'
    BY <1>2, <2>2
       DEF BooksInv, BalancesBacked, EntriesExplainPools, BooksAgree, NoReverts, tables
  <2> QED
    BY <2>1, <2>3, <2>4 DEF BooksInv
<1> QED
  BY <1>1, <1>2 DEF Next, Refuse, Rest

\* BooksInv holds in every reachable state.
THEOREM BooksInvariant == Spec => []BooksInv
  BY BooksInit, BooksNext, PTL DEF Spec

\* What the pools hold is what AddEntry's entries say, whatever the
\* interleaving of credits, debits and reverts and whichever die on the way.
THEOREM EntriesExplainPoolsAlways == Spec => []EntriesExplainPools
<1>1. BooksInv => EntriesExplainPools
  BY DEF BooksInv
<1> QED
  BY <1>1, BooksInvariant, PTL

\* Without reverts the balances add up to the pools, even when two first
\* credits each insert a balance row.
THEOREM BooksAlwaysAgree == Spec => []BooksAgree
<1>1. BooksInv => BooksAgree
  BY DEF BooksInv
<1> QED
  BY <1>1, BooksInvariant, PTL

----------------------------------------------------------------------------
\* Each step of the ledger is a step of the account, or leaves it alone.
LEMMA AccountStep ==
  BooksInv /\ [Next]_vars => [Account!Next]_(Total(remaining))
<1> SUFFICES ASSUME BooksInv, [Next]_vars
             PROVE  \/ Account!Next
                    \/ Total(remaining') = Total(remaining)
  OBVIOUS
<1> DEFINE Amount == UNION {{c.amount : c \in Calls[r]} : r \in Request}
<1>0. TypeOK
  BY DEF BooksInv, LedgerInv
<1>1. ASSUME NEW r \in Request, pc[r] = "commit"
      PROVE  call[r].amount \in Amount
  <2>1. call[r] \in Calls[r]
    BY <1>1 DEF BooksInv, SessionOK
  <2>2. call[r].amount \in {c.amount : c \in Calls[r]}
    BY <2>1
  <2> QED
    BY <2>2
<1>2. ASSUME NEW r \in Request, CommitCredit(r)
      PROVE  Account!Next
  <2> DEFINE a == call[r].amount
  <2>0. pc[r] = "commit" /\ call[r].kind = "credit"
    BY <1>2 DEF CommitCredit
  <2>1. a \in Amount
    BY <1>1, <2>0
  <2>2. a > 0 /\ a \in Int /\ born[r] \in Id /\ remaining[born[r]] = 0
    BY <1>0, <2>0 DEF BooksInv, LedgerInv, CallOK, BornOK, RowsOK, TypeOK, CallRec
  <2>3. remaining' = [remaining EXCEPT ![born[r]] = a]
    BY <1>2 DEF CommitCredit
  <2>4. Total(remaining') = Total(remaining) + a
    <3>1. remaining \in [Id -> Int] /\ remaining' \in [Id -> Int]
      BY <1>0, <2>2, <2>3 DEF TypeOK
    <3>2. /\ remaining'[born[r]] = a
          /\ \A i \in Id : i # born[r] => remaining'[i] = remaining[i]
      BY <2>2, <2>3, <3>1
    <3> HIDE DEF a
    <3>3. Total(remaining') = Total(remaining) - 0 + a
      BY <2>2, <3>1, <3>2, TotalChange
    <3>4. Total(remaining) \in Int
      BY <3>1, IdFinite, TotalIs, NetType
    <3> QED
      BY <2>2, <3>3, <3>4
  <2>5. Account!Credit(a)
    BY <2>2, <2>4 DEF Account!Credit
  <2> QED
    BY <2>1, <2>5 DEF Account!Next
<1>3. ASSUME NEW r \in Request, CommitDebit(r)
      PROVE  Account!Next
  <2>1. pc[r] = "commit"
    BY <1>3 DEF CommitDebit
  <2>2. call[r].amount \in Amount
    BY <1>1, <2>1
  <2>3. Account!Debit(call[r].amount)
    BY <1>3, CommitDebitBooks DEF Account!Debit
  <2> QED
    BY <2>2, <2>3 DEF Account!Next
<1>4. ASSUME NEW r \in Request, Receive(r) \/ Step(r) \/ Abort(r),
             ~CommitCredit(r), ~CommitDebit(r)
      PROVE  remaining' = remaining
  BY <1>4 DEF Receive, Step, Abort, Lock, GetLastEntry, FindOriginal, FindPools,
              FindBalance, Write, CommitRevert, Rollback, tables
<1>5. ASSUME UNCHANGED vars
      PROVE  remaining' = remaining
  BY <1>5 DEF vars, tables
<1> QED
  BY <1>2, <1>3, <1>4, <1>5 DEF Next, Refuse, Rest, Step

\* The ledger, with its locks, its hash chain and its two books, implements an
\* account that is credited and debited one amount at a time and that no debit
\* overdraws.
THEOREM LedgerIsAccount == Spec => AccountSpec
<1>1. Init => Account!Init
  <2> SUFFICES ASSUME Init PROVE Total(remaining) = 0
    BY DEF Account!Init
  <2>1. remaining \in [Id -> Int] /\ \A i \in Id : remaining[i] = 0
    BY DEF Init
  <2> QED
    BY <2>1, TotalIs, NetZero
<1> QED
  BY <1>1, AccountStep, BooksInvariant, PTL DEF Spec, AccountSpec, Account!Spec

----------------------------------------------------------------------------
\* One client that waits for each answer: a single handler.
OneHandler == \E r \in Request : Request = {r}

\* Where the transaction of the only handler stands with respect to the tables.
AloneOK(r) ==
  /\ born[r] # 0 => born[r] = clock
  /\ pc[r] \in {"idle", "tail"} => tail[r] = Genesis
  /\ pc[r] # "idle" /\ call[r].kind # "revert"
        => \A e \in entries : e.ref = call[r].ref => e.ref = FreshRef \/ e.ref \in unchecked
  /\ pc[r] \in {"write", "commit"} /\ call[r].kind = "credit"
        /\ BalanceRowsOf(r) = {} => balanceRows = {}
  /\ pc[r] \notin {"idle", "tail"} /\ call[r].kind # "revert"
        => /\ \A i \in EntryIds : i <= tail[r]
           /\ tail[r] \in EntryIds \cup {Genesis}
  /\ pc[r] \in {"balance", "write", "commit"} /\ call[r].kind = "debit"
        => \A i \in Id : remaining[i] > 0 => PoolRow(i) \in held[r] \cup want[r]

AloneInv ==
  /\ LedgerInv
  /\ \A r \in Request : AloneOK(r)
  /\ ReferenceOnce
  /\ \A i, j \in balanceRows : i = j
  /\ ChainLinear

LEMMA AloneInit == Init => AloneInv
<1> SUFFICES ASSUME Init PROVE AloneInv
  OBVIOUS
<1> USE DEF Init
<1>1. \A r \in Request : AloneOK(r)
  BY DEF AloneOK
<1>2. ReferenceOnce /\ (\A i, j \in balanceRows : i = j) /\ ChainLinear
  BY DEF ReferenceOnce, ChainLinear
<1> QED
  BY <1>1, <1>2, InitInv DEF AloneInv

\* A statement of the only handler that writes no row.
LEMMA StatementKeepsAlone ==
  ASSUME NEW r \in Request, Request = {r}, AloneInv, LedgerInv', UNCHANGED tables,
         unchecked \subseteq unchecked', AloneOK(r)'
  PROVE  AloneInv'
<1>1. EntryIds' = EntryIds
  BY DEF EntryIds, tables
<1>2. ReferenceOnce' /\ (\A i, j \in balanceRows : i = j)'
  BY DEF AloneInv, ReferenceOnce, tables
<1>3. ChainLinear'
  BY <1>1 DEF AloneInv, ChainLinear, tables
<1>4. \A q \in Request : AloneOK(q)'
  OBVIOUS
<1> QED
  BY <1>2, <1>3, <1>4 DEF AloneInv

LEMMA EndTxAlone ==
  ASSUME NEW r \in Request, TypeOK, EndTx(r)
  PROVE  AloneOK(r)'
<1>1. pc'[r] = "idle" /\ born'[r] = 0 /\ tail'[r] = Genesis
  BY DEF EndTx, TypeOK
<1> QED
  BY <1>1 DEF AloneOK

LEMMA RollbackAlone ==
  ASSUME NEW r \in Request, Request = {r}, AloneInv, Rollback(r)
  PROVE  AloneInv'
<1>1. LedgerInv /\ TypeOK
  BY DEF AloneInv, LedgerInv
<1>2. LedgerInv' /\ EndTx(r) /\ UNCHANGED tables /\ unchecked' = unchecked
  BY <1>1, RollbackInv DEF Rollback
<1> QED
  BY <1>1, <1>2, EndTxAlone, StatementKeepsAlone

LEMMA ReceiveAlone ==
  ASSUME NEW r \in Request, Request = {r}, AloneInv, Receive(r)
  PROVE  AloneInv'
<1>0. LedgerInv /\ TypeOK /\ LedgerInv' /\ AloneOK(r)
  BY ReceiveInv DEF AloneInv, LedgerInv
<1>1. PICK c \in Calls[r] :
         /\ call' = [call EXCEPT ![r] = c]
         /\ \/ (c.kind = "revert" \/ ~ReferenceUsed(c.ref)) /\ UNCHANGED unchecked
            \/ unchecked' = unchecked \cup {c.ref}
  BY DEF Receive
<1>2. /\ pc[r] = "idle" /\ pc'[r] = "tail" /\ call'[r] = c
      /\ UNCHANGED <<tables, clock, tail, want, held, seen, born>>
  BY <1>0, <1>1 DEF Receive, TypeOK
<1>3. /\ unchecked \subseteq unchecked'
      /\ c.kind # "revert" => \A e \in entries :
            e.ref = c.ref => e.ref = FreshRef \/ e.ref \in unchecked'
  BY <1>1 DEF ReferenceUsed
<1>4. AloneOK(r)'
  BY <1>0, <1>2, <1>3 DEF AloneOK, tables
<1> QED
  BY <1>0, <1>2, <1>3, <1>4, StatementKeepsAlone

LEMMA GetLastEntryAlone ==
  ASSUME NEW r \in Request, Request = {r}, AloneInv, GetLastEntry(r)
  PROVE  AloneInv'
<1>0. LedgerInv /\ TypeOK /\ LedgerInv' /\ AloneOK(r) /\ LocksOK(r) /\ CallOK(r)
  BY GetLastEntryInv DEF AloneInv, LedgerInv
<1> DEFINE next == IF call[r].kind = "debit" THEN "pools" ELSE "balance"
<1>1. /\ pc[r] = "tail" /\ call[r].kind # "revert"
      /\ pc' = [pc EXCEPT ![r] = next]
      /\ UNCHANGED <<tables, clock, unchecked, call, held, seen, born>>
  BY DEF GetLastEntry, Select
<1>2. pc'[r] = next
  BY <1>0, <1>1 DEF TypeOK
<1>3. EntryIds' = EntryIds
  BY <1>1 DEF EntryIds, tables
<1>4. (\A i \in EntryIds : i <= tail'[r]) /\ tail'[r] \in EntryIds \cup {Genesis}
  <2>1. CASE entries = {} /\ UNCHANGED tail
    <3>1. EntryIds = {}
      BY <2>1 DEF EntryIds
    <3>2. tail[r] = Genesis
      BY <1>0, <1>1 DEF AloneOK
    <3> QED
      BY <2>1, <3>1, <3>2
  <2>2. ASSUME NEW i \in EntryIds, \A j \in EntryIds : j <= i,
               tail' = [tail EXCEPT ![r] = i]
        PROVE  (\A j \in EntryIds : j <= tail'[r]) /\ tail'[r] \in EntryIds \cup {Genesis}
    BY <1>0, <2>2 DEF TypeOK
  <2> QED
    BY <2>1, <2>2 DEF GetLastEntry
<1>5. AloneOK(r)'
  <2>1. (pc[r] # "idle" /\ call[r].kind # "revert"
          => \A e \in entries : e.ref = call[r].ref => e.ref = FreshRef \/ e.ref \in unchecked)'
    BY <1>0, <1>1 DEF AloneOK, tables
  <2>2. next \in {"pools", "balance"} /\ (next = "balance" => call[r].kind # "debit")
    OBVIOUS
  <2> HIDE DEF next
  <2> QED
    BY <1>0, <1>1, <1>2, <1>3, <1>4, <2>1, <2>2 DEF AloneOK
<1> QED
  BY <1>0, <1>1, <1>5, StatementKeepsAlone

LEMMA FindOriginalAlone ==
  ASSUME NEW r \in Request, Request = {r}, AloneInv, FindOriginal(r)
  PROVE  AloneInv'
<1>1. CASE Rollback(r)
  BY <1>1, RollbackAlone
<1>2. CASE ~Rollback(r)
  <2>0. LedgerInv /\ TypeOK /\ LedgerInv' /\ AloneOK(r)
    BY FindOriginalInv DEF AloneInv, LedgerInv
  <2>1. /\ pc[r] = "tail" /\ call[r].kind = "revert"
        /\ pc' = [pc EXCEPT ![r] = "balance"]
        /\ UNCHANGED <<tables, clock, unchecked, call, held, seen, born>>
    BY <1>2 DEF FindOriginal, Select
  <2>2. pc'[r] = "balance"
    BY <2>0, <2>1 DEF TypeOK
  <2>3. AloneOK(r)'
    BY <2>0, <2>1, <2>2 DEF AloneOK
  <2> QED
    BY <2>0, <2>1, <2>3, StatementKeepsAlone
<1> QED
  BY <1>1, <1>2

LEMMA FindPoolsAlone ==
  ASSUME NEW r \in Request, Request = {r}, AloneInv, FindPools(r)
  PROVE  AloneInv'
<1>1. CASE Rollback(r)
  BY <1>1, RollbackAlone
<1>2. CASE ~Rollback(r)
  <2>0. LedgerInv /\ TypeOK /\ LedgerInv' /\ AloneOK(r) /\ CallOK(r)
    BY FindPoolsInv DEF AloneInv, LedgerInv
  <2> DEFINE rows == {PoolRow(i) : i \in {j \in Id : remaining[j] > 0}}
  <2>1. /\ pc[r] = "pools" /\ call[r].kind = "debit"
        /\ want' = [want EXCEPT ![r] = rows]
        /\ pc' = [pc EXCEPT ![r] = "balance"]
        /\ UNCHANGED <<tables, clock, unchecked, call, tail, held, seen, born>>
    BY <1>2, <2>0 DEF FindPools, Select, CallOK
  <2>2. pc'[r] = "balance" /\ want'[r] = rows
    BY <2>0, <2>1 DEF TypeOK
  <2>3. EntryIds' = EntryIds
    BY <2>1 DEF EntryIds, tables
  <2>4. \A i \in Id : remaining'[i] > 0 => PoolRow(i) \in held'[r] \cup want'[r]
    BY <2>1, <2>2 DEF tables
  <2>5. (\A e \in entries : e.ref = call[r].ref => e.ref = FreshRef \/ e.ref \in unchecked)'
    BY <2>0, <2>1 DEF AloneOK, tables
  <2>6. AloneOK(r)'
    BY <2>0, <2>1, <2>2, <2>3, <2>4, <2>5 DEF AloneOK
  <2> QED
    BY <2>0, <2>1, <2>6, StatementKeepsAlone
<1> QED
  BY <1>1, <1>2

LEMMA FindBalanceAlone ==
  ASSUME NEW r \in Request, Request = {r}, AloneInv, FindBalance(r)
  PROVE  AloneInv'
<1>1. CASE Rollback(r)
  BY <1>1, RollbackAlone
<1>2. CASE ~Rollback(r)
  <2>0. LedgerInv /\ TypeOK /\ LedgerInv' /\ AloneOK(r)
    BY FindBalanceInv DEF AloneInv, LedgerInv
  <2>1. PICK rows :
           /\ want' = [want EXCEPT ![r] = rows]
           /\ \/ balanceRows = {}
              \/ \E i \in balanceRows : rows = {BalanceRow(i)}
    BY <1>2 DEF FindBalance, Select
  <2>2. /\ pc[r] = "balance" /\ want[r] = {}
        /\ pc' = [pc EXCEPT ![r] = "write"]
        /\ UNCHANGED <<tables, clock, unchecked, call, tail, held, seen, born>>
    BY <1>2 DEF FindBalance, Select
  <2>3. want'[r] = rows /\ pc'[r] = "write"
    BY <2>0, <2>1, <2>2 DEF TypeOK
  <2>4. BalanceRowsOf(r)' = {} => balanceRows = {}
    <3> SUFFICES ASSUME NEW i \in balanceRows, rows = {BalanceRow(i)}
                 PROVE  BalanceRowsOf(r)' # {}
      BY <2>1
    <3>1. i \in Id
      BY <2>0 DEF TypeOK
    <3> QED
      BY <2>3, <3>1 DEF BalanceRowsOf
  <2>5. EntryIds' = EntryIds
    BY <2>2 DEF EntryIds, tables
  <2>6. (call[r].kind # "revert"
           => \A e \in entries : e.ref = call[r].ref => e.ref = FreshRef \/ e.ref \in unchecked)'
    BY <2>0, <2>2 DEF AloneOK, tables
  <2>7. call[r].kind = "debit" =>
           \A i \in Id : remaining'[i] > 0 => PoolRow(i) \in held'[r] \cup want'[r]
    BY <2>0, <2>2 DEF AloneOK, tables
  <2>8. balanceRows' = balanceRows
    BY <2>2 DEF tables
  <2>9. AloneOK(r)'
    BY <2>0, <2>2, <2>3, <2>4, <2>5, <2>6, <2>7, <2>8 DEF AloneOK
  <2> QED
    BY <2>0, <2>2, <2>9, StatementKeepsAlone
<1> QED
  BY <1>1, <1>2

\* A statement after which the transaction has asked for the same rows.
LEMMA SameRowsAlone ==
  ASSUME NEW r \in Request, Request = {r}, AloneInv, LedgerInv',
         UNCHANGED <<tables, unchecked, call, tail>>,
         held'[r] \cup want'[r] = held[r] \cup want[r],
         pc'[r] = pc[r] \/ (pc[r] = "write" /\ pc'[r] = "commit"),
         born'[r] # 0 => born'[r] = clock'
  PROVE  AloneInv'
<1>0. AloneOK(r)
  BY DEF AloneInv
<1>1. BalanceRowsOf(r)' = BalanceRowsOf(r)
  BY DEF BalanceRowsOf
<1>2. EntryIds' = EntryIds /\ entries' = entries /\ balanceRows' = balanceRows
      /\ remaining' = remaining
  BY DEF EntryIds, tables
<1>3. AloneOK(r)'
  BY <1>0, <1>1, <1>2 DEF AloneOK
<1> QED
  BY <1>3, StatementKeepsAlone

LEMMA LockAlone ==
  ASSUME NEW r \in Request, Request = {r}, AloneInv, Lock(r)
  PROVE  AloneInv'
<1>0. LedgerInv /\ TypeOK /\ LedgerInv' /\ AloneOK(r)
  BY LockInv DEF AloneInv, LedgerInv
<1>1. PICK x \in want[r] :
         /\ want' = [want EXCEPT ![r] = @ \ {x}]
         /\ held' = [held EXCEPT ![r] = @ \cup {x}]
         /\ UNCHANGED <<tables, clock, unchecked, pc, call, tail, born>>
  BY DEF Lock
<1>2. held'[r] \cup want'[r] = held[r] \cup want[r]
  BY <1>0, <1>1 DEF TypeOK
<1> QED
  BY <1>0, <1>1, <1>2, SameRowsAlone DEF AloneOK

LEMMA WriteAlone ==
  ASSUME NEW r \in Request, Request = {r}, AloneInv, Write(r)
  PROVE  AloneInv'
<1>1. CASE Rollback(r)
  BY <1>1, RollbackAlone
<1>2. CASE ~Rollback(r)
  <2>0. LedgerInv /\ TypeOK /\ LedgerInv'
    BY WriteInv DEF AloneInv, LedgerInv
  <2>1. /\ pc[r] = "write" /\ pc'[r] = "commit" /\ born'[r] = clock'
        /\ UNCHANGED <<tables, unchecked, call, tail, want, held>>
    BY <1>2, <2>0 DEF Write, TypeOK
  <2> QED
    BY <2>0, <2>1, SameRowsAlone
<1> QED
  BY <1>1, <1>2

\* COMMIT of the only handler: its entry is the newest, continues the chain and
\* has a reference of its own.
LEMMA CommitAlone ==
  ASSUME NEW r \in Request, Request = {r}, AloneInv, LedgerInv', EndTx(r),
         pc[r] = "commit", clock' = clock, unchecked' = unchecked,
         NEW e, e.id = born[r], e.prev = tail[r], entries' = entries \cup {e},
         \/ e.revertOf # 0 /\ call[r].kind = "revert"
         \/ e.revertOf = 0 /\ call[r].kind # "revert" /\ e.ref = call[r].ref,
         \/ balanceRows' = balanceRows
         \/ balanceRows' = balanceRows \cup {born[r]} /\ balanceRows = {}
  PROVE  AloneInv'
<1>0. LedgerInv /\ TypeOK /\ RowsOK /\ BornOK(r) /\ CallOK(r) /\ AloneOK(r)
  BY DEF AloneInv, LedgerInv
<1>1. \A q \in Request : AloneOK(q)'
  BY <1>0, EndTxAlone
<1>5. born[r] \in Int /\ tail[r] \in Int /\ \A i \in EntryIds : i \in Int /\ i < born[r]
  <2>1. born[r] = clock /\ born[r] \in Id /\ born[r] \notin EntryIds
    BY <1>0 DEF AloneOK, BornOK, TypeOK
  <2>2. \A i \in EntryIds : i <= clock /\ i \in Id
    BY <1>0 DEF RowsOK, EntryIds, TypeOK, Entry
  <2> QED
    BY <1>0, <2>1, <2>2, LedgerAssumption DEF Id, TypeOK, Genesis
<1>2. ReferenceOnce'
  <2>1. \A f \in entries : f.ref = e.ref
          => e.revertOf # 0 \/ e.ref = FreshRef \/ e.ref \in unchecked
    BY <1>0 DEF AloneOK
  <2>2. \A f \in entries : f.id \in Int /\ f.id < e.id
    BY <1>5 DEF EntryIds
  <2> QED
    BY <1>5, <2>1, <2>2 DEF AloneInv, ReferenceOnce
<1>3. (\A i, j \in balanceRows : i = j)'
  BY DEF AloneInv
<1>4. ChainLinear'
  <2>1. EntryIds' = EntryIds \cup {born[r]}
    BY DEF EntryIds
  <2>2. tail[r] \in EntryIds \cup {Genesis} /\ tail[r] < born[r]
    <3>1. tail[r] \in EntryIds \cup {Genesis}
      BY <1>0 DEF AloneOK, CallOK
    <3>2. 0 < born[r]
      BY <1>0, LedgerAssumption DEF BornOK, TypeOK, Id
    <3> QED
      BY <1>5, <3>1, <3>2 DEF Genesis
  <2>3. e.revertOf = 0 => \A f \in entries : ~(tail[r] < f.id)
    <3>1. call[r].kind # "revert" => \A i \in EntryIds : i <= tail[r]
      BY <1>0 DEF AloneOK
    <3> QED
      BY <1>5, <3>1 DEF EntryIds
  <2>4. ASSUME NEW x \in entries'
        PROVE  /\ x.prev \in EntryIds' \cup {Genesis} /\ x.prev < x.id
               /\ x.revertOf = 0
                     => \A f \in entries' : ~(x.prev < f.id /\ f.id < x.id)
    <3>1. CASE x = e
      BY <1>5, <2>1, <2>2, <2>3, <3>1
    <3>2. CASE x \in entries
      <4>1. /\ x.prev \in EntryIds \cup {Genesis} /\ x.prev < x.id
            /\ x.revertOf = 0
                  => \A f \in entries : ~(x.prev < f.id /\ f.id < x.id)
        BY <3>2 DEF AloneInv, ChainLinear
      <4>2. x.id \in Int /\ x.id < born[r]
        BY <1>5, <3>2 DEF EntryIds
      <4> QED
        BY <1>5, <2>1, <4>1, <4>2
    <3> QED
      BY <3>1, <3>2
  <2> QED
    BY <2>4 DEF ChainLinear
<1> QED
  BY <1>1, <1>2, <1>3, <1>4 DEF AloneInv

LEMMA CommitsAlone ==
  ASSUME NEW r \in Request, Request = {r}, AloneInv,
         CommitCredit(r) \/ CommitDebit(r) \/ CommitRevert(r)
  PROVE  AloneInv'
<1>0. LedgerInv /\ TypeOK /\ LocksOK(r) /\ CallOK(r) /\ AloneOK(r)
  BY DEF AloneInv, LedgerInv
<1>1. CASE CommitCredit(r)
  <2> DEFINE e == NewEntry(r, "credit", call[r].amount, call[r].ref, 0)
  <2>1. /\ pc[r] = "commit" /\ EndTx(r) /\ clock' = clock /\ unchecked' = unchecked
        /\ call[r].kind = "credit"
        /\ entries' = entries \cup {e} /\ LedgerInv'
    BY <1>0, <1>1, CommitCreditInv DEF CommitCredit
  <2>2. e.id = born[r] /\ e.prev = tail[r] /\ e.ref = call[r].ref /\ e.revertOf = 0
    BY DEF NewEntry, PreviousHash
  <2>3. \/ balanceRows' = balanceRows
        \/ balanceRows' = balanceRows \cup {born[r]} /\ balanceRows = {}
    <3>1. want[r] = {}
      BY <1>0, <2>1 DEF LocksOK
    <3>2. BalanceLocked(r) = BalanceRowsOf(r)
      BY <3>1 DEF BalanceLocked, BalanceRowsOf
    <3>3. BalanceLocked(r) = {} => balanceRows = {}
      BY <1>0, <2>1, <3>2 DEF AloneOK
    <3> QED
      BY <1>1, <3>3 DEF CommitCredit
  <2> HIDE DEF e
  <2> QED
    BY <2>1, <2>2, <2>3, CommitAlone
<1>2. CASE CommitDebit(r)
  <2> DEFINE e == NewEntry(r, "debit", call[r].amount, call[r].ref, 0)
  <2>1. /\ pc[r] = "commit" /\ EndTx(r) /\ clock' = clock /\ unchecked' = unchecked
        /\ call[r].kind = "debit"
        /\ entries' = entries \cup {e} /\ LedgerInv' /\ balanceRows' = balanceRows
    BY <1>0, <1>2, CommitDebitInv DEF CommitDebit
  <2>2. e.id = born[r] /\ e.prev = tail[r] /\ e.ref = call[r].ref /\ e.revertOf = 0
    BY DEF NewEntry, PreviousHash
  <2> HIDE DEF e
  <2> QED
    BY <2>1, <2>2, CommitAlone
<1>3. CASE CommitRevert(r)
  <2> DEFINE o == EntryOf(tail[r])
             e == NewEntry(r, o.kind, o.amount, TransactionID[tail[r]], tail[r])
  <2>1. /\ pc[r] = "commit" /\ EndTx(r) /\ clock' = clock /\ unchecked' = unchecked
        /\ call[r].kind = "revert"
        /\ entries' = entries \cup {e} /\ LedgerInv' /\ balanceRows' = balanceRows
    BY <1>0, <1>3, CommitRevertInv DEF CommitRevert
  <2>2. e.id = born[r] /\ e.prev = tail[r] /\ e.revertOf = tail[r]
    BY DEF NewEntry, PreviousHash
  <2>3. tail[r] # 0
    BY <1>0, <2>1 DEF CallOK, EntryIds, TypeOK, Entry, Id
  <2> HIDE DEF e, o
  <2> QED
    BY <2>1, <2>2, <2>3, CommitAlone
<1> QED
  BY <1>1, <1>2, <1>3

LEMMA AloneNext == OneHandler /\ AloneInv /\ [Next]_vars => AloneInv'
<1>1. ASSUME OneHandler, AloneInv, NEW r \in Request,
             Receive(r) \/ Step(r) \/ Abort(r)
      PROVE  AloneInv'
  <2>1. Request = {r}
    BY <1>1 DEF OneHandler
  <2> QED
    BY <1>1, <2>1, ReceiveAlone, LockAlone, GetLastEntryAlone, FindOriginalAlone,
       FindPoolsAlone, FindBalanceAlone, WriteAlone, CommitsAlone, RollbackAlone
       DEF Step, Abort
<1>2. ASSUME OneHandler, AloneInv, UNCHANGED vars
      PROVE  AloneInv'
  <2>1. LedgerInv'
    BY <1>2, NextInv DEF AloneInv
  <2>2. PICK r \in Request : Request = {r}
    BY <1>2 DEF OneHandler
  <2>3. UNCHANGED <<tables, unchecked, call, tail, pc, want, held, born, clock>>
    BY <1>2 DEF vars, session
  <2>4. born'[r] # 0 => born'[r] = clock'
    BY <1>2, <2>2, <2>3 DEF AloneInv, AloneOK
  <2> QED
    BY <1>2, <2>1, <2>2, <2>3, <2>4, SameRowsAlone
<1> QED
  BY <1>1, <1>2 DEF Next, Refuse, Rest

\* AloneInv holds in every state that one handler at a time can reach.
THEOREM AloneInvariant == OneHandler /\ Spec => []AloneInv
<1> SUFFICES ASSUME OneHandler PROVE Spec => []AloneInv
  OBVIOUS
<1>1. AloneInv /\ [Next]_vars => AloneInv'
  BY AloneNext
<1> QED
  BY <1>1, AloneInit, PTL DEF Spec

\* A client that waits for each answer, and tries again, has a reference booked
\* twice only by a revert or by a call whose look-up failed.
THEOREM ReferenceUsedOnce == OneHandler /\ Spec => []ReferenceOnce
<1>1. AloneInv => ReferenceOnce
  BY DEF AloneInv
<1> QED
  BY <1>1, AloneInvariant, PTL

\* One transaction after the other, the first credit alone inserts a balance row.
THEOREM SingleBalanceRow == OneHandler /\ Spec => []OneBalanceRow
<1>1. AloneInv => OneBalanceRow
  <2> SUFFICES ASSUME \A i, j \in balanceRows : i = j PROVE OneBalanceRow
    BY DEF AloneInv
  <2>1. CASE balanceRows = {}
    BY <2>1, FS_EmptySet DEF OneBalanceRow
  <2>2. CASE balanceRows # {}
    <3>1. PICK i \in balanceRows : balanceRows = {i}
      BY <2>2
    <3>2. Cardinality({i}) = 1
      BY FS_Singleton
    <3> QED
      BY <3>1, <3>2 DEF OneBalanceRow
  <2> QED
    BY <2>1, <2>2
<1> QED
  BY <1>1, AloneInvariant, PTL

\* The hash chain one handler writes never forks at an entry of AddEntry.
THEOREM ChainIsLine == OneHandler /\ Spec => []ChainLinear
<1>1. AloneInv => ChainLinear
  BY DEF AloneInv
<1> QED
  BY <1>1, AloneInvariant, PTL

\* The debit of the only handler draws a pool only after it has drained every
\* older one.
LEMMA DebitOldestFirst ==
  ASSUME NEW r \in Request, AloneInv, CommitDebit(r), NEW i \in Id, NEW j \in Id,
         j < i, remaining'[i] < remaining[i]
  PROVE  remaining'[j] = 0
<1> DEFINE amount == call[r].amount
           avail == [k \in Id |-> seen[r][PoolRow(k)]]
           S == PoolsRead(r)
<1>0. /\ LedgerInv /\ TypeOK /\ PoolsNeverOverdrawn /\ AloneOK(r) /\ LocksOK(r)
      /\ amount \in Int
  BY DEF AloneInv, LedgerInv, TypeOK, CallRec
<1>1. PICK f \in Allocations(avail, S, amount) :
         remaining' = [k \in Id |-> IF k \in S THEN remaining[k] - f[k]
                                    ELSE remaining[k]]
  BY DEF CommitDebit
<1>2. /\ pc[r] = "commit" /\ call[r].kind = "debit" /\ want[r] = {}
  BY <1>0 DEF CommitDebit, LocksOK
<1>3. \A k \in Id : remaining[k] \in Int /\ remaining[k] >= 0
  BY <1>0 DEF TypeOK, PoolsNeverOverdrawn
<1>4. i \in S /\ f[i] > 0 /\ amount > 0
  <2>1. i \in S /\ remaining[i] - f[i] < remaining[i]
    BY <1>1, <1>3
  <2>2. amount > 0
    <3> SUFFICES ASSUME amount <= 0 PROVE FALSE
      BY <1>0
    <3>1. f = [k \in S |-> IF \A l \in S \ {k} : OldestFirst(k, l) THEN amount ELSE 0]
      BY <1>1 DEF Allocations
    <3>2. f[i] \in {amount, 0}
      BY <2>1, <3>1
    <3> HIDE DEF amount
    <3> QED
      BY <1>0, <1>3, <2>1, <3>2
  <2>3. f[i] \in Int
    BY <1>0, <1>1, <2>1, <2>2 DEF Allocations
  <2> QED
    BY <1>3, <2>1, <2>2, <2>3
<1>5. CASE j \in S
  <2>1. f[j] = avail[j]
    <3> HIDE DEF avail, S, amount
    <3>1. ~(amount <= 0)
      BY <1>0, <1>4
    <3>2. \A a, b \in S : OldestFirst(b, a) /\ f[a] > 0 => f[b] = avail[b]
      BY <1>1, <3>1 DEF Allocations
    <3> QED
      BY <1>4, <1>5, <3>2 DEF OldestFirst
  <2>2. avail[j] = remaining[j]
    BY <1>0, <1>5, SeenIsCurrent
  <2>3. remaining'[j] = remaining[j] - f[j]
    BY <1>1, <1>5
  <2> QED
    BY <1>3, <2>1, <2>2, <2>3
<1>6. CASE j \notin S
  <2>1. remaining[j] = 0
    <3> SUFFICES ASSUME remaining[j] > 0 PROVE FALSE
      BY <1>3
    <3>1. PoolRow(j) \in held[r]
      BY <1>0, <1>2 DEF AloneOK
    <3>2. seen[r][PoolRow(j)] = remaining[j]
      BY <1>0, <3>1 DEF LedgerInv, ReadsStayCurrent, PoolRow
    <3> QED
      BY <1>6, <3>2 DEF PoolsRead
  <2>2. remaining'[j] = remaining[j]
    BY <1>1, <1>6
  <2> QED
    BY <2>1, <2>2
<1> QED
  BY <1>5, <1>6

\* One after the other, debits spend the oldest points first.
THEOREM OldestSpentFirst == OneHandler /\ Spec => OldestPointsFirst
<1> DEFINE A == \A i, j \in Id :
                   j < i /\ remaining'[i] < remaining[i] => remaining'[j] = 0
<1>1. AloneInv /\ [Next]_vars => [A]_vars
  <2> SUFFICES ASSUME AloneInv, Next, NEW i \in Id, NEW j \in Id,
                      j < i, remaining'[i] < remaining[i]
               PROVE  remaining'[j] = 0
    OBVIOUS
  <2>0. /\ \A k \in Id : remaining[k] \in Int
        /\ LedgerInv /\ TypeOK
    BY DEF AloneInv, LedgerInv, TypeOK
  <2>1. ASSUME remaining' = remaining
        PROVE  FALSE
    BY <2>0, <2>1
  <2>2. ASSUME NEW r \in Request, CommitCredit(r)
        PROVE  FALSE
    <3>1. /\ remaining' = [remaining EXCEPT ![born[r]] = call[r].amount]
          /\ pc[r] = "commit" /\ call[r].kind = "credit"
      BY <2>2 DEF CommitCredit
    <3>2. /\ call[r].amount > 0 /\ call[r].amount \in Int
          /\ born[r] \in Id /\ remaining[born[r]] = 0
      BY <2>0, <3>1 DEF LedgerInv, CallOK, BornOK, RowsOK, TypeOK, CallRec
    <3>3. remaining'[i] = IF i = born[r] THEN call[r].amount ELSE remaining[i]
      BY <2>0, <3>1 DEF TypeOK
    <3> QED
      BY <2>0, <3>2, <3>3
  <2>3. ASSUME NEW r \in Request, CommitDebit(r)
        PROVE  remaining'[j] = 0
    BY <2>3, DebitOldestFirst
  <2>4. ASSUME NEW r \in Request, Receive(r) \/ Step(r) \/ Abort(r),
               ~CommitCredit(r), ~CommitDebit(r)
        PROVE  remaining' = remaining
    BY <2>4 DEF Receive, Step, Abort, Lock, GetLastEntry, FindOriginal, FindPools,
                FindBalance, Write, CommitRevert, Rollback, tables
  <2>5. ASSUME UNCHANGED vars
        PROVE  remaining' = remaining
    BY <2>5 DEF vars, tables
  <2> QED
    BY <2>1, <2>2, <2>3, <2>4, <2>5 DEF Next, Refuse, Rest, Step
<1> QED
  BY <1>1, AloneInvariant, PTL DEF Spec, OldestPointsFirst
=============================================================================
