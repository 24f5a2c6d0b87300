-------------------------- MODULE PointInTimeProofs --------------------------
(***************************************************************************)
(* Proofs about PointInTime, for any finite set of transactions, any       *)
(* contents and any age: the two replays compute what the rows they may    *)
(* know amount to, and agree where the online contract says they do.       *)
(***************************************************************************)
EXTENDS PointInTime, FiniteSetTheorems, WellFoundedInduction, TLAPS

---------------------------------------------------------------------------
\* Among sets of subsets of a finite set there is a smallest. A claim about all
\* subsets that fails for one fails for one whose own subsets satisfy it: this
\* stands for induction in what follows.
LEMMA SmallestSubset ==
    ASSUME NEW T, IsFiniteSet(T), NEW P, P \subseteq SUBSET T, P # {}
    PROVE  \E s \in P : \A q \in P : q \subseteq s => q = s
<1>1. IsWellFoundedOn(StrictSubsetOrdering(T), SUBSET T)
  BY FS_StrictSubsetOrderingWellFounded, FS_FiniteSubsetsOfFinite
<1>2. PICK s \in P : \A q \in P : ~ (<<q, s>> \in StrictSubsetOrdering(T))
  BY <1>1, WFMin
<1>3. \A q \in P : q \subseteq s => q = s
  BY <1>2 DEF StrictSubsetOrdering
<1> QED BY <1>3

\* G sums f over every subset of T.
Additive(G, f, T) ==
    /\ G \in [SUBSET T -> Nat]
    /\ G[{}] = 0
    /\ \A s \in SUBSET T : \A x \in T \ s : G[s \cup {x}] = G[s] + f[x]

\* Numbers can be summed over the subsets of a finite set.
LEMMA AdditiveExists ==
    ASSUME NEW T, IsFiniteSet(T), NEW f \in [T -> Nat]
    PROVE  \E G : Additive(G, f, T)
<1> DEFINE P == {s \in SUBSET T : ~ \E G : Additive(G, f, s)}
<1> SUFFICES P = {}
  OBVIOUS
<1> SUFFICES ASSUME P # {} PROVE FALSE
  OBVIOUS
<1>1. PICK s \in P : \A q \in P : q \subseteq s => q = s
  <2> HIDE DEF P
  <2>1. P \subseteq SUBSET T
    BY DEF P
  <2> QED BY <2>1, SmallestSubset
<1>2. s # {}
  <2>1. Additive([q \in SUBSET {} |-> 0], f, {})
    BY DEF Additive
  <2> QED BY <2>1
<1>3. PICK y \in s : TRUE
  BY <1>2
<1>4. PICK G : Additive(G, f, s \ {y})
  BY <1>1, <1>3
<1> DEFINE H == [q \in SUBSET s |-> IF y \in q THEN G[q \ {y}] + f[y] ELSE G[q]]
<1>5. H \in [SUBSET s -> Nat]
  <2>1. \A q \in SUBSET s : q \ {y} \in SUBSET (s \ {y})
    OBVIOUS
  <2>2. \A q \in SUBSET s : y \notin q => q \in SUBSET (s \ {y})
    OBVIOUS
  <2>3. f[y] \in Nat
    BY <1>3
  <2> QED BY <2>1, <2>2, <2>3, <1>4 DEF Additive
<1>6. H[{}] = 0
  BY <1>4 DEF Additive
<1>7. ASSUME NEW q \in SUBSET s, NEW x \in s \ q
      PROVE  H[q \cup {x}] = H[q] + f[x]
  <2>1. q \cup {x} \in SUBSET s
    OBVIOUS
  <2>2. f[x] \in Nat /\ f[y] \in Nat
    BY <1>3
  <2>3. CASE x = y
    <3>1. (q \cup {x}) \ {y} = q
      BY <2>3
    <3> QED BY <3>1, <2>1, <2>3
  <2>4. CASE x # y /\ y \in q
    <3>1. (q \cup {x}) \ {y} = (q \ {y}) \cup {x}
      BY <2>4
    <3>2. q \ {y} \in SUBSET (s \ {y}) /\ x \in (s \ {y}) \ (q \ {y})
      BY <2>4
    <3>3. G[(q \ {y}) \cup {x}] = G[q \ {y}] + f[x]
      BY <3>2, <1>4 DEF Additive
    <3>4. H[q \cup {x}] = G[(q \cup {x}) \ {y}] + f[y] /\ H[q] = G[q \ {y}] + f[y]
      BY <2>4, <2>1
    <3>5. G[q \ {y}] \in Nat
      BY <3>2, <1>4 DEF Additive
    <3> HIDE DEF H
    <3> QED BY <3>1, <3>3, <3>4, <3>5, <2>2
  <2>5. CASE x # y /\ y \notin q
    <3>1. q \in SUBSET (s \ {y}) /\ x \in (s \ {y}) \ q
      BY <2>5
    <3>2. H[q \cup {x}] = G[q \cup {x}] /\ H[q] = G[q]
      BY <2>1, <2>5
    <3> QED BY <3>1, <3>2, <1>4 DEF Additive
  <2> QED BY <2>3, <2>4, <2>5
<1>8. Additive(H, f, s)
  <2> HIDE DEF H
  <2> QED BY <1>5, <1>6, <1>7 DEF Additive
<1> QED BY <1>8, <1>1

\* The library's sum, down to its recursive function.
LEMMA Unfold ==
    ASSUME NEW f, NEW S
    PROVE  SumFunctionOnSet(f, S) =
             LET iter[s \in SUBSET S] ==
                   IF s = {} THEN 0
                   ELSE f[CHOOSE x \in s : TRUE] + iter[s \ {CHOOSE x \in s : TRUE}]
             IN  iter[S]
BY DEF SumFunctionOnSet, FoldFunctionOnSet, MapThenFoldSet

\* The library's sum is that of any such G: the order it takes its elements in
\* does not matter.
LEMMA SumIsAdditive ==
    ASSUME NEW S, IsFiniteSet(S), NEW f, \A x \in S : f[x] \in Nat, NEW G, Additive(G, f, S)
    PROVE  SumFunctionOnSet(f, S) = G[S]
<1> DEFINE step(h) == [s \in SUBSET S |->
                          IF s = {} THEN 0
                          ELSE f[CHOOSE x \in s : TRUE] + h[s \ {CHOOSE x \in s : TRUE}]]
           H == CHOOSE iter : iter = step(iter)
<1>1. G = step(G)
  <2>1. ASSUME NEW s \in SUBSET S
        PROVE  G[s] = IF s = {} THEN 0
                      ELSE f[CHOOSE x \in s : TRUE] + G[s \ {CHOOSE x \in s : TRUE}]
    <3>1. CASE s = {}
      BY <3>1 DEF Additive
    <3>2. CASE s # {}
      <4> DEFINE x == CHOOSE x \in s : TRUE
      <4>1. x \in s
        BY <3>2
      <4> HIDE DEF x
      <4>2. s \ {x} \in SUBSET S /\ x \in S \ (s \ {x}) /\ s = (s \ {x}) \cup {x}
        BY <4>1
      <4>3. G[s] = G[s \ {x}] + f[x] /\ G[s \ {x}] \in Nat
        BY <4>2 DEF Additive
      <4>4. G[s] = f[x] + G[s \ {x}]
        BY <4>3, <4>2
      <4> QED BY <4>4, <3>2 DEF x
    <3> QED BY <3>1, <3>2
  <2>2. G = [s \in SUBSET S |-> G[s]]
    BY DEF Additive
  <2> QED BY <2>1, <2>2
<1>2. H = step(H)
  BY <1>1
<1>3. SumFunctionOnSet(f, S) = H[S]
  BY Unfold
<1> DEFINE P == {s \in SUBSET S : H[s] # G[s]}
<1>4. P = {}
  <2> SUFFICES ASSUME P # {} PROVE FALSE
    OBVIOUS
  <2> HIDE DEF H
  <2>1. PICK s \in P : \A q \in P : q \subseteq s => q = s
    <3> HIDE DEF P
    <3>1. P \subseteq SUBSET S
      BY DEF P
    <3> QED BY <3>1, SmallestSubset
  <2> DEFINE x == CHOOSE x \in s : TRUE
  <2>2. H[s] = IF s = {} THEN 0 ELSE f[x] + H[s \ {x}]
    BY <1>2
  <2>3. G[s] = IF s = {} THEN 0 ELSE f[x] + G[s \ {x}]
    BY <1>1
  <2>4. s # {} => H[s \ {x}] = G[s \ {x}]
    <3>1. s # {} => x \in s
      OBVIOUS
    <3> HIDE DEF x
    <3>2. s # {} => s \ {x} \in SUBSET S /\ s \ {x} # s /\ s \ {x} \subseteq s
      BY <3>1
    <3> QED BY <3>2, <2>1
  <2> QED BY <2>2, <2>3, <2>4
<1> QED BY <1>3, <1>4

\* What the proofs use of a sum: one element more adds its own number.
LEMMA SumOfRows ==
    ASSUME NEW T, IsFiniteSet(T), NEW f \in [T -> Nat], NEW S \in SUBSET T
    PROVE  /\ SumFunctionOnSet(f, S) \in Nat
           /\ SumFunctionOnSet(f, {}) = 0
           /\ \A x \in T \ S : SumFunctionOnSet(f, S \cup {x}) = SumFunctionOnSet(f, S) + f[x]
<1>1. PICK G : Additive(G, f, T)
  BY AdditiveExists
<1>2. ASSUME NEW R \in SUBSET T PROVE SumFunctionOnSet(f, R) = G[R]
  <2> DEFINE F == [s \in SUBSET R |-> G[s]]
  <2>1. Additive(F, f, R)
    <3>1. \A s \in SUBSET R : s \in SUBSET T /\ G[s] \in Nat
      BY <1>1 DEF Additive
    <3>2. F \in [SUBSET R -> Nat] /\ F[{}] = 0
      BY <3>1, <1>1 DEF Additive
    <3>3. ASSUME NEW s \in SUBSET R, NEW x \in R \ s PROVE F[s \cup {x}] = F[s] + f[x]
      BY <1>1 DEF Additive
    <3> HIDE DEF F
    <3> QED BY <3>2, <3>3 DEF Additive
  <2>2. IsFiniteSet(R)
    BY FS_Subset
  <2>3. SumFunctionOnSet(f, R) = F[R]
    <3> HIDE DEF F
    <3>1. \A x \in R : f[x] \in Nat
      OBVIOUS
    <3> QED BY <2>1, <2>2, <3>1, SumIsAdditive
  <2> QED BY <2>3
<1>3. \A x \in T \ S : S \cup {x} \in SUBSET T
  OBVIOUS
<1>4. {} \in SUBSET T
  OBVIOUS
<1>5. G[S] \in Nat /\ G[{}] = 0 /\ \A x \in T \ S : G[S \cup {x}] = G[S] + f[x]
  BY <1>1 DEF Additive
<1> QED BY <1>2, <1>3, <1>4, <1>5

---------------------------------------------------------------------------
\* Over a finite set that is not empty a number is highest somewhere.
LEMMA MaxExists ==
    ASSUME NEW T, IsFiniteSet(T), T # {}, NEW f \in [T -> Nat]
    PROVE  \E i \in T : \A j \in T : f[j] <= f[i]
<1> DEFINE Has(s) == \E i \in s : \A j \in s : f[j] <= f[i]
           P == {s \in SUBSET T : s # {} /\ ~ Has(s)}
<1> SUFFICES ASSUME P # {} PROVE FALSE
  OBVIOUS
<1>1. PICK s \in P : \A q \in P : q \subseteq s => q = s
  <2> HIDE DEF P
  <2>1. P \subseteq SUBSET T
    BY DEF P
  <2> QED BY <2>1, SmallestSubset
<1>2. PICK y \in s : TRUE
  OBVIOUS
<1>3. CASE s = {y}
  <2>1. Has(s)
    BY <1>3
  <2> QED BY <2>1
<1>4. CASE s # {y}
  <2>1. s \ {y} # {} /\ s \ {y} \in SUBSET T /\ s \ {y} # s
    BY <1>4, <1>2
  <2>2. Has(s \ {y})
    BY <2>1, <1>1
  <2>3. PICK i \in s \ {y} : \A j \in s \ {y} : f[j] <= f[i]
    BY <2>2
  <2>4. f[i] \in Nat /\ f[y] \in Nat /\ \A j \in s : f[j] \in Nat
    BY <1>2
  <2>5. CASE f[y] <= f[i]
    <3>1. \A j \in s : f[j] <= f[i]
      BY <2>3, <2>5
    <3> QED BY <3>1
  <2>6. CASE f[i] < f[y]
    <3>1. \A j \in s : f[j] <= f[y]
      BY <2>3, <2>4, <2>6
    <3> QED BY <3>1, <1>2
  <2> QED BY <2>4, <2>5, <2>6
<1> QED BY <1>3, <1>4

\* Max of the numbers of a set is one that is taken and not exceeded.
LEMMA MaxIsHighest ==
    ASSUME NEW T, IsFiniteSet(T), T # {}, NEW f \in [T -> Nat], NEW n,
           \E i \in T : n = f[i], \A i \in T : f[i] <= n
    PROVE  Max({f[i] : i \in T}) = n
<1> DEFINE V == {f[i] : i \in T}
           m == CHOOSE x \in V : \A y \in V : x >= y
<1>1. n \in V /\ n \in Nat /\ V \subseteq Nat /\ \A y \in V : n >= y
  OBVIOUS
<1>2. m \in V /\ \A y \in V : m >= y
  BY <1>1
<1>3. Max(V) = m
  BY DEF Max
<1>4. m = n
  <2> HIDE DEF m, V
  <2>1. m \in Nat /\ n \in Nat /\ m >= n /\ n >= m
    BY <1>1, <1>2
  <2> QED BY <2>1
<1> QED BY <1>3, <1>4

\* The numbers f gives to the members of S.
Values(f, S) == {f[i] : i \in S}

\* One element more raises the maximum to its own number, or leaves it.
LEMMA MaxAdds ==
    ASSUME NEW T, IsFiniteSet(T), NEW f \in [T -> Nat], NEW S \in SUBSET T, NEW x \in T
    PROVE  Max(Values(f, S \cup {x})) =
             IF S = {} \/ f[x] > Max(Values(f, S)) THEN f[x] ELSE Max(Values(f, S))
<1>1. ASSUME NEW s \in SUBSET T, s # {}
      PROVE  \E k \in s : (\A i \in s : f[i] <= f[k]) /\ Max(Values(f, s)) = f[k]
  <2> DEFINE h == [i \in s |-> f[i]]
  <2>1. IsFiniteSet(s) /\ h \in [s -> Nat] /\ \A i \in s : h[i] = f[i]
    BY FS_Subset
  <2>2. {h[i] : i \in s} = Values(f, s)
    BY DEF Values
  <2> HIDE DEF h
  <2>3. PICK k \in s : \A i \in s : h[i] <= h[k]
    BY <2>1, <1>1, MaxExists
  <2>4. Max({h[i] : i \in s}) = h[k]
    BY <2>1, <2>3, <1>1, MaxIsHighest
  <2> QED BY <2>1, <2>2, <2>3, <2>4
<1>2. CASE S = {}
  <2>1. S \cup {x} \in SUBSET T /\ S \cup {x} # {}
    OBVIOUS
  <2>2. PICK k \in S \cup {x} : Max(Values(f, S \cup {x})) = f[k]
    BY <1>1, <2>1
  <2>3. k = x
    BY <1>2
  <2> QED BY <2>2, <2>3, <1>2
<1>3. CASE S # {}
  <2>1. PICK k \in S : (\A i \in S : f[i] <= f[k]) /\ Max(Values(f, S)) = f[k]
    BY <1>1, <1>3
  <2>2. S \cup {x} \in SUBSET T /\ S \cup {x} # {}
    OBVIOUS
  <2>3. PICK l \in S \cup {x} :
            (\A i \in S \cup {x} : f[i] <= f[l]) /\ Max(Values(f, S \cup {x})) = f[l]
    BY <1>1, <2>2
  <2>4. f[x] \in Nat /\ f[k] \in Nat /\ f[l] \in Nat
    OBVIOUS
  <2>5. f[k] <= f[l] /\ f[x] <= f[l] /\ (l = x \/ f[l] <= f[k])
    BY <2>1, <2>3
  <2>6. f[l] = IF f[x] > f[k] THEN f[x] ELSE f[k]
    BY <2>4, <2>5
  <2> QED BY <2>1, <2>3, <2>6, <1>3
<1> QED BY <1>2, <1>3

---------------------------------------------------------------------------
\* The transactions of a run are some history of the instance.
Histories == rows \in [TxIds -> Contents]

\* The fields of a row.
LEMMA RowTypes ==
    ASSUME Histories, NEW i \in TxIds
    PROVE  /\ rows[i].time \in Nat /\ rows[i].amount \in Nat /\ rows[i].fraud \in Nat
           /\ rows[i].amount * rows[i].amount \in Nat
           /\ rows[i].customer \in Customers /\ rows[i].merchant \in Merchants
           /\ i \in Nat
<1>1. rows[i] \in Contents
  BY DEF Histories
<1> QED BY <1>1, ReplayAssumption DEF Customers, Merchants

\* The order of both loops, by event time and then by id, is total.
LEMMA BeforeOrders ==
    ASSUME Histories
    PROVE  /\ \A i \in TxIds : ~ Before(i, i)
           /\ \A i, j \in TxIds : i = j \/ Before(i, j) \/ Before(j, i)
           /\ \A i, j, k \in TxIds : Before(i, j) /\ Before(j, k) => Before(i, k)
BY RowTypes DEF Before

\* The row that comes next is before every other one left.
LEMMA FirstIsFirst ==
    ASSUME Histories, NEW S \in SUBSET TxIds, S # {}
    PROVE  First(S) \in S /\ \A j \in S \ {First(S)} : Before(First(S), j)
<1> DEFINE Has(s) == \E i \in s : \A j \in s \ {i} : Before(i, j)
           P == {s \in SUBSET S : s # {} /\ ~ Has(s)}
<1>1. P = {}
  <2> SUFFICES ASSUME P # {} PROVE FALSE
    OBVIOUS
  <2>1. PICK s \in P : \A q \in P : q \subseteq s => q = s
    <3> HIDE DEF P
    <3>1. P \subseteq SUBSET S /\ IsFiniteSet(S)
      BY ReplayAssumption, FS_Subset DEF P
    <3> QED BY <3>1, SmallestSubset
  <2>2. PICK y \in s : TRUE
    OBVIOUS
  <2>3. CASE s = {y}
    <3>1. Has(s)
      BY <2>3
    <3> QED BY <3>1
  <2>4. CASE s # {y}
    <3>1. s \ {y} # {} /\ s \ {y} \in SUBSET S /\ s \ {y} # s
      BY <2>4, <2>2
    <3>2. PICK i \in s \ {y} : \A j \in (s \ {y}) \ {i} : Before(i, j)
      <4>1. Has(s \ {y})
        <5> HIDE DEF Has
        <5> QED BY <3>1, <2>1
      <4> QED BY <4>1
    <3>3. Before(i, y) => \A j \in s \ {i} : Before(i, j)
      BY <3>2
    <3>4. Before(y, i) => \A j \in s \ {y} : Before(y, j)
      BY <3>2, BeforeOrders
    <3>5. i \in s /\ (Before(i, y) \/ Before(y, i))
      BY BeforeOrders
    <3> QED BY <3>3, <3>4, <3>5, <2>2
  <2> QED BY <2>3, <2>4
<1>2. Has(S)
  BY <1>1
<1> QED BY <1>2 DEF First

\* The event times.
Time == [i \in TxIds |-> rows[i].time]

\* The last event time of a set of rows is the time of one of them.
LEMMA MaxIsTaken ==
    ASSUME Histories, NEW S \in SUBSET TxIds, S # {}
    PROVE  \E k \in S : Max({rows[j].time : j \in S}) = rows[k].time
<1> DEFINE h == [i \in S |-> rows[i].time]
<1>1. h \in [S -> Nat] /\ IsFiniteSet(S)
  BY RowTypes, ReplayAssumption, FS_Subset
<1>2. {h[j] : j \in S} = {rows[j].time : j \in S} /\ \A j \in S : h[j] = rows[j].time
  OBVIOUS
<1> HIDE DEF h
<1>3. PICK k \in S : \A i \in S : h[i] <= h[k]
  BY <1>1, MaxExists
<1>4. Max({h[j] : j \in S}) = h[k]
  BY <1>1, <1>3, MaxIsHighest
<1> QED BY <1>2, <1>4

\* The update both loops make to an accumulator is what one more row, later
\* than those it holds, adds to their aggregate.
LEMMA AggregateAdds ==
    ASSUME Histories, NEW S \in SUBSET TxIds, NEW i \in TxIds \ S,
           \A j \in S : Before(j, i)
    PROVE  Aggregate(S \cup {i}) = Updated(Aggregate(S), rows[i])
<1>1. IsFiniteSet(S) /\ IsFiniteSet(S \cup {i})
  BY ReplayAssumption, FS_Subset, FS_AddElement
<1>2. Cardinality(S \cup {i}) = Cardinality(S) + 1
  BY <1>1, FS_AddElement
<1>3. /\ Amount \in [TxIds -> Nat] /\ Amount[i] = rows[i].amount
      /\ Square \in [TxIds -> Nat] /\ Square[i] = rows[i].amount * rows[i].amount
      /\ Fraud \in [TxIds -> Nat] /\ Fraud[i] = rows[i].fraud
  BY RowTypes DEF Amount, Square, Fraud
<1>4. /\ SumFunctionOnSet(Amount, S \cup {i}) = SumFunctionOnSet(Amount, S) + rows[i].amount
      /\ SumFunctionOnSet(Square, S \cup {i})
           = SumFunctionOnSet(Square, S) + rows[i].amount * rows[i].amount
      /\ SumFunctionOnSet(Fraud, S \cup {i}) = SumFunctionOnSet(Fraud, S) + rows[i].fraud
  <2>1. IsFiniteSet(TxIds)
    BY ReplayAssumption
  <2>5. \A f \in [TxIds -> Nat] : \A x \in TxIds \ S :
            SumFunctionOnSet(f, S \cup {x}) = SumFunctionOnSet(f, S) + f[x]
    BY <2>1, SumOfRows
  <2>2. SumFunctionOnSet(Amount, S \cup {i}) = SumFunctionOnSet(Amount, S) + Amount[i]
    BY <1>3, <2>5
  <2>3. SumFunctionOnSet(Square, S \cup {i}) = SumFunctionOnSet(Square, S) + Square[i]
    BY <1>3, <2>5
  <2>4. SumFunctionOnSet(Fraud, S \cup {i}) = SumFunctionOnSet(Fraud, S) + Fraud[i]
    BY <1>3, <2>5
  <2> QED BY <1>3, <2>2, <2>3, <2>4
<1>5. /\ Max({rows[j].amount : j \in S \cup {i}}) =
             IF S = {} \/ rows[i].amount > Max({rows[j].amount : j \in S})
             THEN rows[i].amount ELSE Max({rows[j].amount : j \in S})
      /\ Max({rows[j].time : j \in S \cup {i}}) =
             IF S = {} \/ rows[i].time > Max({rows[j].time : j \in S})
             THEN rows[i].time ELSE Max({rows[j].time : j \in S})
  <2>1. \A s \in SUBSET TxIds :
            /\ Values(Amount, s) = {rows[j].amount : j \in s}
            /\ Values(Time, s) = {rows[j].time : j \in s}
    BY DEF Amount, Time, Values
  <2>2. S \cup {i} \in SUBSET TxIds
    OBVIOUS
  <2>3. Time \in [TxIds -> Nat] /\ Time[i] = rows[i].time
    BY RowTypes DEF Time
  <2>4. IsFiniteSet(TxIds)
    BY ReplayAssumption
  <2>5. \A f \in [TxIds -> Nat] :
            Max(Values(f, S \cup {i})) =
                IF S = {} \/ f[i] > Max(Values(f, S)) THEN f[i] ELSE Max(Values(f, S))
    BY <2>4, MaxAdds
  <2>6. Max(Values(Amount, S \cup {i})) =
            IF S = {} \/ Amount[i] > Max(Values(Amount, S))
            THEN Amount[i] ELSE Max(Values(Amount, S))
    BY <1>3, <2>5
  <2>7. Max(Values(Time, S \cup {i})) =
            IF S = {} \/ Time[i] > Max(Values(Time, S)) THEN Time[i] ELSE Max(Values(Time, S))
    BY <2>3, <2>5
  <2> QED BY <1>3, <2>1, <2>2, <2>3, <2>6, <2>7
<1>6. rows[i].amount \in Nat /\ (rows[i].amount > 0 \/ rows[i].amount = 0)
  BY RowTypes
<1>7. S # {} => Max({rows[j].time : j \in S}) <= rows[i].time
  <2> SUFFICES ASSUME S # {} PROVE Max({rows[j].time : j \in S}) <= rows[i].time
    OBVIOUS
  <2>1. PICK k \in S : Max({rows[j].time : j \in S}) = rows[k].time
    BY MaxIsTaken
  <2> QED BY <2>1, RowTypes DEF Before
<1>8. S # {} => Max({rows[j].time : j \in S}) \in Nat
  <2> SUFFICES ASSUME S # {} PROVE Max({rows[j].time : j \in S}) \in Nat
    OBVIOUS
  <2>1. PICK k \in S : Max({rows[j].time : j \in S}) = rows[k].time
    BY MaxIsTaken
  <2> QED BY <2>1, RowTypes
<1>9. Max({rows[j].time : j \in S \cup {i}}) = rows[i].time
  <2> DEFINE last == Max({rows[j].time : j \in S})
  <2>1. rows[i].time \in Nat
    BY RowTypes
  <2>2. S # {} => last \in Nat /\ last <= rows[i].time
    BY <1>7, <1>8
  <2>3. Max({rows[j].time : j \in S \cup {i}}) =
             IF S = {} \/ rows[i].time > last THEN rows[i].time ELSE last
    BY <1>5
  <2> HIDE DEF last
  <2> QED BY <2>1, <2>2, <2>3
<1>10. S \cup {i} # {}
  OBVIOUS
<1> QED BY <1>2, <1>4, <1>5, <1>6, <1>9, <1>10 DEF Aggregate, Updated

---------------------------------------------------------------------------
\* The rows of one customer, or of one merchant, among S; and accumulators that
\* hold for everybody just what the rows of S amount to.
OfCustomer(S, c) == {j \in S : rows[j].customer = c}
OfMerchant(S, m) == {j \in S : rows[j].merchant = m}
Accumulated(ofCustomer, ofMerchant, S) ==
    /\ ofCustomer = [c \in Customers |-> Aggregate(OfCustomer(S, c))]
    /\ ofMerchant = [m \in Merchants |-> Aggregate(OfMerchant(S, m))]

\* S is the start of the replay's order; the rows before i; those before the
\* cutoff.
Earliest(S) == \A i \in S, j \in TxIds \ S : Before(i, j)
Earlier(i) == {j \in TxIds : Before(j, i)}
Past == {j \in TxIds : rows[j].time < Cutoff}

\* What the offline features of row i should be.
Described(i) ==
    LET seen == Aggregate(OfCustomer(Earlier(i), rows[i].customer))
    IN  [customer |-> seen,
         merchant |-> Aggregate(OfMerchant(Earlier(i), rows[i].merchant)),
         elapsed  |-> Elapsed(seen, rows[i].time)]

\* The offline loop has done a start of the order, its accumulators hold that
\* start, and each row it has done is described by the rows before it.
OfflineInv ==
    /\ left \subseteq TxIds
    /\ Earliest(TxIds \ left)
    /\ Accumulated(customer, merchant, TxIds \ left)
    /\ output = [i \in TxIds |-> IF i \in left THEN NoRow ELSE Described(i)]

\* So has the online loop, and it has not passed the cutoff; when it is over its
\* accumulators hold the rows before the cutoff.
OnlineInv ==
    /\ onLeft \subseteq TxIds
    /\ onLeft # {} =>
          /\ Earliest(TxIds \ onLeft)
          /\ TxIds \ onLeft \subseteq Past
          /\ Accumulated(onCustomer, onMerchant, TxIds \ onLeft)
    /\ onLeft = {} => Accumulated(onCustomer, onMerchant, Past)

\* The transaction served, and a snapshot taken no later than it.
Question == target \in TxIds /\ lag \in Nat /\ lag <= rows[target].time

PInv == Histories /\ Question /\ OfflineInv /\ OnlineInv

\* The accumulators both loops start from are the aggregate of no rows.
LEMMA NothingSeen == Histories => Aggregate({}) = Zero
<1> SUFFICES ASSUME Histories PROVE Aggregate({}) = Zero
  OBVIOUS
<1>1. /\ IsFiniteSet(TxIds) /\ {} \in SUBSET TxIds
      /\ Amount \in [TxIds -> Nat] /\ Square \in [TxIds -> Nat] /\ Fraud \in [TxIds -> Nat]
  BY ReplayAssumption, RowTypes DEF Amount, Square, Fraud
<1>2. \A f \in [TxIds -> Nat] : SumFunctionOnSet(f, {}) = 0
  BY <1>1, SumOfRows
<1>3. Cardinality({}) = 0
  BY FS_EmptySet
<1> QED BY <1>1, <1>2, <1>3 DEF Aggregate, Zero

\* One turn of either loop: the row is the next in order, everything done before
\* is exactly what precedes it, and updating its customer and its merchant
\* accounts for it and for nobody else.
LEMMA Turn ==
    ASSUME Histories, NEW S \in SUBSET TxIds, S # TxIds, Earliest(S),
           NEW i, i = First(TxIds \ S),
           NEW a, NEW b, Accumulated(a, b, S)
    PROVE  /\ i \in TxIds \ S
           /\ S = Earlier(i)
           /\ Earliest(S \cup {i})
           /\ Accumulated([a EXCEPT ![rows[i].customer] = Updated(@, rows[i])],
                          [b EXCEPT ![rows[i].merchant] = Updated(@, rows[i])], S \cup {i})
<1>1. i \in TxIds \ S /\ \A j \in (TxIds \ S) \ {i} : Before(i, j)
  BY FirstIsFirst
<1>2. S = Earlier(i)
  BY <1>1, BeforeOrders DEF Earlier, Earliest
<1>3. Earliest(S \cup {i})
  BY <1>1 DEF Earliest
<1>4. rows[i].customer \in Customers /\ rows[i].merchant \in Merchants
  BY <1>1, RowTypes
<1>5. \A R \in SUBSET S : Aggregate(R \cup {i}) = Updated(Aggregate(R), rows[i])
  BY <1>1, AggregateAdds DEF Earliest
<1>6. ASSUME NEW c \in Customers
      PROVE  OfCustomer(S \cup {i}, c) =
               IF c = rows[i].customer THEN OfCustomer(S, c) \cup {i} ELSE OfCustomer(S, c)
  BY DEF OfCustomer
<1>7. ASSUME NEW m \in Merchants
      PROVE  OfMerchant(S \cup {i}, m) =
               IF m = rows[i].merchant THEN OfMerchant(S, m) \cup {i} ELSE OfMerchant(S, m)
  BY DEF OfMerchant
<1>8. \A c : OfCustomer(S, c) \in SUBSET S /\ OfMerchant(S, c) \in SUBSET S
  BY DEF OfCustomer, OfMerchant
<1>9. [a EXCEPT ![rows[i].customer] = Updated(@, rows[i])]
        = [c \in Customers |-> Aggregate(OfCustomer(S \cup {i}, c))]
  BY <1>4, <1>5, <1>6, <1>8 DEF Accumulated
<1>10. [b EXCEPT ![rows[i].merchant] = Updated(@, rows[i])]
        = [m \in Merchants |-> Aggregate(OfMerchant(S \cup {i}, m))]
  BY <1>4, <1>5, <1>7, <1>8 DEF Accumulated
<1> QED BY <1>1, <1>2, <1>3, <1>9, <1>10 DEF Accumulated

\* What a replay that does not move knows stays what it was.
LEMMA OfflineKept ==
    ASSUME OfflineInv, rows' = rows,
           left' = left, customer' = customer, merchant' = merchant, output' = output
    PROVE  OfflineInv'
BY DEF OfflineInv, Earliest, Before, Described, Earlier, Accumulated, Aggregate,
   OfCustomer, OfMerchant, Amount, Square, Fraud

\* The same of the online loop.
LEMMA OnlineKept ==
    ASSUME OnlineInv, rows' = rows, target' = target, lag' = lag,
           onLeft' = onLeft, onCustomer' = onCustomer, onMerchant' = onMerchant
    PROVE  OnlineInv'
<1>2. Earliest(TxIds \ onLeft)' = Earliest(TxIds \ onLeft)
  BY DEF Earliest, Before
<1>3. Past' = Past
  BY DEF Past, Cutoff
<1>4. Accumulated(onCustomer, onMerchant, TxIds \ onLeft)'
        = Accumulated(onCustomer, onMerchant, TxIds \ onLeft)
  BY DEF Accumulated, Aggregate, OfCustomer, OfMerchant, Amount, Square, Fraud
<1>5. Accumulated(onCustomer, onMerchant, Past)' = Accumulated(onCustomer, onMerchant, Past)
  BY DEF Past, Cutoff, Accumulated, Aggregate, OfCustomer, OfMerchant, Amount, Square, Fraud
<1> QED BY <1>2, <1>3, <1>4, <1>5 DEF OnlineInv

\* Both loops start with nothing done.
LEMMA ReplayInit == Init => PInv
<1> SUFFICES ASSUME Init PROVE PInv
  OBVIOUS
<1>1. Histories /\ Question
  BY ReplayAssumption DEF Init, Histories, Question
<1>2. /\ Earliest({})
      /\ Accumulated(customer, merchant, {}) /\ Accumulated(onCustomer, onMerchant, {})
  <2>1. \A c : OfCustomer({}, c) = {} /\ OfMerchant({}, c) = {}
    BY DEF OfCustomer, OfMerchant
  <2> QED BY <1>1, <2>1, NothingSeen DEF Init, Earliest, Accumulated
<1>3. TxIds \ left = {} /\ TxIds \ onLeft = {} /\ onLeft # {}
  BY ReplayAssumption DEF Init
<1>4. OfflineInv
  BY <1>2, <1>3 DEF Init, OfflineInv
<1>5. OnlineInv
  BY <1>2, <1>3 DEF Init, OnlineInv
<1> QED BY <1>1, <1>4, <1>5 DEF PInv

\* The offline loop's turn.
LEMMA OfflineStep == PInv /\ OfflineRow => PInv'
<1> SUFFICES ASSUME PInv, OfflineRow PROVE PInv'
  OBVIOUS
<1> DEFINE i == First(left)
           S == TxIds \ left
<1>1. /\ Histories /\ Question /\ OfflineInv /\ OnlineInv
      /\ left \subseteq TxIds /\ left # {} /\ S \in SUBSET TxIds /\ S # TxIds
      /\ TxIds \ S = left
  BY DEF PInv, OfflineRow, OfflineInv
<1>2. rows' = rows /\ target' = target /\ lag' = lag
      /\ onLeft' = onLeft /\ onCustomer' = onCustomer /\ onMerchant' = onMerchant
  BY DEF OfflineRow
<1>3. /\ i \in left /\ S = Earlier(i) /\ Earliest(S \cup {i})
      /\ Accumulated([customer EXCEPT ![rows[i].customer] = Updated(@, rows[i])],
                     [merchant EXCEPT ![rows[i].merchant] = Updated(@, rows[i])], S \cup {i})
  <2>1. Earliest(S) /\ Accumulated(customer, merchant, S)
    BY <1>1 DEF OfflineInv
  <2> HIDE DEF S
  <2> QED BY <1>1, <2>1, Turn
<1>4. TxIds \ left' = S \cup {i} /\ left' = left \ {i}
  BY <1>3, <1>1 DEF OfflineRow
<1>5. Accumulated(customer, merchant, TxIds \ left)'
  <2>1. Accumulated(customer', merchant', S \cup {i})
    BY <1>3 DEF OfflineRow
  <2>2. Accumulated(customer', merchant', TxIds \ left')
    BY <1>4, <2>1
  <2> HIDE DEF S, i
  <2> QED BY <1>2, <2>2
       DEF Accumulated, Aggregate, OfCustomer, OfMerchant, Amount, Square, Fraud
<1>6. output' = [j \in TxIds |-> IF j \in left' THEN NoRow ELSE Described(j)]
  <2>1. /\ rows[i].customer \in Customers /\ rows[i].merchant \in Merchants
    BY <1>1, <1>3, RowTypes
  <2>2. Described(i) = [customer |-> customer[rows[i].customer],
                        merchant |-> merchant[rows[i].merchant],
                        elapsed  |-> Elapsed(customer[rows[i].customer], rows[i].time)]
    BY <1>1, <1>3, <2>1 DEF Described, OfflineInv, Accumulated
  <2>3. output' = [output EXCEPT ![i] = Described(i)]
    BY <2>2 DEF OfflineRow
  <2> QED BY <2>3, <1>1, <1>3, <1>4 DEF OfflineInv
<1>7. OfflineInv'
  <2>1. Earliest(TxIds \ left)'
    BY <1>2, <1>3, <1>4 DEF Earliest, Before
  <2>2. output' = [j \in TxIds |-> IF j \in left' THEN NoRow ELSE Described(j)']
    <3>1. \A j : Described(j)' = Described(j)
      BY <1>2 DEF Described, Aggregate, OfCustomer, OfMerchant, Earlier, Before,
         Amount, Square, Fraud
    <3> QED BY <1>6, <3>1
  <2>3. left' \subseteq TxIds
    BY <1>1, <1>4
  <2> QED BY <1>5, <2>1, <2>2, <2>3 DEF OfflineInv
<1>8. OnlineInv'
  BY <1>1, <1>2, OnlineKept
<1>9. Histories' /\ Question'
  BY <1>1, <1>2 DEF Histories, Question
<1> QED BY <1>7, <1>8, <1>9 DEF PInv

\* The online loop's turn; it stops at the first row at or past the cutoff, and by
\* the order of the rows no later one is before it.
LEMMA OnlineStep == PInv /\ OnlineRow => PInv'
<1> SUFFICES ASSUME PInv, OnlineRow PROVE PInv'
  OBVIOUS
<1> DEFINE i == First(onLeft)
           S == TxIds \ onLeft
<1>1. /\ Histories /\ Question /\ OfflineInv /\ OnlineInv
      /\ onLeft \subseteq TxIds /\ onLeft # {} /\ S \in SUBSET TxIds /\ S # TxIds
      /\ TxIds \ S = onLeft
  BY DEF PInv, OnlineRow, OnlineInv
<1>2. rows' = rows /\ target' = target /\ lag' = lag
      /\ left' = left /\ customer' = customer /\ merchant' = merchant /\ output' = output
  BY DEF OnlineRow
<1>3. Earliest(S) /\ Accumulated(onCustomer, onMerchant, S) /\ S \subseteq Past
  BY <1>1 DEF OnlineInv
<1>4. /\ i \in onLeft /\ S = Earlier(i) /\ Earliest(S \cup {i})
      /\ Accumulated([onCustomer EXCEPT ![rows[i].customer] = Updated(@, rows[i])],
                     [onMerchant EXCEPT ![rows[i].merchant] = Updated(@, rows[i])], S \cup {i})
  <2> HIDE DEF S
  <2> QED BY <1>1, <1>3, Turn
<1>5. OfflineInv'
  BY <1>1, <1>2, OfflineKept
<1>6. Histories' /\ Question'
  BY <1>1, <1>2 DEF Histories, Question
<1>7. /\ rows[i].time \in Nat /\ Cutoff \in Nat
      /\ \A j \in TxIds : rows[j].time \in Nat
  BY <1>1, <1>4, RowTypes DEF Question, Cutoff
<1>8. CASE rows[i].time >= Cutoff
  <2>1. onLeft' = {} /\ onCustomer' = onCustomer /\ onMerchant' = onMerchant
    BY <1>8 DEF OnlineRow
  <2>2. \A j \in onLeft \ {i} : Before(i, j)
    BY <1>1, FirstIsFirst
  <2>3. \A j \in onLeft : ~ rows[j].time < Cutoff
    BY <1>1, <1>7, <1>8, <2>2 DEF Before
  <2>4. Past = S
    BY <1>1, <1>3, <2>3 DEF Past
  <2>5. Accumulated(onCustomer', onMerchant', Past)
    BY <1>3, <2>1, <2>4
  <2>6. Accumulated(onCustomer, onMerchant, Past)'
    BY <1>2, <2>5 DEF Past, Cutoff, Accumulated, Aggregate, OfCustomer, OfMerchant, Amount, Square, Fraud
  <2>7. OnlineInv'
    BY <2>1, <2>6 DEF OnlineInv
  <2> QED BY <1>5, <1>6, <2>7 DEF PInv
<1>9. CASE rows[i].time < Cutoff
  <2>1. /\ onLeft' = onLeft \ {i}
        /\ Accumulated(onCustomer', onMerchant', S \cup {i})
    BY <1>4, <1>7, <1>9 DEF OnlineRow
  <2>2. TxIds \ onLeft' = S \cup {i} /\ onLeft' \subseteq TxIds
    BY <1>1, <1>4, <2>1
  <2>3. S \cup {i} \subseteq Past
    BY <1>1, <1>3, <1>4, <1>9 DEF Past
  <2>4. Accumulated(onCustomer, onMerchant, TxIds \ onLeft)'
    <3>1. Accumulated(onCustomer', onMerchant', TxIds \ onLeft')
      BY <2>1, <2>2
    <3> HIDE DEF S, i
    <3> QED BY <1>2, <3>1
         DEF Accumulated, Aggregate, OfCustomer, OfMerchant, Amount, Square, Fraud
  <2>5. Earliest(TxIds \ onLeft)'
    BY <1>2, <1>4, <2>2 DEF Earliest, Before
  <2>6. Past' = Past
    BY <1>2 DEF Past, Cutoff
  <2>7. onLeft' = {} => Past = TxIds \ onLeft'
    BY <2>2, <2>3 DEF Past
  <2>8. onLeft' = {} => Accumulated(onCustomer, onMerchant, Past)'
    <3> SUFFICES ASSUME onLeft' = {} PROVE Accumulated(onCustomer, onMerchant, Past)'
      OBVIOUS
    <3>1. Past' = TxIds \ onLeft'
      BY <2>6, <2>7
    <3> QED BY <2>4, <3>1 DEF Accumulated
  <2>9. (TxIds \ onLeft)' \subseteq Past'
    BY <2>2, <2>3, <2>6
  <2>10. OnlineInv'
    <3> HIDE DEF S, i
    <3> QED BY <2>2, <2>4, <2>5, <2>8, <2>9 DEF OnlineInv
  <2> QED BY <1>5, <1>6, <2>10 DEF PInv
<1> QED BY <1>7, <1>8, <1>9

\* Both replays (build_point_in_time_features, snapshots_before) hold, after every
\* row, exactly what the rows they have passed amount to.
THEOREM ReplaysAreExact == Spec => []PInv
<1>1. PInv /\ UNCHANGED vars => PInv'
  BY OfflineKept, OnlineKept DEF PInv, vars, Histories, Question
<1>2. PInv /\ [Next]_vars => PInv'
  BY <1>1, OfflineStep, OnlineStep DEF Next
<1> QED BY ReplayInit, <1>2, PTL DEF Spec

\* The set Described speaks of is the one NoLookahead does.
LEMMA Knows == PInv => NoLookahead
<1> SUFFICES ASSUME PInv, NEW i \in TxIds \ left
             PROVE  /\ output[i].customer = Aggregate({j \in TxIds :
                           Before(j, i) /\ rows[j].customer = rows[i].customer})
                    /\ output[i].merchant = Aggregate({j \in TxIds :
                           Before(j, i) /\ rows[j].merchant = rows[i].merchant})
  BY DEF NoLookahead
<1>1. output[i] = Described(i)
  BY DEF PInv, OfflineInv
<1>2. /\ OfCustomer(Earlier(i), rows[i].customer) =
           {j \in TxIds : Before(j, i) /\ rows[j].customer = rows[i].customer}
      /\ OfMerchant(Earlier(i), rows[i].merchant) =
           {j \in TxIds : Before(j, i) /\ rows[j].merchant = rows[i].merchant}
  BY DEF OfCustomer, OfMerchant, Earlier
<1> QED BY <1>1, <1>2 DEF Described

\* A replay that is over holds the rows before its cutoff.
LEMMA Holds == PInv => SnapshotIsHistory
<1> SUFFICES ASSUME PInv, Replayed PROVE SnapshotIsHistory
  BY DEF SnapshotIsHistory
<1>1. Accumulated(onCustomer, onMerchant, Past)
  BY DEF PInv, OnlineInv, Replayed
<1>2. \A c : /\ OfCustomer(Past, c) = {j \in TxIds : rows[j].time < Cutoff /\ rows[j].customer = c}
             /\ OfMerchant(Past, c) = {j \in TxIds : rows[j].time < Cutoff /\ rows[j].merchant = c}
  BY DEF OfCustomer, OfMerchant, Past
<1> QED BY <1>1, <1>2 DEF SnapshotIsHistory, Accumulated

\* Where nothing happened to the customer or the merchant between the cutoff and
\* the target, the rows before the cutoff are those before the target.
LEMMA Agree == PInv => ParityUpToTheAge
<1> SUFFICES ASSUME PInv, Replayed, NothingSinceCutoff, BothThere
             PROVE  SameHistory /\ SameElapsed(lag)
  BY DEF ParityUpToTheAge, SameHistory, SameElapsed
<1> DEFINE c == rows[target].customer
           m == rows[target].merchant
           own == OfCustomer(Past, c)
<1>1. /\ Histories /\ Question /\ target \in TxIds
      /\ Accumulated(onCustomer, onMerchant, Past)
      /\ output[target] = Described(target)
  BY DEF PInv, OnlineInv, OfflineInv, Replayed, Question
<1>2. c \in Customers /\ m \in Merchants /\ rows[target].time \in Nat
      /\ \A j \in TxIds : rows[j].time \in Nat
  BY <1>1, RowTypes
<1>3. Cutoff \in Nat /\ Cutoff <= rows[target].time /\ Cutoff + lag = rows[target].time
  BY <1>1, <1>2 DEF Question, Cutoff
<1>4. ASSUME NEW j \in TxIds, rows[j].customer = c \/ rows[j].merchant = m
      PROVE  rows[j].time < Cutoff <=> Before(j, target)
  <2>1. j # target => ~ rows[j].time \in Cutoff .. rows[target].time
    BY <1>4 DEF NothingSinceCutoff
  <2>2. rows[j].time \in Nat /\ ~ Before(target, target) /\ j \in Nat /\ target \in Nat
    BY <1>1, <1>2, BeforeOrders, RowTypes
  <2>3. CASE j = target
    BY <1>3, <1>2, <2>2, <2>3
  <2>4. CASE j # target
    BY <1>2, <1>3, <2>1, <2>2, <2>4 DEF Before
  <2> QED BY <2>3, <2>4
<1>5. own = OfCustomer(Earlier(target), c) /\ OfMerchant(Past, m) = OfMerchant(Earlier(target), m)
  BY <1>4 DEF OfCustomer, OfMerchant, Past, Earlier
<1>6. /\ onCustomer[c] = Aggregate(own) /\ onMerchant[m] = Aggregate(OfMerchant(Past, m))
  BY <1>1, <1>2 DEF Accumulated
<1>7. /\ output[target].customer = Aggregate(own)
      /\ output[target].merchant = Aggregate(OfMerchant(Past, m))
      /\ output[target].elapsed = Elapsed(Aggregate(own), rows[target].time)
  BY <1>1, <1>5 DEF Described
<1>8. SameHistory
  BY <1>6, <1>7 DEF SameHistory
<1>9. own # {}
  <2>1. Aggregate(own).count > 0
    BY <1>6 DEF BothThere
  <2>2. Aggregate({}).count = 0
    BY FS_EmptySet DEF Aggregate
  <2> QED BY <2>1, <2>2
<1>10. Aggregate(own).prior \in Nat
  <2>1. own \in SUBSET TxIds
    BY DEF OfCustomer, Past
  <2>2. Aggregate(own).prior = Max({rows[j].time : j \in own})
    BY <1>9 DEF Aggregate
  <2>3. PICK k \in own : Max({rows[j].time : j \in own}) = rows[k].time
    BY <1>1, <1>9, <2>1, MaxIsTaken
  <2> QED BY <2>1, <2>2, <2>3, <1>2
<1>11. SameElapsed(lag)
  <2> DEFINE p == Aggregate(own).prior
  <2>1. p # NoTime /\ p \in Nat
    BY <1>10, ReplayAssumption
  <2>2. Elapsed(onCustomer[c], Cutoff) = Cutoff - p
        /\ output[target].elapsed = rows[target].time - p
    BY <1>6, <1>7, <2>1 DEF Elapsed
  <2>3. Cutoff - p + lag = rows[target].time - p
    <3> HIDE DEF p
    <3> QED BY <1>1, <1>2, <1>3, <2>1 DEF Question
  <2> QED BY <2>2, <2>3 DEF SameElapsed
<1> QED BY <1>8, <1>11

\* The features of a row (build_point_in_time_features) aggregate its customer's
\* and its merchant's earlier rows and no others.
THEOREM RowsKnowOnlyThePast == Spec => []NoLookahead
BY ReplaysAreExact, Knows, PTL

\* A snapshot (snapshots_before) is the history before its cutoff.
THEOREM SnapshotsHoldThePast == Spec => []SnapshotIsHistory
BY ReplaysAreExact, Holds, PTL

\* Where nothing happened since the cutoff, what is served online is what was
\* trained on, but for the elapsed time, short by the snapshot's age.
THEOREM OnlineAgreesWithOffline == Spec => []ParityUpToTheAge
BY ReplaysAreExact, Agree, PTL
=============================================================================
