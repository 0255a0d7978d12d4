---------------------------- MODULE QueriesProofs ----------------------------
(***************************************************************************)
(* Proofs about Queries, for any finite set of rows: the groups of each    *)
(* list add up to the total, and a total never shrinks when rows are       *)
(* added.                                                                  *)
(*                                                                         *)
(* SUM is a fold over a set, defined by recursion over its subsets.  What  *)
(* it computes is proved by induction all the same: the smallest subset    *)
(* of which a claim fails (SmallestSubset) would have a smaller one.       *)
(***************************************************************************)
EXTENDS Queries, FiniteSetTheorems, TLAPS

-----------------------------------------------------------------------------
\* A set of subsets of a finite set has a smallest member.
LEMMA SmallestSubset ==
  ASSUME NEW S, IsFiniteSet(S), NEW C \in SUBSET SUBSET S, C # {}
  PROVE  \E T \in C : \A U \in SUBSET T : U # T => U \notin C
  <1>1. IsWellFoundedOn(StrictSubsetOrdering(S), FiniteSubsetsOf(S))
    BY FS_StrictSubsetOrderingWellFounded
  <1>2. FiniteSubsetsOf(S) = SUBSET S
    BY FS_FiniteSubsetsOfFinite
  <1>3. PICK T \in C : \A U \in C : ~(<<U, T>> \in StrictSubsetOrdering(S))
    BY <1>1, <1>2, WFMin
  <1> QED BY <1>3 DEF StrictSubsetOrdering

-----------------------------------------------------------------------------
\* Sums of a function over a finite set.

\* The element that the fold takes next.
Some(S) == CHOOSE x \in S : TRUE

Rest(S) == S \ {Some(S)}

\* g has the sum of f over every subset of S: the equation of MapThenFoldSet.
Sums(f, S, g) ==
  g = [T \in SUBSET S |-> IF T = {} THEN 0 ELSE f[Some(T)] + g[Rest(T)]]

\* The sum of f over S.
Total(f, S) == (CHOOSE g : Sums(f, S, g))[S]

LEMMA SomeIsIn == ASSUME NEW S, S # {} PROVE Some(S) \in S /\ Rest(S) \subseteq S /\ Rest(S) # S
  BY DEF Some, Rest

\* The recursion has one solution on each subset.
LEMMA SumsAgree ==
  ASSUME NEW S, IsFiniteSet(S), NEW T \in SUBSET S, NEW f, NEW g, NEW h,
         Sums(f, S, g), Sums(f, T, h)
  PROVE  \A U \in SUBSET T : g[U] = h[U]
  <1> DEFINE C == {U \in SUBSET T : g[U] # h[U]}
  <1> SUFFICES ASSUME C # {} PROVE FALSE
    OBVIOUS
  <1>1. PICK U \in C : \A V \in SUBSET U : V # U => V \notin C
    <2> C \in SUBSET SUBSET S
      OBVIOUS
    <2> HIDE DEF C
    <2> QED BY SmallestSubset
  <1>2. U \in SUBSET S /\ U \in SUBSET T
    OBVIOUS
  <1>3. /\ g[U] = IF U = {} THEN 0 ELSE f[Some(U)] + g[Rest(U)]
        /\ h[U] = IF U = {} THEN 0 ELSE f[Some(U)] + h[Rest(U)]
    BY <1>2 DEF Sums
  <1>4. U # {} => g[Rest(U)] = h[Rest(U)]
    BY <1>1, <1>2, SomeIsIn
  <1> QED BY <1>3, <1>4

\* And it has one: on the smallest set without a solution, those of its subsets
\* would make one.
LEMMA SumsExist ==
  ASSUME NEW S, IsFiniteSet(S), NEW f
  PROVE  \E g : Sums(f, S, g)
  <1> DEFINE C == {U \in SUBSET S : ~ \E g : Sums(f, U, g)}
  <1> SUFFICES ASSUME C # {} PROVE FALSE
    OBVIOUS
  <1>1. PICK U \in C : \A V \in SUBSET U : V # U => V \notin C
    <2> C \in SUBSET SUBSET S
      OBVIOUS
    <2> HIDE DEF C
    <2> QED BY SmallestSubset
  <1>2. IsFiniteSet(U)
    BY FS_Subset
  <1> DEFINE H(V) == CHOOSE h : Sums(f, V, h)
             g == [V \in SUBSET U |-> IF V = {} THEN 0 ELSE f[Some(V)] + H(Rest(V))[Rest(V)]]
  <1>3. ASSUME NEW V \in SUBSET U, V # U PROVE Sums(f, V, H(V))
    <2>1. \E h : Sums(f, V, h)
      BY <1>1, <1>3
    <2> QED BY <2>1
  <1>4. ASSUME NEW V \in SUBSET U, V # {} PROVE H(Rest(V))[Rest(V)] = g[Rest(V)]
    <2> DEFINE R == Rest(V)
    <2>1. R \in SUBSET U /\ R # U
      BY <1>4, SomeIsIn
    <2>2. Sums(f, R, H(R))
      BY <2>1, <1>3
    <2>3. H(R)[R] = IF R = {} THEN 0 ELSE f[Some(R)] + H(R)[Rest(R)]
      BY <2>2 DEF Sums
    <2>4. R # {} => H(R)[Rest(R)] = H(Rest(R))[Rest(R)]
      <3> SUFFICES ASSUME R # {} PROVE H(R)[Rest(R)] = H(Rest(R))[Rest(R)]
        OBVIOUS
      <3>1. Rest(R) \in SUBSET R /\ Rest(R) # U
        BY <2>1, SomeIsIn
      <3>2. Sums(f, Rest(R), H(Rest(R)))
        BY <2>1, <3>1, <1>3
      <3>3. IsFiniteSet(R)
        BY <1>2, <2>1, FS_Subset
      <3> HIDE DEF H, R
      <3> QED BY <3>1, <3>2, <3>3, <2>2, SumsAgree
    <2>5. g[R] = IF R = {} THEN 0 ELSE f[Some(R)] + H(Rest(R))[Rest(R)]
      BY <2>1
    <2> QED BY <2>3, <2>4, <2>5
  <1>5. Sums(f, U, g)
    <2> HIDE DEF H
    <2> QED BY <1>4 DEF Sums
  <1> QED BY <1>5

\* The sum of nothing is 0, of anything else the element chosen and the rest.
LEMMA TotalEquation ==
  ASSUME NEW S, IsFiniteSet(S), NEW f, NEW T \in SUBSET S
  PROVE  Total(f, T) = IF T = {} THEN 0 ELSE f[Some(T)] + Total(f, Rest(T))
  <1>1. ASSUME NEW U \in SUBSET S PROVE Sums(f, U, CHOOSE g : Sums(f, U, g))
    <2>1. IsFiniteSet(U)
      BY FS_Subset
    <2> QED BY <2>1, SumsExist
  <1> DEFINE G(U) == CHOOSE g : Sums(f, U, g)
  <1>2. Sums(f, T, G(T))
    BY <1>1
  <1>3. G(T)[T] = IF T = {} THEN 0 ELSE f[Some(T)] + G(T)[Rest(T)]
    BY <1>2 DEF Sums
  <1>4. T # {} => G(T)[Rest(T)] = G(Rest(T))[Rest(T)]
    <2> SUFFICES ASSUME T # {} PROVE G(T)[Rest(T)] = G(Rest(T))[Rest(T)]
      OBVIOUS
    <2>1. Rest(T) \in SUBSET T /\ IsFiniteSet(T)
      BY SomeIsIn, FS_Subset
    <2>2. Sums(f, Rest(T), G(Rest(T)))
      BY <1>1, <2>1
    <2> HIDE DEF G
    <2> QED BY <1>2, <2>1, <2>2, SumsAgree
  <1> QED BY <1>3, <1>4 DEF Total

LEMMA TotalType ==
  ASSUME NEW S, IsFiniteSet(S), NEW f, \A x \in S : f[x] \in Nat
  PROVE  Total(f, S) \in Nat
  <1> DEFINE C == {U \in SUBSET S : Total(f, U) \notin Nat}
  <1> SUFFICES ASSUME C # {} PROVE FALSE
    OBVIOUS
  <1>1. PICK U \in C : \A V \in SUBSET U : V # U => V \notin C
    <2> C \in SUBSET SUBSET S
      OBVIOUS
    <2> HIDE DEF C
    <2> QED BY SmallestSubset
  <1>2. U # {} => Some(U) \in S /\ Total(f, Rest(U)) \in Nat
    BY <1>1, SomeIsIn
  <1>3. Total(f, U) = IF U = {} THEN 0 ELSE f[Some(U)] + Total(f, Rest(U))
    BY TotalEquation
  <1>4. Total(f, U) \in Nat
    <2> HIDE DEF C
    <2> QED BY <1>2, <1>3
  <1> QED BY <1>4

\* It does not matter which element is added last.
LEMMA TotalWithout ==
  ASSUME NEW S, IsFiniteSet(S), NEW f, \A x \in S : f[x] \in Nat,
         NEW x \in S
  PROVE  Total(f, S) = f[x] + Total(f, S \ {x})
  <1> DEFINE C == {U \in SUBSET S : \E y \in U : Total(f, U) # f[y] + Total(f, U \ {y})}
  <1> SUFFICES ASSUME C # {} PROVE FALSE
    OBVIOUS
  <1>1. PICK U \in C : \A V \in SUBSET U : V # U => V \notin C
    <2> C \in SUBSET SUBSET S
      OBVIOUS
    <2> HIDE DEF C
    <2> QED BY SmallestSubset
  <1>2. PICK y \in U : Total(f, U) # f[y] + Total(f, U \ {y})
    OBVIOUS
  <1>3. ASSUME NEW V \in SUBSET U, V # U, NEW z \in V
        PROVE  Total(f, V) = f[z] + Total(f, V \ {z})
    BY <1>1, <1>3
  <1> HIDE DEF C
  <1>4. U \in SUBSET S /\ U # {}
    BY DEF C
  <1> DEFINE c == Some(U)
             R == Rest(U)
             B == Total(f, R \ {y})
  <1>5. c \in U /\ R \in SUBSET U /\ R # U /\ R = U \ {c}
    BY <1>4, SomeIsIn DEF Rest
  <1>6. Total(f, U) = f[c] + Total(f, R)
    BY <1>4, TotalEquation
  <1>7. y # c
    BY <1>2, <1>5, <1>6
  <1>8. Total(f, R) = f[y] + B
    BY <1>3, <1>5, <1>7
  <1>9. Total(f, U \ {y}) = f[c] + B
    <2>1. Total(f, U \ {y}) = f[c] + Total(f, (U \ {y}) \ {c})
      BY <1>3, <1>5, <1>7
    <2>2. (U \ {y}) \ {c} = R \ {y}
      BY <1>5
    <2> QED BY <2>1, <2>2
  <1>10. f[y] \in Nat /\ f[c] \in Nat /\ B \in Nat
    <2>1. IsFiniteSet(R \ {y}) /\ R \ {y} \subseteq S
      BY <1>4, <1>5, FS_Subset
    <2> QED BY <1>4, <1>5, <2>1, TotalType
  <1> HIDE DEF c, R, B
  <1> QED BY <1>2, <1>6, <1>8, <1>9, <1>10

\* The sum over two sets without a common element.
LEMMA TotalOfUnion ==
  ASSUME NEW S, IsFiniteSet(S), NEW f, \A x \in S : f[x] \in Nat,
         NEW A \in SUBSET S, NEW B \in SUBSET S, A \cap B = {}
  PROVE  Total(f, A \cup B) = Total(f, A) + Total(f, B)
  <1> DEFINE C == {U \in SUBSET A : Total(f, U \cup B) # Total(f, U) + Total(f, B)}
  <1> SUFFICES ASSUME C # {} PROVE FALSE
    OBVIOUS
  <1>0. /\ IsFiniteSet(A)
        /\ \A V \in SUBSET S : IsFiniteSet(V) /\ Total(f, V) \in Nat
    BY FS_Subset, TotalType
  <1>1. PICK U \in C : \A V \in SUBSET U : V # U => V \notin C
    <2> C \in SUBSET SUBSET A
      OBVIOUS
    <2> HIDE DEF C
    <2> QED BY <1>0, SmallestSubset
  <1>2. U # {}
    <2>1. Total(f, {}) = 0
      BY TotalEquation
    <2> QED BY <1>0, <2>1
  <1>3. PICK x \in U : TRUE
    BY <1>2
  <1> DEFINE R == U \ {x}
  <1>4. Total(f, R \cup B) = Total(f, R) + Total(f, B)
    BY <1>1
  <1>5. Total(f, U) = f[x] + Total(f, R)
    BY <1>0, TotalWithout
  <1>6. Total(f, U \cup B) = f[x] + Total(f, R \cup B)
    <2>1. x \in U \cup B /\ U \cup B \in SUBSET S /\ (U \cup B) \ {x} = R \cup B
      OBVIOUS
    <2> QED BY <1>0, <2>1, TotalWithout
  <1>7. f[x] \in Nat /\ Total(f, R) \in Nat /\ Total(f, B) \in Nat
    BY <1>0
  <1>8. Total(f, U \cup B) # Total(f, U) + Total(f, B)
    OBVIOUS
  <1> HIDE DEF C, R
  <1> QED BY <1>4, <1>5, <1>6, <1>7, <1>8

-----------------------------------------------------------------------------
\* The queries are sums in this sense.

BytesOf(rows) == [r \in rows |-> r.data.bytes]

\* The fold the queries are defined by is this sum.
LEMMA BytesIsTotal ==
  ASSUME NEW rows, IsFiniteSet(rows), NEW T \in SUBSET rows
  PROVE  Bytes(T) = Total(BytesOf(rows), T)
  <1> DEFINE f == BytesOf(rows)
             Body(g) == [U \in SUBSET T |-> IF U = {} THEN 0
                           ELSE Some(U).data.bytes + g[U \ {Some(U)}]]
             h == CHOOSE g : g = Body(g)
  <1>1. Bytes(T) = h[T]
    BY DEF Bytes, MapThenSumSet, MapThenFoldSet, Some
  <1>2. ASSUME NEW g PROVE (g = Body(g)) <=> Sums(f, T, g)
    <2>1. ASSUME NEW U \in SUBSET T, U # {} PROVE f[Some(U)] = Some(U).data.bytes
      BY <2>1, SomeIsIn DEF BytesOf
    <2>2. Body(g) = [U \in SUBSET T |-> IF U = {} THEN 0 ELSE f[Some(U)] + g[Rest(U)]]
      BY <2>1 DEF Rest
    <2> QED BY <2>2 DEF Sums
  <1>3. IsFiniteSet(T)
    BY FS_Subset
  <1>4. h = Body(h)
    <2>1. PICK g : Sums(f, T, g)
      BY <1>3, SumsExist
    <2>2. g = Body(g)
      BY <1>2, <2>1
    <2> HIDE DEF Body
    <2> QED BY <2>2
  <1>5. Sums(f, T, h)
    <2> HIDE DEF Body
    <2> QED BY <1>2, <1>4
  <1>6. Sums(f, T, CHOOSE g : Sums(f, T, g))
    BY <1>5
  <1> QED
    <2> HIDE DEF h
    <2> QED BY <1>1, <1>3, <1>5, <1>6, SumsAgree DEF Total

\* What the lines of a list add up to.
GroupSum(groups) == MapThenSumSet(LAMBDA k : groups[k], DOMAIN groups)

LEMMA GroupSumIsTotal ==
  ASSUME NEW K, IsFiniteSet(K), NEW groups, DOMAIN groups = K
  PROVE  GroupSum(groups) = Total(groups, K)
  <1> DEFINE Body(g) == [U \in SUBSET K |-> IF U = {} THEN 0
                           ELSE groups[Some(U)] + g[U \ {Some(U)}]]
             h == CHOOSE g : g = Body(g)
  <1>1. GroupSum(groups) = h[K]
    BY DEF GroupSum, MapThenSumSet, MapThenFoldSet, Some
  <1>2. \A g : Sums(groups, K, g) <=> g = Body(g)
    BY DEF Sums, Rest
  <1>4. h = Body(h)
    <2>1. PICK g : Sums(groups, K, g)
      BY SumsExist
    <2>2. g = Body(g)
      BY <1>2, <2>1
    <2> HIDE DEF Body
    <2> QED BY <2>2
  <1>5. Sums(groups, K, h)
    <2> HIDE DEF Body
    <2> QED BY <1>2, <1>4
  <1>6. Sums(groups, K, CHOOSE g : Sums(groups, K, g))
    BY <1>5
  <1> QED
    <2> HIDE DEF h
    <2> QED BY <1>1, <1>5, <1>6, SumsAgree DEF Total

\* Rows as the table has them: finitely many, with bytes that are not negative.
Counted(rows) == IsFiniteSet(rows) /\ \A r \in rows : r.data.bytes \in Nat

LEMMA BytesType ==
  ASSUME NEW rows, Counted(rows), NEW A \in SUBSET rows
  PROVE  Bytes(A) \in Nat /\ Bytes({}) = 0
  <1> DEFINE f == BytesOf(rows)
  <1>1. IsFiniteSet(rows) /\ IsFiniteSet(A) /\ \A r \in rows : f[r] \in Nat
    BY FS_Subset DEF Counted, BytesOf
  <1>2. \A T \in SUBSET rows : Bytes(T) = Total(f, T)
    BY <1>1, BytesIsTotal
  <1> HIDE DEF f
  <1>3. Total(f, A) \in Nat
    BY <1>1, TotalType
  <1>4. Total(f, {}) = 0
    BY <1>1, TotalEquation
  <1> QED BY <1>2, <1>3, <1>4

LEMMA BytesOfParts ==
  ASSUME NEW rows, Counted(rows),
         NEW A \in SUBSET rows, NEW B \in SUBSET rows, A \cap B = {}
  PROVE  Bytes(A \cup B) = Bytes(A) + Bytes(B)
  <1> DEFINE f == BytesOf(rows)
  <1>1. IsFiniteSet(rows) /\ \A r \in rows : f[r] \in Nat
    BY DEF Counted, BytesOf
  <1>2. \A T \in SUBSET rows : Bytes(T) = Total(f, T)
    BY <1>1, BytesIsTotal
  <1> HIDE DEF f
  <1>3. Total(f, A \cup B) = Total(f, A) + Total(f, B)
    BY <1>1, TotalOfUnion
  <1> QED BY <1>2, <1>3

-----------------------------------------------------------------------------
\* GROUP BY, whatever the key, distributes the bytes without loss.
LEMMA GroupsPartition ==
  ASSUME NEW rows, Counted(rows), NEW V, NEW key \in [rows -> V]
  PROVE  GroupSum(GroupBy(key)) = Bytes(rows)
  <1> DEFINE K == {key[r] : r \in rows}
             With(L) == {r \in rows : key[r] \in L}
             groups == GroupBy(key)
             C == {L \in SUBSET K : Total(groups, L) # Bytes(With(L))}
  <1>1. IsFiniteSet(K)
    <2>1. key \in Surjection(rows, K)
      BY DEF Surjection
    <2> QED BY <2>1, FS_Surjection DEF Counted
  <1>2. groups = [k \in K |-> Bytes({r \in rows : key[r] = k})]
    BY DEF GroupBy
  <1>3. \A A \in SUBSET rows : Bytes(A) \in Nat
    BY BytesType
  <1>4. \A k \in K : groups[k] \in Nat
    BY <1>2, <1>3
  <1>5. C = {}
    <2> SUFFICES ASSUME C # {} PROVE FALSE
      OBVIOUS
    <2>1. PICK L \in C : \A M \in SUBSET L : M # L => M \notin C
      <3> C \in SUBSET SUBSET K
        OBVIOUS
      <3> HIDE DEF C, K
      <3> QED BY <1>1, SmallestSubset
    <2>2. L \in SUBSET K /\ Total(groups, L) # Bytes(With(L))
      OBVIOUS
    <2>3. L # {}
      <3>1. Total(groups, {}) = 0
        BY <1>1, TotalEquation
      <3>2. With({}) = {} /\ Bytes({}) = 0
        BY BytesType
      <3> HIDE DEF With, groups, K
      <3> QED BY <2>2, <3>1, <3>2
    <2>4. PICK k \in L : TRUE
      BY <2>3
    <2> DEFINE R == L \ {k}
               Of == {r \in rows : key[r] = k}
    <2>5. Total(groups, R) = Bytes(With(R))
      BY <2>1
    <2>6. Total(groups, L) = groups[k] + Total(groups, R)
      <3>1. IsFiniteSet(L) /\ \A x \in L : groups[x] \in Nat
        BY <1>1, <1>4, <2>2, FS_Subset
      <3> HIDE DEF groups
      <3> QED BY <3>1, TotalWithout
    <2>7. groups[k] = Bytes(Of)
      BY <1>2, <2>2
    <2>8. Bytes(With(L)) = Bytes(Of) + Bytes(With(R))
      <3>1. With(L) = Of \cup With(R) /\ Of \cap With(R) = {}
        OBVIOUS
      <3>2. Of \in SUBSET rows /\ With(R) \in SUBSET rows
        OBVIOUS
      <3> HIDE DEF Of, With, R
      <3>3. Bytes(Of \cup With(R)) = Bytes(Of) + Bytes(With(R))
        BY <3>1, <3>2, BytesOfParts
      <3> QED BY <3>1, <3>3
    <2> HIDE DEF groups, With, R, Of, C, K
    <2> QED BY <2>2, <2>5, <2>6, <2>7, <2>8
  <1>6. Total(groups, K) = Bytes(With(K))
    BY <1>5
  <1>7. With(K) = rows
    OBVIOUS
  <1>8. DOMAIN groups = K
    BY <1>2
  <1>9. GroupSum(groups) = Total(groups, K)
    <2> HIDE DEF groups, K
    <2> QED BY <1>1, <1>8, GroupSumIsTotal
  <1> QED BY <1>6, <1>7, <1>9

\* The lists by domain (query.rs:84) and by process (query.rs:108) and the rate
\* series (query.rs:132) each account for every byte of total_since, also for
\* the rows without a domain and for the bucket that "since" cuts off.
THEOREM GroupingsAddUp ==
  ASSUME NEW rows, Counted(rows), NEW since, NEW bucket,
         NEW groups \in {ByDomain(rows, since), ByProcess(rows, since),
                         RateSeries(rows, since, bucket)}
  PROVE  GroupSum(groups) = TotalSince(rows, since)
  <1> DEFINE S == Since(rows, since)
  <1>1. Counted(S)
    <2>1. S \in SUBSET rows
      BY DEF Since
    <2> QED BY <2>1, FS_Subset DEF Counted
  <1>2. ASSUME NEW key, key = [r \in S |-> key[r]]
        PROVE  GroupSum(GroupBy(key)) = TotalSince(rows, since)
    <2>1. key \in [S -> {key[r] : r \in S}]
      BY <1>2
    <2> HIDE DEF S
    <2>2. GroupSum(GroupBy(key)) = Bytes(S)
      BY <1>1, <2>1, GroupsPartition
    <2> QED BY <2>2 DEF TotalSince, S
  <1> QED BY <1>2 DEF ByDomain, ByProcess, RateSeries

\* total_since (query.rs:148) does not shrink when rows are added.
THEOREM TotalsGrow ==
  ASSUME NEW rows, NEW more, Counted(more), rows \subseteq more, NEW since
  PROVE  TotalSince(rows, since) <= TotalSince(more, since)
  <1> DEFINE A == Since(rows, since)
             B == Since(more, since) \ A
  <1>1. /\ A \in SUBSET more /\ B \in SUBSET more /\ A \cap B = {}
        /\ Since(more, since) = A \cup B
    BY DEF Since
  <1>2. Bytes(A) \in Nat /\ Bytes(B) \in Nat /\ Bytes(A \cup B) = Bytes(A) + Bytes(B)
    <2> HIDE DEF A, B
    <2> QED BY <1>1, BytesOfParts, BytesType
  <1>3. Bytes(A) <= Bytes(A \cup B)
    <2> HIDE DEF A, B
    <2> QED BY <1>2
  <1> QED BY <1>1, <1>3 DEF TotalSince
=============================================================================
