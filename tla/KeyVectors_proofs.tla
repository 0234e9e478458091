-------------------------- MODULE KeyVectors_proofs --------------------------
(* What Permutation and Selection do, for vectors of any length.           *)
EXTENDS Permutation, Selection, FiniteSetTheorems, SequenceTheorems, TLAPS

\* A shuffled sequence has the length and the elements of the original.
LEMMA PermuteType ==
    ASSUME NEW n \in Nat, NEW perm \in Shuffles(n), NEW S, NEW data \in [1..n -> S]
    PROVE  /\ Permute(perm, data) \in [1..n -> S]
           /\ DOMAIN perm = 1..n
           /\ \A i \in 1..n : perm[i] \in 1..n /\ Permute(perm, data)[i] = data[perm[i]]
BY DEF Shuffles, Bijection, Injection, Surjection, Permute

\* Where the item at j was moved to.
Position(perm, j) == CHOOSE i \in DOMAIN perm : perm[i] = j

\* Every item was moved somewhere.
LEMMA PositionType ==
    ASSUME NEW n \in Nat, NEW perm \in Shuffles(n), NEW j \in 1..n
    PROVE  Position(perm, j) \in 1..n /\ perm[Position(perm, j)] = j
<1>1. DOMAIN perm = 1..n
  BY DEF Shuffles, Bijection, Injection, Surjection
<1>2. \E k \in 1..n : perm[k] = j
  BY DEF Shuffles, Bijection, Injection, Surjection
<1> QED
  BY <1>1, <1>2 DEF Position

\* Undoing puts the item shuffled to position i back where it came from.
LEMMA UndoAt ==
    ASSUME NEW n \in Nat, NEW perm \in Shuffles(n), NEW data
    PROVE  Undo(perm, data) = [j \in 1..n |-> data[Position(perm, j)]]
<1>1. DOMAIN perm = 1..n
  BY DEF Shuffles, Bijection, Injection, Surjection
<1> QED
  BY <1>1 DEF Undo, Position

\* permute_and_undo with FALSE is the inverse of permute_and_undo with TRUE.
THEOREM UndoPermute ==
    ASSUME NEW n \in Nat, NEW perm \in Shuffles(n), NEW S, NEW data \in [1..n -> S]
    PROVE  Undo(perm, Permute(perm, data)) = data
<1> DEFINE shuffled == Permute(perm, data)
<1>1. /\ DOMAIN perm = 1..n
      /\ \A i \in 1..n : perm[i] \in 1..n /\ shuffled[i] = data[perm[i]]
  BY PermuteType
<1> HIDE DEF shuffled
<1>2. Undo(perm, shuffled) = [j \in 1..n |-> shuffled[Position(perm, j)]]
  BY UndoAt
<1>3. ASSUME NEW j \in 1..n PROVE shuffled[Position(perm, j)] = data[j]
  BY <1>1, PositionType
<1>4. Undo(perm, shuffled) = [j \in 1..n |-> data[j]]
  BY <1>2, <1>3
<1> QED
  BY <1>4 DEF shuffled

-----------------------------------------------------------------------------
\* A set of positions of a vector is finite.
LEMMA PositionsFinite ==
    ASSUME NEW n \in Nat, NEW I \in SUBSET (1..n)
    PROVE  IsFiniteSet(I) /\ Cardinality(I) \in Nat /\ Cardinality(I) <= n
<1>1. IsFiniteSet(1..n) /\ Cardinality(1..n) = n
  BY FS_Interval
<1>2. IsFiniteSet(I) /\ Cardinality(I) <= Cardinality(1..n)
  BY <1>1, FS_Subset
<1> QED
  BY <1>1, <1>2, FS_CardinalityType

\* The rank of a member is between 1 and the number of members.
LEMMA RankType ==
    ASSUME NEW n \in Nat, NEW I \in SUBSET (1..n), NEW x \in I
    PROVE  Rank(I, x) \in 1..Cardinality(I)
<1> DEFINE below == {y \in I : y <= x}
<1>1. IsFiniteSet(I) /\ Cardinality(I) \in Nat
  BY PositionsFinite
<1>2. below \in SUBSET I /\ x \in below
  OBVIOUS
<1> HIDE DEF below
<1>3. IsFiniteSet(below) /\ Cardinality(below) <= Cardinality(I)
  BY <1>1, <1>2, FS_Subset
<1>4. Cardinality(below) \in Nat /\ Cardinality(below) # 0
  BY <1>2, <1>3, FS_CardinalityType, FS_EmptySet
<1>5. Cardinality(below) \in 1..Cardinality(I)
  BY <1>1, <1>3, <1>4
<1> QED
  BY <1>5 DEF Rank, below

\* A greater member has a greater rank.
LEMMA RankMonotonic ==
    ASSUME NEW n \in Nat, NEW I \in SUBSET (1..n), NEW x \in I, NEW z \in I, x < z
    PROVE  Rank(I, x) < Rank(I, z)
<1> DEFINE low == {y \in I : y <= x}
           high == {y \in I : y <= z}
<1>1. IsFiniteSet(I)
  BY PositionsFinite
<1>2. high \in SUBSET I /\ low \in SUBSET high /\ z \in high /\ z \notin low
  <2>1. \A y \in I : y \in Int
    OBVIOUS
  <2>2. ~(z <= x) /\ z <= z /\ \A y \in I : y <= x => y <= z
    BY <2>1
  <2> QED
    BY <2>2, Zenon
<1> HIDE DEF low, high
<1>3. IsFiniteSet(high)
  BY <1>1, <1>2, FS_Subset
<1>4. /\ IsFiniteSet(low) /\ Cardinality(low) <= Cardinality(high)
      /\ Cardinality(low) # Cardinality(high)
  BY <1>2, <1>3, FS_Subset
<1>5. Cardinality(low) \in Nat /\ Cardinality(high) \in Nat
  BY <1>3, <1>4, FS_CardinalityType
<1>6. Cardinality(low) < Cardinality(high)
  BY <1>4, <1>5
<1> QED
  BY <1>6 DEF Rank, low, high

\* Every rank is taken, by one member: ranking is a bijection, so the copy
\* loop writes each slot of the result once.
THEOREM NthType ==
    ASSUME NEW n \in Nat, NEW I \in SUBSET (1..n), NEW i \in 1..Cardinality(I)
    PROVE  Nth(I, i) \in I /\ Rank(I, Nth(I, i)) = i
<1> DEFINE T == 1..Cardinality(I)
           rank == [x \in I |-> Rank(I, x)]
<1>1. IsFiniteSet(I) /\ Cardinality(I) \in Nat
  BY PositionsFinite
<1>2. IsFiniteSet(T) /\ Cardinality(T) = Cardinality(I)
  BY <1>1, FS_Interval
<1>3. rank \in [I -> T]
  BY RankType
<1>4. ASSUME NEW x \in I, NEW z \in I, rank[x] = rank[z] PROVE x = z
  <2>1. x \in Nat /\ z \in Nat
    OBVIOUS
  <2>2. Rank(I, x) \in T /\ Rank(I, z) \in T /\ Rank(I, x) = Rank(I, z)
    BY <1>3, <1>4
  <2>3. ~(Rank(I, x) < Rank(I, z)) /\ ~(Rank(I, z) < Rank(I, x))
    BY <1>1, <2>2
  <2>4. ~(x < z) /\ ~(z < x)
    BY <2>3, RankMonotonic, Z3
  <2> QED
    BY <2>1, <2>4
<1>5. rank \in Injection(I, T)
  BY <1>3, <1>4 DEF Injection, IsInjective
<1>6. rank \in Surjection(I, T)
  BY <1>2, <1>5, FS_Injection
<1>7. \E x \in I : Rank(I, x) = i
  BY <1>6 DEF Surjection
<1> QED
  BY <1>7 DEF Nth

\* The result is a sequence of the chosen elements, one for each position.
LEMMA PickType ==
    ASSUME NEW S, NEW s \in Seq(S), NEW I \in SUBSET (DOMAIN s)
    PROVE  /\ Pick(s, I) \in Seq(S)
           /\ Cardinality(I) \in Nat /\ Len(Pick(s, I)) = Cardinality(I)
<1>1. Len(s) \in Nat /\ DOMAIN s = 1..Len(s)
  BY LenProperties
<1>2. Cardinality(I) \in Nat
  BY <1>1, PositionsFinite
<1>3. \A i \in 1..Cardinality(I) : s[Nth(I, i)] \in S
  BY <1>1, NthType, ElementOfSeq
<1>4. Pick(s, I) \in [1..Cardinality(I) -> S]
  BY <1>3 DEF Pick
<1> QED
  BY <1>2, <1>4

\* The copy loop lists the chosen positions, each once.
LEMMA NthBijection ==
    ASSUME NEW n \in Nat, NEW I \in SUBSET (1..n)
    PROVE  [i \in 1..Cardinality(I) |-> Nth(I, i)] \in Bijection(1..Cardinality(I), I)
<1> DEFINE T == 1..Cardinality(I)
           pick == [i \in T |-> Nth(I, i)]
<1>1. pick \in [T -> I] /\ \A i \in T : Rank(I, pick[i]) = i
  BY NthType
<1>2. pick \in Injection(T, I)
  BY <1>1 DEF Injection, IsInjective
<1>3. IsFiniteSet(I) /\ Cardinality(I) \in Nat
  BY PositionsFinite
<1>4. IsFiniteSet(T) /\ Cardinality(T) = Cardinality(I)
  BY <1>3, FS_Interval
<1>5. pick \in Surjection(T, I)
  BY <1>2, <1>3, <1>4, FS_Injection
<1> QED
  BY <1>2, <1>5 DEF Bijection
-----------------------------------------------------------------------------
\* What is done to each element of a sequence is done to one that is appended.
LEMMA MapAppend ==
    ASSUME NEW X, NEW Y, NEW s \in Seq(X), NEW e \in X, NEW f \in [X -> Y]
    PROVE  [n \in DOMAIN Append(s, e) |-> f[Append(s, e)[n]]]
              = Append([n \in DOMAIN s |-> f[s[n]]], f[e])
<1> DEFINE m == [n \in DOMAIN s |-> f[s[n]]]
           t == Append(s, e)
           u == Append(m, f[e])
<1>1. Len(s) \in Nat /\ DOMAIN s = 1..Len(s) /\ \A n \in 1..Len(s) : s[n] \in X
  BY LenProperties, ElementOfSeq
<1>2. m \in Seq(Y) /\ Len(m) = Len(s) /\ DOMAIN m = 1..Len(s)
  <2>1. m \in [1..Len(s) -> Y]
    BY <1>1
  <2> QED
    BY <1>1, <2>1
<1>3. /\ t \in Seq(X) /\ Len(t) = Len(s) + 1 /\ t[Len(s) + 1] = e
      /\ \A n \in 1..Len(s) : t[n] = s[n]
  BY AppendProperties
<1>4. /\ u \in Seq(Y) /\ Len(u) = Len(s) + 1 /\ u[Len(s) + 1] = f[e]
      /\ \A n \in 1..Len(s) : u[n] = f[s[n]]
  <2>1. f[e] \in Y
    OBVIOUS
  <2>2. /\ u \in Seq(Y) /\ Len(u) = Len(m) + 1 /\ u[Len(m) + 1] = f[e]
        /\ \A n \in 1..Len(m) : u[n] = m[n]
    BY <1>2, <2>1, AppendProperties
  <2> QED
    BY <1>1, <1>2, <2>2
<1>5. /\ DOMAIN t = 1..(Len(s) + 1) /\ DOMAIN u = 1..(Len(s) + 1)
      /\ u = [n \in DOMAIN u |-> u[n]]
  BY <1>3, <1>4, LenProperties
<1> HIDE DEF t, u, m
<1>6. ASSUME NEW n \in 1..(Len(s) + 1) PROVE f[t[n]] = u[n]
  BY <1>1, <1>3, <1>4
<1>7. [n \in DOMAIN t |-> f[t[n]]] = u
  BY <1>5, <1>6
<1> QED
  BY <1>7 DEF t, u, m

\* A function on 1, ..., n is a sequence.
LEMMA FunctionIsSeq ==
    ASSUME NEW n \in Nat, NEW T, NEW f \in [1..n -> T]
    PROVE  f \in Seq(T) /\ Len(f) = n
OBVIOUS
-----------------------------------------------------------------------------
\* No key comes twice.
Unrepeated(v) == \A i, j \in DOMAIN v : v[i] = v[j] => i = j

\* The positions of v that hold a key of w.
Shared(v, w) == {i \in DOMAIN v : v[i] \in Range(w)}

\* The keys of v at the positions in I, in some order.
InSomeOrder(v, I) ==
    {[k \in 1..Cardinality(I) |-> v[pick[k]]] : pick \in Bijection(1..Cardinality(I), I)}

LEMMA PickInOrder ==
    ASSUME NEW n \in Nat, NEW I \in SUBSET (1..n), NEW v
    PROVE  Pick(v, I) \in InSomeOrder(v, I)
<1>1. PICK pick \in Bijection(1..Cardinality(I), I) :
        pick = [k \in 1..Cardinality(I) |-> Nth(I, k)]
  BY NthBijection
<1>2. Pick(v, I) = [k \in 1..Cardinality(I) |-> v[pick[k]]]
  BY <1>1 DEF Pick
<1>3. \E x \in Bijection(1..Cardinality(I), I) :
         Pick(v, I) = [k \in 1..Cardinality(I) |-> v[x[k]]]
  BY <1>1, <1>2
<1> QED
  BY <1>3, Zenon DEF InSomeOrder

\* Two vectors without repetitions: each finds as many common keys as the other,
\* and what one picks is the common keys of the other in some order.
LEMMA PickOfOther ==
    ASSUME NEW K, NEW mine \in Seq(K), NEW theirs \in Seq(K),
           Unrepeated(mine), Unrepeated(theirs)
    PROVE  /\ Cardinality(Shared(theirs, mine)) = Cardinality(Shared(mine, theirs))
           /\ Pick(theirs, Shared(theirs, mine)) \in InSomeOrder(mine, Shared(mine, theirs))
<1> DEFINE I == Shared(mine, theirs)
           J == Shared(theirs, mine)
           across == [j \in J |-> CHOOSE i \in I : mine[i] = theirs[j]]
<1>0. /\ \A i : i \in I <=> i \in DOMAIN mine /\ mine[i] \in Range(theirs)
      /\ \A j : j \in J <=> j \in DOMAIN theirs /\ theirs[j] \in Range(mine)
      /\ \A i, j \in DOMAIN mine : mine[i] = mine[j] => i = j
      /\ \A i, j \in DOMAIN theirs : theirs[i] = theirs[j] => i = j
  BY DEF Shared, Unrepeated
<1> HIDE DEF I, J
<1>1. ASSUME NEW j \in J PROVE across[j] \in I /\ mine[across[j]] = theirs[j]
  <2>1. PICK i \in DOMAIN mine : mine[i] = theirs[j]
    BY <1>0, <1>1 DEF Range
  <2>2. mine[i] \in Range(theirs)
    BY <1>0, <1>1, <2>1 DEF Range
  <2>3. i \in I
    BY <1>0, <2>1, <2>2
  <2> QED
    BY <1>1, <2>1, <2>3
<1>2. ASSUME NEW i \in I PROVE \E j \in J : across[j] = i
  <2>1. PICK j \in DOMAIN theirs : theirs[j] = mine[i]
    BY <1>0, <1>2 DEF Range
  <2>2. i \in DOMAIN mine /\ theirs[j] \in Range(mine)
    BY <1>0, <1>2, <2>1 DEF Range
  <2>3. j \in J
    BY <1>0, <2>1, <2>2
  <2>4. across[j] \in DOMAIN mine /\ mine[across[j]] = mine[i]
    BY <1>0, <1>1, <2>1, <2>3
  <2> QED
    BY <1>0, <2>2, <2>3, <2>4
<1>3. \A j1, j2 \in J : across[j1] = across[j2] => j1 = j2
  <2> SUFFICES ASSUME NEW j1 \in J, NEW j2 \in J, across[j1] = across[j2]
               PROVE  j1 = j2
    OBVIOUS
  <2>1. theirs[j1] = theirs[j2]
    BY <1>1
  <2> QED
    BY <1>0, <2>1
<1>4. across \in [J -> I] /\ DOMAIN across = J
  BY <1>1
<1>5. Len(theirs) \in Nat /\ J \in SUBSET (1..Len(theirs))
  BY <1>0, LenProperties
<1>6. IsFiniteSet(J) /\ Cardinality(J) \in Nat
  BY <1>5, PositionsFinite
<1> HIDE DEF across
<1>7. across \in Bijection(J, I)
  <2>1. across \in Injection(J, I)
    BY <1>3, <1>4 DEF Injection, IsInjective
  <2>2. across \in Surjection(J, I)
    BY <1>2, <1>4 DEF Surjection
  <2> QED
    BY <2>1, <2>2 DEF Bijection
<1>8. Cardinality(J) = Cardinality(I)
  <2>1. ExistsBijection(J, I)
    BY <1>7 DEF ExistsBijection
  <2> QED
    BY <1>6, <2>1, FS_Bijection
<1>9. PICK c \in Nat : c = Cardinality(J) /\ c = Cardinality(I)
  BY <1>6, <1>8
<1> DEFINE nth == [k \in 1..c |-> Nth(J, k)]
<1>10. nth \in Bijection(1..c, J)
  BY <1>5, <1>9, NthBijection
<1>11. /\ \A k \in 1..c : nth[k] \in J
       /\ \A k, l \in 1..c : nth[k] = nth[l] => k = l
       /\ \A j \in J : \E k \in 1..c : nth[k] = j
  BY <1>10 DEF Bijection, Injection, Surjection, IsInjective
<1> DEFINE pick == [k \in 1..c |-> across[nth[k]]]
<1>12. pick \in [1..c -> I]
  BY <1>4, <1>11
<1>13. \A k, l \in 1..c : pick[k] = pick[l] => k = l
  BY <1>3, <1>11
<1>14. \A i \in I : \E k \in 1..c : pick[k] = i
  <2> SUFFICES ASSUME NEW i \in I PROVE \E k \in 1..c : pick[k] = i
    OBVIOUS
  <2>1. PICK j \in J : across[j] = i
    BY <1>2
  <2>2. PICK k \in 1..c : nth[k] = j
    BY <1>11
  <2> QED
    BY <2>1, <2>2
<1>15. \A k \in 1..c : theirs[Nth(J, k)] = mine[pick[k]]
  BY <1>1, <1>9, <1>11
<1> HIDE DEF pick
<1>16. pick \in Bijection(1..c, I)
  BY <1>12, <1>13, <1>14 DEF Bijection, Injection, Surjection, IsInjective
<1>17. Pick(theirs, J) = [k \in 1..c |-> mine[pick[k]]]
  BY <1>9, <1>15 DEF Pick
<1>18. Pick(theirs, J) \in InSomeOrder(mine, I)
  BY <1>9, <1>16, <1>17 DEF InSomeOrder
<1> QED
  BY <1>8, <1>18 DEF I, J
=============================================================================
