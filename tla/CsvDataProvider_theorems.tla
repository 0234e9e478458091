----------------------- MODULE CsvDataProvider_theorems -----------------------
(***************************************************************************)
(* What holds of CsvDataProvider, for every file, table and batch size:    *)
(* the invariant; that a caller holds the rows gone past, in order; that   *)
(* a scan to the end has read them all but for blank lines; and that a     *)
(* table written and read back is the same, if all its columns are         *)
(* counted and none of its rows is blank.                                  *)
(***************************************************************************)
EXTENDS CsvDataProvider_inv, KeyVectors_proofs

-----------------------------------------------------------------------------
(* Rows, and columns of rows.                                              *)

Row == Line \ {<<>>}

RowsAt(lines) == {i \in DOMAIN lines : lines[i] # <<>>}

\* Rows and columns are sequences.
LEMMA RowsType ==
    ASSUME NEW lines \in Seq(Line)
    PROVE  /\ Rows(lines) \in Seq(Row)
           /\ RowsAt(lines) \in SUBSET (1..Len(lines)) /\ Len(lines) \in Nat
           /\ IsFiniteSet(RowsAt(lines)) /\ Cardinality(RowsAt(lines)) \in Nat
           /\ Len(Rows(lines)) = Cardinality(RowsAt(lines))
<1>1. Len(lines) \in Nat /\ DOMAIN lines = 1..Len(lines)
  BY LenProperties
<1>2. RowsAt(lines) \in SUBSET (1..Len(lines)) /\ RowsAt(lines) \in SUBSET (DOMAIN lines)
  BY <1>1 DEF RowsAt
<1>3. IsFiniteSet(RowsAt(lines)) /\ Cardinality(RowsAt(lines)) \in Nat
  BY <1>1, <1>2, PositionsFinite
<1>4. Rows(lines) = [i \in 1..Cardinality(RowsAt(lines)) |-> lines[Nth(RowsAt(lines), i)]]
  BY DEF Rows, RowsAt, Pick
<1>5. \A i \in 1..Cardinality(RowsAt(lines)) : lines[Nth(RowsAt(lines), i)] \in Row
  <2> SUFFICES ASSUME NEW i \in 1..Cardinality(RowsAt(lines))
               PROVE  lines[Nth(RowsAt(lines), i)] \in Row
    OBVIOUS
  <2>1. Nth(RowsAt(lines), i) \in RowsAt(lines)
    BY <1>1, <1>2, NthType
  <2>2. lines[Nth(RowsAt(lines), i)] \in Line
    BY <1>2, <2>1, ElementOfSeq
  <2> QED
    BY <2>1, <2>2 DEF RowsAt, Row
<1>6. Rows(lines) \in [1..Cardinality(RowsAt(lines)) -> Row]
  BY <1>4, <1>5
<1> QED
  BY <1>1, <1>2, <1>3, <1>6, FunctionIsSeq

\* The i-th row is a line that is not blank.
LEMMA RowIs ==
    ASSUME NEW lines \in Seq(Line), NEW i \in DOMAIN Rows(lines)
    PROVE  \E k \in RowsAt(lines) : Rows(lines)[i] = lines[k]
<1>1. Len(lines) \in Nat /\ RowsAt(lines) \in SUBSET (1..Len(lines))
  BY RowsType
<1>2. i \in 1..Cardinality(RowsAt(lines)) /\ Rows(lines)[i] = lines[Nth(RowsAt(lines), i)]
  BY DEF Rows, RowsAt, Pick
<1> QED
  BY <1>1, <1>2, NthType

\* The member of a rank is the only one.
LEMMA NthIs ==
    ASSUME NEW n \in Nat, NEW I \in SUBSET (1..n), NEW x \in I
    PROVE  Nth(I, Rank(I, x)) = x
<1>1. Rank(I, x) \in 1..Cardinality(I)
  BY RankType
<1>2. PICK y : y = Nth(I, Rank(I, x))
  OBVIOUS
<1>3. y \in I /\ Rank(I, y) = Rank(I, x)
  BY <1>1, <1>2, NthType
<1>4. x \in Int /\ y \in Int /\ Rank(I, x) \in Int
  BY <1>1, <1>3
<1>5. ~(x < y) /\ ~(y < x)
  <2>1. x < y => Rank(I, x) < Rank(I, y)
    BY <1>3, RankMonotonic
  <2>2. y < x => Rank(I, y) < Rank(I, x)
    BY <1>3, RankMonotonic
  <2> QED
    BY <1>3, <1>4, <2>1, <2>2
<1> QED
  BY <1>2, <1>4, <1>5

\* Shifted by m, a set of positions has as many members.
LEMMA ShiftedSize ==
    ASSUME NEW m \in Nat, NEW n \in Nat, NEW J \in SUBSET (1..n)
    PROVE  /\ IsFiniteSet({m + j : j \in J})
           /\ Cardinality({m + j : j \in J}) = Cardinality(J)
<1> DEFINE T == {m + j : j \in J}
           shift == [j \in J |-> m + j]
<1>1. IsFiniteSet(J)
  BY PositionsFinite
<1>2. shift \in Bijection(J, T)
  <2>1. shift \in [J -> T] /\ \A t \in T : \E j \in J : shift[j] = t
    OBVIOUS
  <2>2. \A i, j \in J : shift[i] = shift[j] => i = j
    <3>1. \A i, j \in J : i \in Int /\ j \in Int
      OBVIOUS
    <3> QED
      BY <3>1
  <2> QED
    BY <2>1, <2>2 DEF Bijection, Injection, Surjection, IsInjective
<1>3. ExistsBijection(J, T)
  BY <1>2 DEF ExistsBijection
<1> HIDE DEF T
<1> QED
  BY <1>1, <1>3, FS_Bijection DEF T

\* The rows of two files one after the other.
LEMMA RowsConcat ==
    ASSUME NEW s \in Seq(Line), NEW t \in Seq(Line)
    PROVE  Rows(s \o t) = Rows(s) \o Rows(t)
<1> DEFINE u == s \o t
           I == RowsAt(s)
           J == RowsAt(t)
           K == RowsAt(u)
           shifted(T) == {Len(s) + j : j \in T}
<1>1. /\ u \in Seq(Line) /\ Len(u) = Len(s) + Len(t) /\ Len(s) \in Nat /\ Len(t) \in Nat
      /\ \A i \in 1..Len(s) : u[i] = s[i]
      /\ \A j \in 1..Len(t) : u[Len(s) + j] = t[j]
  <2>1. /\ u \in Seq(Line) /\ Len(u) = Len(s) + Len(t)
        /\ \A i \in 1..(Len(s) + Len(t)) :
              u[i] = IF i <= Len(s) THEN s[i] ELSE t[i - Len(s)]
    BY ConcatProperties
  <2>2. Len(s) \in Nat /\ Len(t) \in Nat
    BY LenProperties
  <2>3. \A i \in 1..Len(s) : i \in 1..(Len(s) + Len(t)) /\ i <= Len(s)
    BY <2>2
  <2>4. \A j \in 1..Len(t) : /\ Len(s) + j \in 1..(Len(s) + Len(t))
                             /\ ~(Len(s) + j <= Len(s)) /\ Len(s) + j - Len(s) = j
    BY <2>2
  <2> HIDE DEF u
  <2> QED
    BY <2>1, <2>2, <2>3, <2>4
<1>2. /\ DOMAIN s = 1..Len(s) /\ DOMAIN t = 1..Len(t) /\ DOMAIN u = 1..Len(u)
      /\ I \in SUBSET (1..Len(s)) /\ J \in SUBSET (1..Len(t)) /\ K \in SUBSET (1..Len(u))
      /\ IsFiniteSet(I) /\ IsFiniteSet(J)
      /\ Cardinality(I) \in Nat /\ Cardinality(J) \in Nat /\ Cardinality(K) \in Nat
  BY <1>1, RowsType, LenProperties
<1> HIDE DEF u
<1>3. K = I \cup shifted(J)
  <2>1. \A i \in 1..Len(u) : i \in 1..Len(s) \/ \E j \in 1..Len(t) : i = Len(s) + j
    <3>1. \A i \in 1..Len(u) : i \in 1..Len(s) \/ (i - Len(s) \in 1..Len(t)
                                                   /\ i = Len(s) + (i - Len(s)))
      BY <1>1
    <3> QED
      BY <3>1
  <2>2. \A i \in 1..Len(s) : i \in 1..Len(u)
    BY <1>1
  <2>3. \A j \in 1..Len(t) : Len(s) + j \in 1..Len(u)
    BY <1>1
  <2>4. /\ \A i : i \in I <=> i \in 1..Len(s) /\ s[i] # <<>>
        /\ \A j : j \in J <=> j \in 1..Len(t) /\ t[j] # <<>>
        /\ \A i : i \in K <=> i \in 1..Len(u) /\ u[i] # <<>>
    BY <1>2 DEF RowsAt
  <2> HIDE DEF I, J, K
  <2>5. ASSUME NEW i \in K
        PROVE  i \in I \/ \E j \in J : i = Len(s) + j
    <3>1. i \in 1..Len(u) /\ u[i] # <<>>
      BY <2>4
    <3>2. CASE i \in 1..Len(s)
      BY <1>1, <2>4, <3>1, <3>2
    <3>3. CASE \E j \in 1..Len(t) : i = Len(s) + j
      <4>1. PICK j \in 1..Len(t) : i = Len(s) + j
        BY <3>3
      <4>2. u[i] = t[j]
        BY <1>1, <4>1
      <4>3. j \in J
        BY <2>4, <3>1, <4>1, <4>2
      <4> QED
        BY <4>1, <4>3
    <3> QED
      BY <2>1, <3>1, <3>2, <3>3
  <2>6. ASSUME NEW i \in I
        PROVE  i \in K
    BY <1>1, <2>2, <2>4
  <2>7. ASSUME NEW j \in J
        PROVE  Len(s) + j \in K
    <3>1. j \in 1..Len(t) /\ t[j] # <<>>
      BY <2>4
    <3>2. u[Len(s) + j] = t[j] /\ Len(s) + j \in 1..Len(u)
      BY <1>1, <2>3, <3>1
    <3> QED
      BY <2>4, <3>1, <3>2
  <2> QED
    BY Zenon, <2>5, <2>6, <2>7
<1> HIDE DEF I, J, K
<1>4. ASSUME NEW T \in SUBSET J, NEW Q \in SUBSET I
      PROVE  /\ IsFiniteSet(Q \cup shifted(T))
             /\ Cardinality(Q \cup shifted(T)) = Cardinality(Q) + Cardinality(T)
  <2>1. IsFiniteSet(Q) /\ IsFiniteSet(T) /\ Cardinality(Q) \in Nat /\ Cardinality(T) \in Nat
    BY <1>2, FS_Subset, FS_CardinalityType
  <2>2. IsFiniteSet(shifted(T)) /\ Cardinality(shifted(T)) = Cardinality(T)
    BY <1>1, <1>2, ShiftedSize
  <2>3. Q \cap shifted(T) = {}
    <3>1. \A i \in I : \A j \in J : i # Len(s) + j
      <4>1. \A i \in I : i \in Int /\ i <= Len(s)
        BY <1>1, <1>2
      <4>2. \A j \in J : j \in Int /\ j >= 1
        BY <1>1, <1>2
      <4> QED
        BY <1>1, <4>1, <4>2
    <3> QED
      BY <3>1
  <2>4. /\ IsFiniteSet(Q \cup shifted(T))
        /\ Cardinality(Q \cup shifted(T))
             = Cardinality(Q) + Cardinality(shifted(T)) - Cardinality({})
    BY SMTT(60), <2>1, <2>2, <2>3, FS_Union
  <2> QED
    BY <2>1, <2>2, <2>4, FS_EmptySet
<1>5. Cardinality(K) = Cardinality(I) + Cardinality(J)
  BY <1>3, <1>4
<1>6. ASSUME NEW i \in 1..Cardinality(I)
      PROVE  Nth(K, i) = Nth(I, i)
  <2>1. PICK x : x = Nth(I, i)
    OBVIOUS
  <2>2. x \in I /\ Rank(I, x) = i
    BY <1>1, <1>2, <2>1, NthType
  <2>3. {y \in K : y <= x} = {y \in I : y <= x}
    <3>1. \A j \in J : ~(Len(s) + j <= x)
      <4>1. x \in Int /\ x <= Len(s)
        BY <1>1, <1>2, <2>2
      <4>2. \A j \in J : j \in Int /\ j >= 1
        BY <1>1, <1>2
      <4> QED
        BY <1>1, <4>1, <4>2
    <3> QED
      BY <1>3, <3>1
  <2>4. Rank(K, x) = i
    BY <2>2, <2>3 DEF Rank
  <2>5. Nth(K, Rank(K, x)) = x
    <3>1. x \in K /\ Len(u) \in Nat
      BY <1>1, <1>3, <2>2
    <3> QED
      BY <1>2, <3>1, NthIs
  <2> QED
    BY <2>1, <2>4, <2>5
<1>7. ASSUME NEW i \in 1..Cardinality(J)
      PROVE  Nth(K, Cardinality(I) + i) = Len(s) + Nth(J, i)
  <2>1. PICK x : x = Nth(J, i)
    OBVIOUS
  <2>2. x \in J /\ Rank(J, x) = i
    BY <1>1, <1>2, <2>1, NthType
  <2> DEFINE T == {y \in J : y <= x}
  <2>3. {y \in K : y <= Len(s) + x} = I \cup shifted(T)
    <3>1. x \in Int /\ x >= 1 /\ \A y \in J : y \in Int
      BY <1>1, <1>2, <2>2
    <3>2. \A y \in I : y <= Len(s) + x
      <4>1. \A y \in I : y \in Int /\ y <= Len(s)
        BY <1>1, <1>2
      <4> QED
        BY <1>1, <3>1, <4>1
    <3>3. \A y \in J : Len(s) + y <= Len(s) + x <=> y <= x
      BY <1>1, <3>1
    <3> QED
      BY <1>3, <3>2, <3>3
  <2>4. T \in SUBSET J
    OBVIOUS
  <2>5. Rank(J, x) = Cardinality(T)
    BY DEF Rank
  <2> HIDE DEF T
  <2>6. Rank(K, Len(s) + x) = Cardinality(I) + i
    BY <1>4, <2>2, <2>3, <2>4, <2>5 DEF Rank
  <2>7. Len(s) + x \in K
    BY <1>3, <2>2
  <2>8. Nth(K, Rank(K, Len(s) + x)) = Len(s) + x
    <3>1. Len(u) \in Nat
      BY <1>1
    <3>2. PICK z : z = Len(s) + x
      OBVIOUS
    <3> QED
      BY <1>2, <2>7, <3>1, <3>2, NthIs
  <2> QED
    BY <2>1, <2>6, <2>8
<1>8. /\ Rows(u) = [i \in 1..Cardinality(K) |-> u[Nth(K, i)]]
      /\ Rows(s) = [i \in 1..Cardinality(I) |-> s[Nth(I, i)]]
      /\ Rows(t) = [i \in 1..Cardinality(J) |-> t[Nth(J, i)]]
  BY DEF Rows, RowsAt, Pick, I, J, K
<1>9. /\ Rows(u) \in Seq(Row) /\ Rows(s) \in Seq(Row) /\ Rows(t) \in Seq(Row)
      /\ Len(Rows(u)) = Cardinality(K) /\ Len(Rows(s)) = Cardinality(I)
      /\ Len(Rows(t)) = Cardinality(J)
  BY <1>1, RowsType DEF I, J, K
<1>10. /\ Rows(s) \o Rows(t) \in Seq(Row)
       /\ Len(Rows(s) \o Rows(t)) = Cardinality(I) + Cardinality(J)
       /\ \A i \in 1..(Cardinality(I) + Cardinality(J)) :
             (Rows(s) \o Rows(t))[i] = IF i <= Cardinality(I) THEN Rows(s)[i]
                                       ELSE Rows(t)[i - Cardinality(I)]
  <2>1. /\ Rows(s) \o Rows(t) \in Seq(Row)
        /\ Len(Rows(s) \o Rows(t)) = Len(Rows(s)) + Len(Rows(t))
        /\ \A i \in 1..(Len(Rows(s)) + Len(Rows(t))) :
              (Rows(s) \o Rows(t))[i] = IF i <= Len(Rows(s)) THEN Rows(s)[i]
                                        ELSE Rows(t)[i - Len(Rows(s))]
    <3>1. PICK v : v = Rows(s)
      OBVIOUS
    <3>2. PICK w : w = Rows(t)
      OBVIOUS
    <3>3. v \in Seq(Row) /\ w \in Seq(Row)
      BY <1>9, <3>1, <3>2
    <3>4. /\ v \o w \in Seq(Row) /\ Len(v \o w) = Len(v) + Len(w)
          /\ \A i \in 1..(Len(v) + Len(w)) :
                (v \o w)[i] = IF i <= Len(v) THEN v[i] ELSE w[i - Len(v)]
      BY <3>3, ConcatProperties
    <3> QED
      BY <3>1, <3>2, <3>4
  <2> QED
    BY <1>9, <2>1
<1>11. ASSUME NEW i \in 1..Cardinality(K)
       PROVE  Rows(u)[i] = (Rows(s) \o Rows(t))[i]
  <2>1. CASE i <= Cardinality(I)
    <3>1. i \in 1..Cardinality(I)
      BY <1>2, <2>1
    <3>2. Nth(I, i) \in 1..Len(s)
      BY <1>1, <1>2, <3>1, NthType
    <3>3. u[Nth(I, i)] = s[Nth(I, i)]
      BY <1>1, <3>2
    <3>4. Rows(u)[i] = u[Nth(K, i)] /\ Rows(s)[i] = s[Nth(I, i)]
      BY <1>8, <3>1
    <3>5. (Rows(s) \o Rows(t))[i] = Rows(s)[i]
      BY <1>5, <1>10, <2>1
    <3> QED
      BY <1>6, <3>1, <3>3, <3>4, <3>5
  <2>2. CASE ~(i <= Cardinality(I))
    <3>1. PICK j : j = i - Cardinality(I)
      OBVIOUS
    <3>2. j \in 1..Cardinality(J) /\ i = Cardinality(I) + j
      BY <1>2, <1>5, <2>2, <3>1
    <3>3. Nth(J, j) \in 1..Len(t)
      BY <1>1, <1>2, <3>2, NthType
    <3>4. u[Len(s) + Nth(J, j)] = t[Nth(J, j)]
      BY <1>1, <3>3
    <3>5. Rows(u)[i] = t[Nth(J, j)]
      BY <1>7, <1>8, <3>2, <3>4
    <3>6. (Rows(s) \o Rows(t))[i] = Rows(t)[j]
      BY <1>5, <1>10, <2>2, <3>1
    <3> QED
      BY <1>8, <3>2, <3>5, <3>6
  <2> QED
    BY <2>1, <2>2
<1>12. Rows(u) = Rows(s) \o Rows(t)
  BY <1>5, <1>9, <1>10, <1>11, SeqEqual
<1> QED
  BY <1>12 DEF u

Maps(X, Y) == [X -> Y]

\* f of each element of s.
Mapped(f, s) == [i \in DOMAIN s |-> f[s[i]]]

LEMMA MappedType ==
    ASSUME NEW X, NEW Y, NEW f \in Maps(X, Y), NEW s \in Seq(X)
    PROVE  /\ Mapped(f, s) \in Seq(Y) /\ Len(Mapped(f, s)) = Len(s)
           /\ \A i \in 1..Len(s) : Mapped(f, s)[i] = f[s[i]]
<1>1. Len(s) \in Nat /\ DOMAIN s = 1..Len(s)
  BY LenProperties
<1>2. \A i \in 1..Len(s) : f[s[i]] \in Y
  BY ElementOfSeq DEF Maps
<1>3. Mapped(f, s) = [i \in 1..Len(s) |-> f[s[i]]]
  BY <1>1 DEF Mapped
<1>4. Mapped(f, s) \in [1..Len(s) -> Y]
  BY <1>2, <1>3
<1> QED
  BY <1>1, <1>3, <1>4, FunctionIsSeq

\* A map over two sequences, one after the other.
LEMMA MapConcat ==
    ASSUME NEW X, NEW Y, NEW f \in Maps(X, Y), NEW s \in Seq(X), NEW t \in Seq(X)
    PROVE  Mapped(f, s \o t) = Mapped(f, s) \o Mapped(f, t)
<1>1. /\ s \o t \in Seq(X) /\ Len(s \o t) = Len(s) + Len(t)
      /\ \A i \in 1..(Len(s) + Len(t)) : (s \o t)[i] = IF i <= Len(s) THEN s[i] ELSE t[i - Len(s)]
  BY ConcatProperties
<1>2. Len(s) \in Nat /\ Len(t) \in Nat
  BY LenProperties
<1>3. PICK fs : fs = Mapped(f, s)
  OBVIOUS
<1>4. PICK ft : ft = Mapped(f, t)
  OBVIOUS
<1>5. PICK fu : fu = Mapped(f, s \o t)
  OBVIOUS
<1>6. /\ fs \in Seq(Y) /\ Len(fs) = Len(s) /\ \A i \in 1..Len(s) : fs[i] = f[s[i]]
      /\ ft \in Seq(Y) /\ Len(ft) = Len(t) /\ \A i \in 1..Len(t) : ft[i] = f[t[i]]
  BY <1>3, <1>4, MappedType
<1>7. /\ fu \in Seq(Y) /\ Len(fu) = Len(s \o t)
      /\ \A i \in 1..Len(s \o t) : fu[i] = f[(s \o t)[i]]
  <2>1. PICK u : u = s \o t
    OBVIOUS
  <2>2. u \in Seq(X)
    BY <1>1, <2>1
  <2>3. /\ Mapped(f, u) \in Seq(Y) /\ Len(Mapped(f, u)) = Len(u)
        /\ \A i \in 1..Len(u) : Mapped(f, u)[i] = f[u[i]]
    BY <2>2, MappedType
  <2> QED
    BY <1>5, <2>1, <2>3
<1>8. /\ fs \o ft \in Seq(Y) /\ Len(fs \o ft) = Len(fs) + Len(ft)
      /\ \A i \in 1..(Len(fs) + Len(ft)) :
            (fs \o ft)[i] = IF i <= Len(fs) THEN fs[i] ELSE ft[i - Len(fs)]
  <2>1. fs \in Seq(Y) /\ ft \in Seq(Y)
    BY <1>6
  <2> QED
    BY <2>1, ConcatProperties
<1>9. ASSUME NEW i \in 1..Len(fu)
      PROVE  fu[i] = (fs \o ft)[i]
  <2>1. i \in 1..(Len(s) + Len(t)) /\ i \in 1..Len(s \o t)
    BY <1>1, <1>7
  <2>2. CASE i <= Len(s)
    <3>1. i \in 1..Len(s)
      BY <1>2, <2>1, <2>2
    <3>2. fu[i] = f[s[i]]
      BY <1>1, <1>7, <2>1, <2>2
    <3>3. (fs \o ft)[i] = fs[i]
      BY <1>6, <1>8, <2>1, <2>2
    <3> QED
      BY <1>6, <3>1, <3>2, <3>3
  <2>3. CASE ~(i <= Len(s))
    <3>1. i - Len(s) \in 1..Len(t)
      BY <1>2, <2>1, <2>3
    <3>2. fu[i] = f[t[i - Len(s)]]
      BY <1>1, <1>7, <2>1, <2>3
    <3>3. (fs \o ft)[i] = ft[i - Len(s)]
      BY <1>6, <1>8, <2>1, <2>3
    <3> QED
      BY <1>6, <3>1, <3>2, <3>3
  <2> QED
    BY <2>2, <2>3
<1>10. Len(fu) = Len(fs \o ft)
  BY <1>1, <1>6, <1>7, <1>8
<1>11. fu = fs \o ft
  BY <1>7, <1>8, <1>9, <1>10, SeqEqual
<1> QED
  BY <1>3, <1>4, <1>5, <1>11

\* The j-th field of a row is a text.
LEMMA FieldType ==
    ASSUME NEW row \in Row, NEW j \in Nat \ {0}
    PROVE  Field(row, j) \in Fields
<1>1. row \in Seq(Fields) /\ row # <<>>
  BY DEF Row, Line
<1>2. Len(row) \in Nat \ {0}
  BY <1>1, EmptySeq
<1>3. IF j <= Len(row) THEN j \in 1..Len(row) ELSE Len(row) \in 1..Len(row)
  BY <1>2
<1> QED
  BY <1>1, <1>3, ElementOfSeq DEF Field

\* The j-th fields of rows.
Cells(rows, j) == [i \in DOMAIN rows |-> Field(rows[i], j)]

LEMMA CellsConcat ==
    ASSUME NEW v \in Seq(Row), NEW w \in Seq(Row), NEW j \in Nat \ {0}
    PROVE  /\ Cells(v, j) \in Seq(Fields) /\ Len(Cells(v, j)) = Len(v)
           /\ Cells(v \o w, j) = Cells(v, j) \o Cells(w, j)
<1>1. PICK f : f = [row \in Row |-> Field(row, j)]
  OBVIOUS
<1>2. f \in Maps(Row, Fields)
  BY <1>1, FieldType DEF Maps
<1>3. v \o w \in Seq(Row)
  BY ConcatProperties
<1>4. ASSUME NEW u \in Seq(Row)
      PROVE  Mapped(f, u) = Cells(u, j)
  <2>1. DOMAIN u = 1..Len(u)
    BY LenProperties
  <2>2. \A i \in DOMAIN u : u[i] \in Row
    BY <2>1, ElementOfSeq
  <2>3. \A i \in DOMAIN u : f[u[i]] = Field(u[i], j)
    BY <1>1, <2>2
  <2> QED
    BY <2>3 DEF Cells, Mapped
<1>5. /\ Mapped(f, v) = Cells(v, j) /\ Mapped(f, w) = Cells(w, j)
      /\ Mapped(f, v \o w) = Cells(v \o w, j)
  BY <1>3, <1>4
<1>6. Mapped(f, v) \in Seq(Fields) /\ Len(Mapped(f, v)) = Len(v)
  BY <1>2, MappedType
<1>7. Mapped(f, v \o w) = Mapped(f, v) \o Mapped(f, w)
  BY <1>2, MapConcat
<1> QED
  BY <1>5, <1>6, <1>7

\* The numbers texts denote.
LEMMA NumbersConcat ==
    ASSUME NEW v \in Seq(Fields), NEW w \in Seq(Fields)
    PROVE  /\ Len(Numbers(v)) = Len(v)
           /\ Numbers(v \o w) = Numbers(v) \o Numbers(w)
<1>1. PICK f : f = [x \in Fields |-> Stoull[x]]
  OBVIOUS
<1>2. PICK Y : Y = {Stoull[x] : x \in Fields}
  OBVIOUS
<1>3. f \in Maps(Fields, Y)
  BY <1>1, <1>2 DEF Maps
<1>4. v \o w \in Seq(Fields)
  BY ConcatProperties
<1>5. ASSUME NEW u \in Seq(Fields)
      PROVE  Mapped(f, u) = Numbers(u)
  <2>1. DOMAIN u = 1..Len(u)
    BY LenProperties
  <2>2. \A i \in DOMAIN u : u[i] \in Fields
    BY <2>1, ElementOfSeq
  <2>3. \A i \in DOMAIN u : f[u[i]] = Stoull[u[i]]
    BY <1>1, <2>2
  <2> QED
    BY <2>3 DEF Numbers, Mapped
<1>6. /\ Mapped(f, v) = Numbers(v) /\ Mapped(f, w) = Numbers(w)
      /\ Mapped(f, v \o w) = Numbers(v \o w)
  BY <1>4, <1>5
<1>7. Len(Mapped(f, v)) = Len(v)
  BY <1>3, MappedType
<1>8. Mapped(f, v \o w) = Mapped(f, v) \o Mapped(f, w)
  BY <1>3, MapConcat
<1> QED
  BY <1>6, <1>7, <1>8

\* Texts that denote numbers.
LEMMA NumbersType ==
    ASSUME NEW v \in Seq(Fields), \A i \in DOMAIN v : v[i] \in DOMAIN Stoull
    PROVE  Numbers(v) \in Seq(Nat)
<1>1. Len(v) \in Nat /\ DOMAIN v = 1..Len(v)
  BY LenProperties
<1>2. \A f \in DOMAIN Stoull : Stoull[f] \in Nat
  BY StoullAssumption
<1>3. Numbers(v) \in [1..Len(v) -> Nat]
  BY <1>1, <1>2 DEF Numbers
<1> QED
  BY <1>1, <1>3, FunctionIsSeq

\* A set of positions has a first one.
LEMMA FirstOfPositions ==
    ASSUME NEW n \in Nat, NEW I \in SUBSET (1..n), I # {}
    PROVE  \E x \in I : \A y \in I : x <= y
<1>1. IsFiniteSet(I) /\ Cardinality(I) \in Nat
  BY PositionsFinite
<1>2. Cardinality(I) # 0
  BY <1>1, FS_EmptySet
<1>3. 1 \in 1..Cardinality(I)
  BY <1>1, <1>2
<1>4. PICK x : x = Nth(I, 1)
  OBVIOUS
<1>5. x \in I /\ Rank(I, x) = 1
  BY <1>3, <1>4, NthType
<1>6. ASSUME NEW y \in I
      PROVE  x <= y
  <2>1. x \in Int /\ y \in Int
    BY <1>5
  <2>2. Rank(I, y) \in 1..Cardinality(I)
    BY RankType
  <2>3. y < x => Rank(I, y) < Rank(I, x)
    BY <1>5, RankMonotonic
  <2> QED
    BY <1>1, <1>5, <2>1, <2>2, <2>3
<1> QED
  BY <1>5, <1>6

\* The lines from a to b that are not blank.
RowsIn(lines, a, b) == {i \in a..b : lines[i] # <<>>}

\* The rows of a part of a file: as many as its lines that are not blank.
LEMMA RowsOfPart ==
    ASSUME NEW lines \in Seq(Line), NEW a \in Nat \ {0}, NEW b \in Nat, b <= Len(lines)
    PROVE  /\ SubSeq(lines, a, b) \in Seq(Line)
           /\ Len(SubSeq(lines, a, b)) = IF a <= b THEN b - a + 1 ELSE 0
           /\ \A i \in 1..(b - a + 1) : SubSeq(lines, a, b)[i] = lines[a + i - 1]
           /\ IsFiniteSet(RowsIn(lines, a, b))
           /\ Len(Rows(SubSeq(lines, a, b))) = Cardinality(RowsIn(lines, a, b))
<1>1. Len(lines) \in Nat
  BY LenProperties
<1>2. \A i \in a..b : lines[i] \in Line
  <2>1. \A i \in a..b : i \in 1..Len(lines)
    BY <1>1
  <2> QED
    BY <2>1, ElementOfSeq
<1> DEFINE s == SubSeq(lines, a, b)
           J == RowsAt(s)
<1>3. /\ s \in Seq(Line) /\ Len(s) = IF a <= b THEN b - a + 1 ELSE 0
      /\ \A i \in 1..(b - a + 1) : s[i] = lines[a + i - 1]
  <2>1. a \in Int /\ b \in Int
    OBVIOUS
  <2> QED
    BY <1>2, <2>1, SubSeqProperties
<1> HIDE DEF s
<1>4. J \in SUBSET (1..Len(s)) /\ Len(s) \in Nat /\ Len(Rows(s)) = Cardinality(J)
  BY <1>3, RowsType
<1>5. DOMAIN s = 1..Len(s)
  BY <1>3, LenProperties
<1>6. RowsIn(lines, a, b) = {(a - 1) + j : j \in J}
  <2>1. ASSUME NEW i \in a..b, lines[i] # <<>>
        PROVE  \E j \in J : i = (a - 1) + j
    <3>1. /\ i - a + 1 \in 1..Len(s) /\ i - a + 1 \in 1..(b - a + 1)
          /\ a + (i - a + 1) - 1 = i /\ i = (a - 1) + (i - a + 1)
      BY <1>3
    <3>2. s[i - a + 1] = lines[i]
      BY <1>3, <3>1
    <3>3. i - a + 1 \in J
      BY <1>5, <2>1, <3>1, <3>2 DEF RowsAt
    <3> QED
      BY <3>1, <3>3
  <2>2. ASSUME NEW j \in J
        PROVE  (a - 1) + j \in a..b /\ lines[(a - 1) + j] # <<>>
    <3>1. j \in 1..Len(s) /\ s[j] # <<>>
      BY <1>4, <1>5 DEF RowsAt
    <3>2. j \in 1..(b - a + 1) /\ (a - 1) + j \in a..b /\ (a - 1) + j = a + j - 1
      BY <1>3, <3>1
    <3> QED
      BY <1>3, <3>1, <3>2
  <2> QED
    BY <2>1, <2>2 DEF RowsIn
<1> HIDE DEF J
<1>7. /\ IsFiniteSet({(a - 1) + j : j \in J})
      /\ Cardinality({(a - 1) + j : j \in J}) = Cardinality(J)
  <2>1. a - 1 \in Nat
    OBVIOUS
  <2> QED
    BY <1>4, <2>1, ShiftedSize
<1> QED
  BY <1>3, <1>4, <1>6, <1>7 DEF s

\* A file without blank lines is its rows.
LEMMA RowsAll ==
    ASSUME NEW lines \in Seq(Row)
    PROVE  Rows(lines) = lines
<1>1. /\ Len(lines) \in Nat /\ DOMAIN lines = 1..Len(lines)
      /\ lines \in [1..Len(lines) -> Row]
  BY LenProperties
<1>2. RowsAt(lines) = 1..Len(lines)
  <2>1. \A i \in 1..Len(lines) : lines[i] # <<>>
    BY <1>1 DEF Row
  <2> QED
    BY <1>1, <2>1 DEF RowsAt
<1>3. Cardinality(1..Len(lines)) = Len(lines)
  BY SMTT(60), <1>1, FS_Interval
<1>4. ASSUME NEW i \in 1..Len(lines)
      PROVE  Nth(1..Len(lines), i) = i
  <2>1. {y \in 1..Len(lines) : y <= i} = 1..i
    BY <1>1
  <2>2. Rank(1..Len(lines), i) = i
    <3>1. Cardinality(1..i) = i
      BY <1>1, FS_Interval
    <3> QED
      BY <2>1, <3>1 DEF Rank
  <2>3. Nth(1..Len(lines), Rank(1..Len(lines), i)) = i
    <3>1. 1..Len(lines) \in SUBSET (1..Len(lines))
      OBVIOUS
    <3> QED
      BY <1>1, <3>1, NthIs
  <2> QED
    BY <2>2, <2>3
<1>5. Rows(lines) = [i \in 1..Len(lines) |-> lines[Nth(1..Len(lines), i)]]
  BY <1>2, <1>3 DEF Rows, RowsAt, Pick
<1>6. Rows(lines) = [i \in 1..Len(lines) |-> lines[i]]
  BY <1>4, <1>5
<1> QED
  BY <1>1, <1>6

-----------------------------------------------------------------------------
(* A provider that reads.                                                  *)

\* The rows counted are the lines below the header that are not blank: the file
\* has as many lines.
LEMMA RowsCounted ==
    ASSUME NEW lines \in Seq(Line), NEW header \in BOOLEAN, NEW first \in {1, 2},
           first = IF header THEN 2 ELSE 1, ColumnsNum(lines) # 0
    PROVE  /\ Len(lines) \in Nat \ {0} /\ lines # <<>> /\ lines[1] # <<>>
           /\ RowsNum(lines, header) \in Nat
           /\ RowsNum(lines, header) = Cardinality(RowsIn(lines, first, Len(lines)))
           /\ first + RowsNum(lines, header) <= Len(lines) + 1
<1>1. lines # <<>> /\ Cardinality({i \in DOMAIN lines[1] : lines[1][i] # Empty}) # 0
  BY DEF ColumnsNum
<1>2. Len(lines) \in Nat \ {0}
  BY <1>1, EmptySeq
<1>3. lines[1] # <<>>
  <2>1. {i \in DOMAIN lines[1] : lines[1][i] # Empty} # {}
    BY <1>1, FS_EmptySet
  <2>2. DOMAIN lines[1] # {}
    BY <2>1
  <2> QED
    BY <2>2
<1> DEFINE From(k) == RowsIn(lines, k, Len(lines))
<1>4. ASSUME NEW k \in {1, 2}
      PROVE  /\ IsFiniteSet(From(k)) /\ Cardinality(From(k)) \in Nat
             /\ Cardinality(From(k)) <= Len(lines) - k + 1
  <2>1. k \in Int /\ Len(lines) \in Int /\ k <= Len(lines) + 1
    BY <1>2
  <2>2. IsFiniteSet(k..Len(lines)) /\ Cardinality(k..Len(lines)) = Len(lines) - k + 1
    BY <2>1, FS_Interval
  <2>3. From(k) \in SUBSET (k..Len(lines))
    BY DEF RowsIn
  <2> HIDE DEF From
  <2>4. IsFiniteSet(From(k)) /\ Cardinality(From(k)) <= Cardinality(k..Len(lines))
    BY <2>2, <2>3, FS_Subset
  <2> QED
    BY <2>2, <2>4, FS_CardinalityType
<1>5. 1 \notin From(2) /\ From(1) = From(2) \cup {1}
  BY <1>2, <1>3 DEF RowsIn
<1>6. RowsNum(lines, header) = IF header THEN Cardinality(From(2)) ELSE 1 + Cardinality(From(2))
  <2>1. Cardinality(From(2)) \in Nat
    BY <1>4
  <2> QED
    BY <2>1 DEF RowsNum, RowsIn
<1> HIDE DEF From
<1>7. Cardinality(From(1)) = Cardinality(From(2)) + 1
  <2>1. IsFiniteSet(From(2))
    BY <1>4
  <2>2. Cardinality(From(2) \cup {1}) =
            IF 1 \in From(2) THEN Cardinality(From(2)) ELSE Cardinality(From(2)) + 1
    BY <2>1, FS_AddElement
  <2> QED
    BY <1>5, <2>2
<1>8. RowsNum(lines, header) = Cardinality(From(first))
  <2>1. Cardinality(From(2)) \in Nat
    BY <1>4
  <2> QED
    BY <1>6, <1>7, <2>1
<1>9. Cardinality(From(first)) \in Nat /\ Cardinality(From(first)) <= Len(lines) - first + 1
  BY <1>4
<1> QED
  BY <1>1, <1>2, <1>3, <1>8, <1>9 DEF From

\* What is known of a provider between two calls.
Reading ==
    /\ file.lines \in Seq(Line) /\ Len(file.lines) \in Nat \ {0} /\ file.newline \in BOOLEAN
    /\ has_header \in BOOLEAN /\ FirstRow \in {1, 2}
    /\ rows_num \in Nat /\ cur_line_idx \in 0..rows_num
    /\ FirstRow + rows_num <= Len(file.lines) + 1
    /\ stream \in [next : Nat \ {0}, eof : BOOLEAN]
    /\ method \in Methods /\ threw \in BOOLEAN
    /\ items_columns_num \in Nat \ {0} /\ columns_num \in Nat
    /\ items_columns_num <= columns_num
    /\ Shaped /\ InStep

LEMMA ReadingHolds ==
    CsvInv /\ method # "closed" => Reading
<1> SUFFICES ASSUME CsvInv, method # "closed"
             PROVE  Reading
  OBVIOUS
<1>1. TypeOK /\ Counted /\ Shaped /\ InStep
  BY DEF CsvInv
<1>2. file.lines \in Seq(Line) /\ file.newline \in BOOLEAN /\ has_header \in BOOLEAN
  BY <1>1 DEF TypeOK
<1>3. FirstRow \in {1, 2} /\ FirstRow = IF has_header THEN 2 ELSE 1
  BY <1>2 DEF FirstRow
<1>4. /\ columns_num \in Nat /\ columns_num = ColumnsNum(file.lines)
      /\ rows_num \in Nat /\ cur_line_idx \in 0..rows_num
      /\ stream \in [next : Nat \ {0}, eof : BOOLEAN] /\ threw \in BOOLEAN
      /\ method \in Methods
  BY <1>1 DEF TypeOK, Counted
<1>5. items_columns_num \in Nat \ {0} /\ items_columns_num <= columns_num
  BY <1>1, <1>4 DEF Counted
<1>6. rows_num = RowsNum(file.lines, has_header)
  BY <1>1 DEF Counted
<1>7. ColumnsNum(file.lines) # 0
  BY <1>4, <1>5
<1>8. /\ Len(file.lines) \in Nat \ {0}
      /\ FirstRow + RowsNum(file.lines, has_header) <= Len(file.lines) + 1
  BY <1>2, <1>3, <1>7, RowsCounted
<1> QED
  BY <1>1, <1>2, <1>3, <1>4, <1>5, <1>6, <1>8 DEF Reading

\* A batch never takes the index past the number of rows.
LEMMA ReadCount ==
    ASSUME Reading, NEW batch_size \in BatchSizes
    PROVE  /\ ReadLinesCount(batch_size) \in Nat
           /\ cur_line_idx + ReadLinesCount(batch_size) \in 0..rows_num
<1>1. batch_size \in Nat
  BY ColumnsAssumption
<1>2. rows_num \in Nat /\ cur_line_idx \in 0..rows_num
  BY DEF Reading
<1> QED
  BY <1>1, <1>2 DEF ReadLinesCount

\* What a row of fields is written as is a line, in place of a single empty field
\* the blank one.
LEMMA LineOfType ==
    ASSUME NEW fields \in Seq(Fields)
    PROVE  LineOf(fields) \in Line /\ <<>> \in Line
<1>1. <<>> \in Seq(Fields) /\ <<>> # <<Empty>>
  BY EmptySeq
<1> QED
  BY <1>1 DEF LineOf, Line

\* The lines a batch sees, wherever the stream is.
LEMMA SeenType ==
    ASSUME Reading, NEW count \in Nat
    PROVE  Seen(count) \in Seq(Line) /\ Len(Seen(count)) = count
<1>1. /\ file.lines \in Seq(Line) /\ Len(file.lines) \in Nat \ {0}
      /\ stream.next \in Nat \ {0}
  BY DEF Reading
<1>2. <<>> \in Line
  BY LineOfType, EmptySeq
<1>3. \A n \in 1..Len(file.lines) : file.lines[n] \in Line
  BY <1>1, ElementOfSeq
<1>4. Len(file.lines) \in 1..Len(file.lines)
  BY <1>1
<1>5. \A i \in 1..count : stream.next + i - 1 <= Len(file.lines)
                            => stream.next + i - 1 \in 1..Len(file.lines)
  BY <1>1
<1>6. Seen(count) \in [1..count -> Line]
  BY <1>2, <1>3, <1>4, <1>5 DEF Seen
<1> QED
  BY <1>6, FunctionIsSeq

\* Unless a batch has thrown, they are the next lines of the file.
LEMMA SeenIs ==
    ASSUME Reading, ~threw, NEW count \in Nat, cur_line_idx + count <= rows_num
    PROVE  /\ stream.next + count - 1 \in Nat /\ stream.next + count - 1 <= Len(file.lines)
           /\ Seen(count) = SubSeq(file.lines, stream.next, stream.next + count - 1)
<1>1. /\ file.lines \in Seq(Line) /\ Len(file.lines) \in Nat
      /\ stream.next \in Nat \ {0} /\ rows_num \in Nat /\ cur_line_idx \in Nat
      /\ FirstRow \in {1, 2} /\ FirstRow + rows_num <= Len(file.lines) + 1
      /\ stream.next = FirstRow + cur_line_idx
      /\ stream.eof => stream.next > Len(file.lines)
  BY DEF Reading, InStep
<1>2. stream.next + count - 1 \in Nat /\ stream.next + count - 1 <= Len(file.lines)
  BY <1>1
<1>3. PICK last : last = stream.next + count - 1
  OBVIOUS
<1>4. PICK part : part = SubSeq(file.lines, stream.next, last)
  OBVIOUS
<1>5. /\ part \in Seq(Line) /\ Len(part) = IF stream.next <= last THEN last - stream.next + 1 ELSE 0
      /\ \A i \in 1..(last - stream.next + 1) : part[i] = file.lines[stream.next + i - 1]
  <2>1. last \in Nat /\ last <= Len(file.lines)
    BY <1>2, <1>3
  <2> QED
    BY SMTT(60), <1>1, <1>4, <2>1, RowsOfPart
<1>6. Len(part) = count /\ last - stream.next + 1 = count
  BY <1>1, <1>3, <1>5
<1>7. Seen(count) \in Seq(Line) /\ Len(Seen(count)) = count
  BY SeenType
<1>8. ASSUME NEW i \in 1..count
      PROVE  Seen(count)[i] = part[i]
  <2>1. stream.next + i - 1 <= Len(file.lines) /\ ~stream.eof
    BY <1>1, <1>2
  <2>2. Seen(count)[i] = file.lines[stream.next + i - 1]
    BY <2>1 DEF Seen
  <2> QED
    BY <1>5, <1>6, <2>2
<1>9. Seen(count) = part
  BY <1>5, <1>6, <1>7, <1>8, SeqEqual
<1> QED
  BY <1>2, <1>3, <1>4, <1>9

\* The stream after some lines.
LEMMA AdvancedType ==
    ASSUME Reading, NEW count \in Nat
    PROVE  /\ Advanced(count) \in [next : Nat \ {0}, eof : BOOLEAN]
           /\ Advanced(count).next = stream.next + count
           /\ Advanced(count).eof => Advanced(count).next > Len(file.lines)
<1>1. /\ Len(file.lines) \in Nat
      /\ stream \in [next : Nat \ {0}, eof : BOOLEAN] /\ stream.next \in Nat \ {0}
      /\ stream.eof => stream.next > Len(file.lines)
  BY DEF Reading, InStep
<1>2. CASE count = 0
  BY <1>1, <1>2 DEF Advanced
<1>3. CASE count # 0
  <2>1. Advanced(count) =
           [next |-> stream.next + count - 1 + 1,
            eof |-> \/ stream.eof \/ stream.next + count - 1 > Len(file.lines)
                    \/ stream.next + count - 1 = Len(file.lines) /\ ~file.newline]
    BY <1>3 DEF Advanced
  <2>2. Advanced(count).next = stream.next + count
    BY <1>1, <2>1
  <2>3. Advanced(count).eof =>
           \/ stream.eof \/ stream.next + count - 1 > Len(file.lines)
           \/ stream.next + count - 1 = Len(file.lines)
    BY <2>1
  <2>4. Advanced(count).eof => Advanced(count).next > Len(file.lines)
    BY <1>1, <1>3, <2>2, <2>3
  <2>5. Advanced(count) \in [next : Nat \ {0}, eof : BOOLEAN]
    BY <1>1, <2>1
  <2> QED
    BY <2>2, <2>4, <2>5
<1> QED
  BY <1>2, <1>3

\* The rows a scan has gone past.
LEMMA PassedIs ==
    ASSUME Reading, ~threw
    PROVE  /\ PassedRows = Rows(SubSeq(file.lines, FirstRow, stream.next - 1))
           /\ PassedRows \in Seq(Row)
<1>1. /\ file.lines \in Seq(Line) /\ Len(file.lines) \in Nat
      /\ stream.next \in Nat \ {0} /\ rows_num \in Nat /\ cur_line_idx \in 0..rows_num
      /\ FirstRow \in {1, 2} /\ FirstRow + rows_num <= Len(file.lines) + 1
      /\ stream.next = FirstRow + cur_line_idx
  BY DEF Reading, InStep
<1>2. (IF stream.next > Len(file.lines) THEN Len(file.lines) ELSE stream.next - 1)
         = stream.next - 1
  BY <1>1
<1>3. PassedRows = Rows(SubSeq(file.lines, FirstRow, stream.next - 1))
  BY <1>2 DEF PassedRows, FirstRow
<1>4. PICK last : last = stream.next - 1
  OBVIOUS
<1>5. last \in Nat /\ last <= Len(file.lines) /\ FirstRow \in Nat \ {0}
  BY <1>1, <1>4
<1>6. SubSeq(file.lines, FirstRow, last) \in Seq(Line)
  BY <1>1, <1>5, RowsOfPart
<1>7. Rows(SubSeq(file.lines, FirstRow, last)) \in Seq(Row)
  BY <1>6, RowsType
<1> QED
  BY <1>3, <1>4, <1>7

\* A batch goes past the rows it sees.
LEMMA PassedGrow ==
    ASSUME Reading, ~threw, NEW count \in Nat, cur_line_idx + count <= rows_num,
           UNCHANGED provider, stream' = Advanced(count)
    PROVE  PassedRows' = PassedRows \o Rows(Seen(count))
<1>1. /\ file.lines \in Seq(Line) /\ Len(file.lines) \in Nat
      /\ stream.next \in Nat \ {0} /\ rows_num \in Nat /\ cur_line_idx \in 0..rows_num
      /\ FirstRow \in {1, 2} /\ FirstRow + rows_num <= Len(file.lines) + 1
      /\ stream.next = FirstRow + cur_line_idx
  BY DEF Reading, InStep
<1>2. stream'.next = stream.next + count
  BY AdvancedType
<1>3. /\ stream.next + count - 1 \in Nat /\ stream.next + count - 1 <= Len(file.lines)
      /\ Seen(count) = SubSeq(file.lines, stream.next, stream.next + count - 1)
  BY SeenIs
<1>4. PICK last : last = stream.next + count - 1
  OBVIOUS
<1>5. PICK k : k = stream.next - 1
  OBVIOUS
<1>6. /\ FirstRow \in 1..(Len(file.lines) + 1) /\ k \in (FirstRow - 1)..Len(file.lines)
      /\ last \in k..Len(file.lines) /\ k + 1 = stream.next
      /\ k \in Nat /\ k <= Len(file.lines) /\ last \in Nat /\ last <= Len(file.lines)
      /\ FirstRow \in Nat \ {0}
  BY <1>1, <1>3, <1>4, <1>5
<1>7. SubSeq(file.lines, FirstRow, k) \o SubSeq(file.lines, k + 1, last)
         = SubSeq(file.lines, FirstRow, last)
  BY <1>1, <1>6, ConcatAdjacentSubSeq
<1>8. SubSeq(file.lines, FirstRow, k) \in Seq(Line) /\ SubSeq(file.lines, k + 1, last) \in Seq(Line)
  <2>1. k + 1 \in Nat \ {0}
    BY <1>6
  <2> QED
    BY <1>1, <1>6, <2>1, RowsOfPart
<1>9. Rows(SubSeq(file.lines, FirstRow, last))
        = Rows(SubSeq(file.lines, FirstRow, k)) \o Rows(SubSeq(file.lines, k + 1, last))
  BY <1>7, <1>8, RowsConcat
<1>10. PassedRows = Rows(SubSeq(file.lines, FirstRow, k))
  BY <1>5, PassedIs
<1>11. (IF stream'.next > Len(file.lines) THEN Len(file.lines) ELSE stream'.next - 1) = last
  BY <1>1, <1>2, <1>4, <1>6
<1>12. PassedRows' = Rows(SubSeq(file.lines, FirstRow, last))
  <2>1. file' = file /\ has_header' = has_header
    BY DEF provider
  <2>2. PassedRows' = Rows(SubSeq(file.lines, FirstRow,
             IF stream'.next > Len(file.lines) THEN Len(file.lines) ELSE stream'.next - 1))
    BY <2>1 DEF PassedRows, FirstRow
  <2> QED
    BY <1>11, <2>2
<1> QED
  BY <1>3, <1>4, <1>6, <1>9, <1>10, <1>12

-----------------------------------------------------------------------------
(* The file of a table.                                                    *)

\* The line write_data_to_file writes for the j-th item.
TableRow(table, j) ==
    [i \in DOMAIN table.items |-> table.items[i][j]]
      \o [i \in DOMAIN table.payloads |-> Numeral(table.payloads[i][j])]

\* What std::stoull makes of the digits of a number is the number.
LEMMA NumeralType ==
    ASSUME NEW n \in {Stoull[f] : f \in DOMAIN Stoull}
    PROVE  /\ Numeral(n) \in DOMAIN Stoull /\ Numeral(n) \in Fields
           /\ Stoull[Numeral(n)] = n
<1>1. \E f \in DOMAIN Stoull : Stoull[f] = n
  OBVIOUS
<1>2. Numeral(n) \in DOMAIN Stoull /\ Stoull[Numeral(n)] = n
  BY <1>1 DEF Numeral
<1> QED
  BY <1>2, StoullAssumption

LEMMA TableShape ==
    ASSUME NEW table \in Tables
    PROVE  /\ table.items \in Seq(Seq(Fields))
           /\ table.payloads \in Seq(Seq({Stoull[f] : f \in DOMAIN Stoull}))
           /\ \A c \in DOMAIN table.items : Len(table.items[c]) = Len(table.items[1])
           /\ \A c \in DOMAIN table.payloads : Len(table.payloads[c]) = Len(table.items[1])
           /\ table.header \in Seq(Fields)
           /\ table.header # <<>> =>
                 Len(table.header) = Len(table.items) + Len(table.payloads)
BY TablesAssumption

\* Its fields are the items and the payloads of the row.
LEMMA TableRowIs ==
    ASSUME NEW table \in Tables, table.items # <<>>, NEW j \in 1..Len(table.items[1])
    PROVE  /\ TableRow(table, j) \in Seq(Fields) /\ TableRow(table, j) # <<>>
           /\ Len(TableRow(table, j)) = Len(table.items) + Len(table.payloads)
           /\ \A c \in 1..Len(table.items) : TableRow(table, j)[c] = table.items[c][j]
           /\ \A c \in 1..Len(table.payloads) :
                 TableRow(table, j)[Len(table.items) + c] = Numeral(table.payloads[c][j])
<1> DEFINE Denoted == {Stoull[f] : f \in DOMAIN Stoull}
<1>1. /\ table.items \in Seq(Seq(Fields)) /\ table.payloads \in Seq(Seq(Denoted))
      /\ \A c \in DOMAIN table.items : Len(table.items[c]) = Len(table.items[1])
      /\ \A c \in DOMAIN table.payloads : Len(table.payloads[c]) = Len(table.items[1])
  BY TableShape
<1>2. /\ Len(table.items) \in Nat \ {0} /\ DOMAIN table.items = 1..Len(table.items)
      /\ Len(table.payloads) \in Nat /\ DOMAIN table.payloads = 1..Len(table.payloads)
  BY <1>1, EmptySeq, LenProperties
<1> HIDE DEF Denoted
<1>3. ASSUME NEW c \in 1..Len(table.items)
      PROVE  table.items[c][j] \in Fields
  <2>1. table.items[c] \in Seq(Fields)
    BY <1>1, ElementOfSeq
  <2>2. j \in 1..Len(table.items[c])
    BY <1>1, <1>2
  <2> QED
    BY <2>1, <2>2, ElementOfSeq
<1>4. ASSUME NEW c \in 1..Len(table.payloads)
      PROVE  Numeral(table.payloads[c][j]) \in Fields
  <2>1. table.payloads[c] \in Seq(Denoted)
    BY <1>1, ElementOfSeq
  <2>2. j \in 1..Len(table.payloads[c])
    BY <1>1, <1>2
  <2>3. table.payloads[c][j] \in Denoted
    BY <2>1, <2>2, ElementOfSeq
  <2> QED
    BY <2>3, NumeralType DEF Denoted
<1>5. PICK v : v = [i \in DOMAIN table.items |-> table.items[i][j]]
  OBVIOUS
<1>6. PICK w : w = [i \in DOMAIN table.payloads |-> Numeral(table.payloads[i][j])]
  OBVIOUS
<1>7. v \in [1..Len(table.items) -> Fields] /\ w \in [1..Len(table.payloads) -> Fields]
  BY <1>2, <1>3, <1>4, <1>5, <1>6
<1>8. /\ v \in Seq(Fields) /\ Len(v) = Len(table.items)
      /\ w \in Seq(Fields) /\ Len(w) = Len(table.payloads)
  BY <1>2, <1>7, FunctionIsSeq
<1>9. /\ v \o w \in Seq(Fields) /\ Len(v \o w) = Len(v) + Len(w)
      /\ \A i \in 1..(Len(v) + Len(w)) :
            (v \o w)[i] = IF i <= Len(v) THEN v[i] ELSE w[i - Len(v)]
  <2>1. v \in Seq(Fields) /\ w \in Seq(Fields)
    BY <1>8
  <2> QED
    BY <2>1, ConcatProperties
<1> DEFINE m == Len(table.items)
           p == Len(table.payloads)
<1>14. m \in Nat \ {0} /\ p \in Nat /\ Len(v) = m /\ Len(w) = p
  BY <1>2, <1>8
<1> HIDE DEF m, p
<1>10. TableRow(table, j) = v \o w
  BY <1>5, <1>6 DEF TableRow
<1>11. v \o w \in Seq(Fields) /\ v \o w # <<>>
  <2>1. Len(v \o w) # 0
    BY <1>9, <1>14
  <2>2. v \o w # <<>>
    BY <2>1, EmptySeq
  <2> QED
    BY <1>9, <2>2
<1>12. ASSUME NEW c \in 1..m
       PROVE  (v \o w)[c] = table.items[c][j]
  <2>1. c \in 1..(Len(v) + Len(w)) /\ c <= Len(v)
    BY <1>14
  <2>2. (v \o w)[c] = v[c]
    BY <1>9, <2>1
  <2>3. c \in DOMAIN table.items
    BY <1>2 DEF m
  <2> QED
    BY <1>5, <2>2, <2>3
<1>13. ASSUME NEW c \in 1..p
       PROVE  (v \o w)[m + c] = Numeral(table.payloads[c][j])
  <2>1. m + c \in 1..(Len(v) + Len(w)) /\ ~(m + c <= Len(v)) /\ m + c - Len(v) = c
    BY <1>14
  <2>2. (v \o w)[m + c] = w[c]
    <3>1. PICK i : i = m + c
      OBVIOUS
    <3>2. i \in 1..(Len(v) + Len(w)) /\ ~(i <= Len(v)) /\ i - Len(v) = c
      BY <1>14, <3>1
    <3> QED
      BY <1>9, <3>1, <3>2
  <2>3. c \in DOMAIN table.payloads
    BY <1>2 DEF p
  <2> QED
    BY <1>6, <2>2, <2>3
<1>15. Len(v \o w) = Len(table.items) + Len(table.payloads)
  BY <1>9, <1>14 DEF m, p
<1> QED
  BY <1>10, <1>11, <1>12, <1>13, <1>15 DEF m, p

\* The lines are the header if there is one, and one for each item.
LEMMA LinesWritten ==
    ASSUME NEW table \in Tables, table.items # <<>>, NEW first \in {1, 2},
           first = IF table.header # <<>> THEN 2 ELSE 1
    PROVE  /\ WriteDataToFile(table) \in Seq(Line)
           /\ Len(table.items[1]) \in Nat
           /\ Len(WriteDataToFile(table)) = Len(table.items[1]) + first - 1
           /\ first = 2 => WriteDataToFile(table)[1] = LineOf(table.header)
           /\ \A j \in 1..Len(table.items[1]) :
                 WriteDataToFile(table)[first + j - 1] = LineOf(TableRow(table, j))
<1> DEFINE top == IF table.header # <<>> THEN <<LineOf(table.header)>> ELSE <<>>
           body == [j \in 1..Len(table.items[1]) |-> LineOf(TableRow(table, j))]
<1>1. table.items \in Seq(Seq(Fields)) /\ table.header \in Seq(Fields)
  BY TableShape
<1>2. Len(table.items[1]) \in Nat
  <2>1. 1 \in 1..Len(table.items)
    BY <1>1, EmptySeq
  <2>2. table.items[1] \in Seq(Fields)
    BY <1>1, <2>1, ElementOfSeq
  <2> QED
    BY <2>2, LenProperties
<1>3. \A j \in 1..Len(table.items[1]) : LineOf(TableRow(table, j)) \in Line
  BY TableRowIs, LineOfType
<1>4. body \in Seq(Line) /\ Len(body) = Len(table.items[1])
  <2>1. body \in [1..Len(table.items[1]) -> Line]
    BY <1>3
  <2> QED
    BY <1>2, <2>1, FunctionIsSeq
<1>5. top \in Seq(Line) /\ Len(top) = first - 1 /\ (first = 2 => top[1] = LineOf(table.header))
  <2>1. CASE table.header # <<>>
    <3>1. LineOf(table.header) \in Line
      BY <1>1, LineOfType
    <3>2. /\ <<LineOf(table.header)>> \in Seq(Line) /\ Len(<<LineOf(table.header)>>) = 1
          /\ <<LineOf(table.header)>>[1] = LineOf(table.header)
      BY <3>1
    <3> QED
      BY <2>1, <3>2
  <2>2. CASE table.header = <<>>
    BY <2>2, EmptySeq
  <2> QED
    BY <2>1, <2>2
<1>6. \A j \in 1..Len(table.items[1]) : body[j] = LineOf(TableRow(table, j))
  OBVIOUS
<1>7. WriteDataToFile(table) = top \o body
  BY DEF WriteDataToFile, TableRow
<1> DEFINE n == Len(table.items[1])
<1>8. n \in Nat /\ Len(top) = first - 1 /\ Len(body) = n
  BY <1>2, <1>4, <1>5
<1> HIDE DEF top, body, n
<1>9. PICK lines : lines = top \o body
  OBVIOUS
<1>10. /\ lines \in Seq(Line) /\ Len(lines) = Len(top) + Len(body)
       /\ \A i \in 1..(Len(top) + Len(body)) :
             lines[i] = IF i <= Len(top) THEN top[i] ELSE body[i - Len(top)]
  <2>1. top \in Seq(Line) /\ body \in Seq(Line)
    BY <1>4, <1>5
  <2> QED
    BY <1>9, <2>1, ConcatProperties
<1>11. ASSUME NEW j \in 1..n
       PROVE  lines[first + j - 1] = LineOf(TableRow(table, j))
  <2>1. /\ first + j - 1 \in 1..(Len(top) + Len(body)) /\ ~(first + j - 1 <= Len(top))
        /\ first + j - 1 - Len(top) = j
    BY <1>8
  <2>2. lines[first + j - 1] = body[j]
    BY <1>10, <2>1
  <2> QED
    BY <1>6, <2>2 DEF n
<1>12. first = 2 => lines[1] = LineOf(table.header)
  <2>1. first = 2 => 1 \in 1..(Len(top) + Len(body)) /\ 1 <= Len(top)
    BY <1>8
  <2> QED
    BY <1>5, <1>10, <2>1
<1>13. Len(lines) = n + first - 1
  BY <1>8, <1>10
<1>14. lines = WriteDataToFile(table)
  BY <1>7, <1>9
<1> QED
  BY <1>8, <1>10, <1>11, <1>12, <1>13, <1>14 DEF n

\* All the fields of a line without an empty one are counted.
LEMMA FieldsCounted ==
    ASSUME NEW line \in Seq(Fields), \A i \in 1..Len(line) : line[i] # Empty
    PROVE  Cardinality({i \in DOMAIN line : line[i] # Empty}) = Len(line)
<1>1. Len(line) \in Nat /\ DOMAIN line = 1..Len(line)
  BY LenProperties
<1>2. {i \in DOMAIN line : line[i] # Empty} = 1..Len(line)
  BY <1>1
<1>3. PICK n \in Nat : n = Len(line)
  BY <1>1
<1>4. Cardinality(1..n) = n
  BY FS_Interval
<1> QED
  BY <1>2, <1>3, <1>4

\* A row of a table that reads back is written as it is, and is not blank.
LEMMA RowReadsBack ==
    ASSUME NEW table \in Tables, table.items # <<>>, ReadsBack(table),
           NEW j \in 1..Len(table.items[1])
    PROVE  LineOf(TableRow(table, j)) = TableRow(table, j) /\ TableRow(table, j) \in Row
<1> DEFINE row == TableRow(table, j)
<1>1. /\ row \in Seq(Fields) /\ row # <<>>
      /\ Len(row) = Len(table.items) + Len(table.payloads)
      /\ \A c \in 1..Len(table.items) : row[c] = table.items[c][j]
  BY TableRowIs
<1>2. table.items \in Seq(Seq(Fields)) /\ Len(table.items) \in Nat \ {0}
  <2>1. table.items \in Seq(Seq(Fields))
    BY TableShape
  <2> QED
    BY <2>1, EmptySeq
<1>3. 1 \in 1..Len(table.items)
  BY <1>2
<1>4. j \in DOMAIN table.items[1]
  <2>1. table.items[1] \in Seq(Fields)
    BY <1>2, <1>3, ElementOfSeq
  <2> QED
    BY <2>1, LenProperties
<1> HIDE DEF row
<1>5. row # <<Empty>>
  <2> SUFFICES ASSUME row = <<Empty>>
               PROVE  FALSE
    OBVIOUS
  <2>1. Len(row) = 1 /\ row[1] = Empty
    OBVIOUS
  <2>2. Len(table.items) + Len(table.payloads) = 1
    BY <1>1, <2>1
  <2>3. table.items[1][j] # Empty
    BY <1>4, <2>2 DEF ReadsBack
  <2> QED
    BY <1>1, <1>3, <2>1, <2>3
<1> QED
  BY <1>1, <1>5 DEF row, LineOf, Row, Line

\* Nor is the header, and every column is counted.
LEMMA LinesReadBack ==
    ASSUME NEW table \in Tables, table.items # <<>>, ReadsBack(table), NEW first \in {1, 2},
           first = IF table.header # <<>> THEN 2 ELSE 1
    PROVE  /\ WriteDataToFile(table) \in Seq(Row)
           /\ \A j \in 1..Len(table.items[1]) :
                 WriteDataToFile(table)[first + j - 1] = TableRow(table, j)
           /\ ColumnsNum(WriteDataToFile(table)) # 0 =>
                 ColumnsNum(WriteDataToFile(table)) = Len(table.items) + Len(table.payloads)
<1> DEFINE total == Len(table.items) + Len(table.payloads)
<1>1. PICK lines : lines = WriteDataToFile(table)
  OBVIOUS
<1>2. PICK n : n = Len(table.items[1])
  OBVIOUS
<1>3. /\ lines \in Seq(Line) /\ n \in Nat /\ Len(lines) = n + first - 1
      /\ first = 2 => lines[1] = LineOf(table.header)
      /\ \A j \in 1..n : lines[first + j - 1] = LineOf(TableRow(table, j))
  BY <1>1, <1>2, LinesWritten
<1>4. \A j \in 1..n : lines[first + j - 1] = TableRow(table, j) /\ TableRow(table, j) \in Row
  BY <1>2, <1>3, RowReadsBack
<1>5. ASSUME first = 2
      PROVE  /\ lines[1] = table.header /\ table.header \in Row /\ Len(table.header) = total
             /\ \A i \in 1..Len(table.header) : table.header[i] # Empty
  <2>1. table.header # <<>> /\ table.header \in Seq(Fields) /\ Len(table.header) = total
    <3>1. table.header # <<>>
      BY <1>5
    <3>2. table.header \in Seq(Fields) /\ (table.header # <<>> => Len(table.header) = total)
      BY TableShape
    <3> QED
      BY <3>1, <3>2
  <2>2. DOMAIN table.header = 1..Len(table.header) /\ 1 \in 1..Len(table.header)
    <3>1. Len(table.header) \in Nat \ {0} /\ DOMAIN table.header = 1..Len(table.header)
      BY <2>1, EmptySeq, LenProperties
    <3> QED
      BY <3>1
  <2>3. \A i \in 1..Len(table.header) : table.header[i] # Empty
    BY <2>2 DEF ReadsBack
  <2>4. table.header # <<Empty>>
    BY <2>2, <2>3
  <2> QED
    BY <1>3, <1>5, <2>1, <2>3, <2>4 DEF LineOf, Row, Line
<1>6. lines \in Seq(Row)
  <2>1. ASSUME NEW i \in 1..Len(lines)
        PROVE  lines[i] \in Row
    <3>1. CASE i < first
      <4>1. i = 1 /\ first = 2
        BY <3>1
      <4> QED
        BY <1>5, <4>1
    <3>2. CASE ~(i < first)
      <4>1. i - first + 1 \in 1..n /\ first + (i - first + 1) - 1 = i
        BY <1>3, <3>2
      <4> QED
        BY <1>4, <4>1
    <3> QED
      BY <3>1, <3>2
  <2>2. Len(lines) \in Nat /\ lines \in [1..Len(lines) -> Line]
    BY <1>3, LenProperties
  <2>3. lines \in [1..Len(lines) -> Row]
    BY <2>1, <2>2
  <2> QED
    BY <2>2, <2>3, FunctionIsSeq
<1>7. ASSUME ColumnsNum(lines) # 0
      PROVE  ColumnsNum(lines) = total
  <2>1. lines # <<>>
    BY <1>7 DEF ColumnsNum
  <2>2. PICK line : line = lines[1]
    OBVIOUS
  <2>3. ColumnsNum(lines) = Cardinality({i \in DOMAIN line : line[i] # Empty})
    BY <2>1, <2>2 DEF ColumnsNum
  <2>4. /\ line \in Seq(Fields) /\ Len(line) = total
        /\ \A i \in 1..Len(line) : line[i] # Empty
    <3>1. CASE first = 2
      BY <1>5, <2>2, <3>1 DEF Row, Line
    <3>2. CASE first = 1
      <4>1. Len(lines) # 0
        BY <1>3, <2>1, EmptySeq
      <4>2. 1 \in 1..n /\ first + 1 - 1 = 1
        BY <1>3, <3>2, <4>1
      <4>3. line = TableRow(table, 1)
        BY <1>4, <2>2, <4>2
      <4>4. /\ line \in Seq(Fields) /\ Len(line) = total
            /\ \A c \in 1..Len(table.items) : line[c] = table.items[c][1]
            /\ \A c \in 1..Len(table.payloads) :
                  line[Len(table.items) + c] = Numeral(table.payloads[c][1])
        BY <1>2, <4>2, <4>3, TableRowIs
      <4>5. /\ table.items \in Seq(Seq(Fields))
            /\ table.payloads \in Seq(Seq({Stoull[f] : f \in DOMAIN Stoull}))
            /\ \A c \in DOMAIN table.items : Len(table.items[c]) = n
            /\ \A c \in DOMAIN table.payloads : Len(table.payloads[c]) = n
            /\ Len(table.items) \in Nat /\ DOMAIN table.items = 1..Len(table.items)
            /\ Len(table.payloads) \in Nat /\ DOMAIN table.payloads = 1..Len(table.payloads)
        BY <1>2, TableShape, LenProperties
      <4>6. ASSUME NEW c \in 1..Len(table.items)
            PROVE  line[c] # Empty
        <5>1. c \in DOMAIN table.items /\ Len(table.items[c]) = n
          BY <4>5
        <5>2. table.items[c] # <<>>
          BY <4>2, <5>1
        <5>3. table.header = <<>>
          BY <3>2
        <5> QED
          BY <4>4, <5>1, <5>2, <5>3 DEF ReadsBack
      <4>7. ASSUME NEW c \in 1..Len(table.payloads)
            PROVE  line[Len(table.items) + c] # Empty
        <5>1. PICK column : column = table.payloads[c]
          OBVIOUS
        <5>2. column \in Seq({Stoull[f] : f \in DOMAIN Stoull}) /\ Len(column) = n
          BY <4>5, <5>1, ElementOfSeq
        <5>3. column[1] \in {Stoull[f] : f \in DOMAIN Stoull}
          BY <4>2, <5>2, ElementOfSeq
        <5>4. Numeral(column[1]) \in DOMAIN Stoull
          BY <5>3, NumeralType
        <5>5. Numeral(column[1]) # Empty
          BY <5>4, EmptyAssumption
        <5> QED
          BY <4>4, <5>1, <5>5
      <4>8. ASSUME NEW i \in 1..Len(line)
            PROVE  line[i] # Empty
        <5>1. \/ i \in 1..Len(table.items)
              \/ /\ i - Len(table.items) \in 1..Len(table.payloads)
                 /\ Len(table.items) + (i - Len(table.items)) = i
          <6>1. PICK a \in Nat, b \in Nat : a = Len(table.items) /\ b = Len(table.payloads)
            BY <4>5
          <6>2. i \in 1..(a + b)
            BY <4>4, <6>1
          <6>3. i \in 1..a \/ (i - a \in 1..b /\ a + (i - a) = i)
            BY <6>2
          <6> QED
            BY <6>1, <6>3
        <5>2. CASE i \in 1..Len(table.items)
          BY <4>6, <5>2
        <5>3. CASE /\ i - Len(table.items) \in 1..Len(table.payloads)
                   /\ Len(table.items) + (i - Len(table.items)) = i
          <6>1. PICK c \in 1..Len(table.payloads) : Len(table.items) + c = i
            BY <5>3
          <6> QED
            BY <4>7, <6>1
        <5> QED
          BY <5>1, <5>2, <5>3
      <4> QED
        BY <4>4, <4>8
    <3> QED
      BY <3>1, <3>2
  <2> HIDE DEF total
  <2> QED
    BY <2>3, <2>4, FieldsCounted
<1> HIDE DEF total
<1> QED
  BY <1>1, <1>2, <1>4, <1>6, <1>7 DEF total

-----------------------------------------------------------------------------
(* A scan begins.                                                          *)

LEMMA RowsEmpty ==
    Rows(<<>>) = <<>>
<1>1. <<>> \in Seq(Line) /\ Len(<<>>) = 0
  BY EmptySeq
<1>2. PICK e : e = <<>>
  OBVIOUS
<1>3. e \in Seq(Line) /\ RowsAt(e) = {}
  <2>1. DOMAIN e = 1..0
    BY <1>1, <1>2, LenProperties
  <2> QED
    BY <1>1, <1>2, <2>1 DEF RowsAt
<1>4. Rows(e) \in Seq(Row) /\ Len(Rows(e)) = Cardinality(RowsAt(e))
  BY <1>3, RowsType
<1>5. Len(Rows(e)) = 0
  BY <1>3, <1>4, FS_EmptySet
<1>6. Rows(e) = <<>>
  BY <1>4, <1>5, EmptySeq
<1> QED
  BY <1>2, <1>6

\* The columns of a method.
LEMMA ColumnsType ==
    ASSUME NEW m \in Methods,
           items_columns_num \in Nat \ {0}, columns_num \in Nat,
           items_columns_num <= columns_num
    PROVE  /\ Columns(m).items \in Nat /\ Columns(m).payloads \in Nat
           /\ m = "items" => Columns(m).items = 1
<1>1. m \in {"items", "items_2d", "payloads", "payloads_2d"}
  BY DEF Methods
<1>2. CASE m = "items"
  BY <1>2 DEF Columns
<1>3. CASE m = "items_2d"
  BY <1>3 DEF Columns
<1>4. CASE m = "payloads"
  BY <1>4 DEF Columns
<1>5. CASE m = "payloads_2d"
  <2>1. columns_num - items_columns_num \in Nat
    OBVIOUS
  <2> QED
    BY <1>5, <2>1 DEF Columns
<1> QED
  BY <1>1, <1>2, <1>3, <1>4, <1>5

\* Nothing is behind the stream, and the caller holds nothing.
LEMMA ScanBegins ==
    ASSUME file'.lines \in Seq(Line), has_header' \in BOOLEAN,
           stream' = AtBegin(file'.lines, file'.newline, has_header'),
           rows_num' \in Nat, file'.newline \in BOOLEAN,
           NEW m \in Methods, NEW columns, columns.items \in Nat, columns.payloads \in Nat,
           m = "items" => columns.items = 1,
           Begin(m, columns)
    PROVE  /\ stream' \in [next : Nat \ {0}, eof : BOOLEAN] /\ cur_line_idx' \in 0..rows_num'
           /\ method' = m /\ threw' = FALSE
           /\ \A c \in DOMAIN items' : items'[c] = <<>>
           /\ \A c \in DOMAIN payloads' : payloads'[c] = <<>>
           /\ DOMAIN items' = 1..columns.items /\ DOMAIN payloads' = 1..columns.payloads
           /\ InStep' /\ RowsInOrder'
<1>1. /\ method' = m /\ threw' = FALSE /\ cur_line_idx' = 0
      /\ items' = [i \in 1..columns.items |-> <<>>]
      /\ payloads' = [i \in 1..columns.payloads |-> <<>>]
  BY DEF Begin
<1>2. Len(file'.lines) \in Nat
  BY LenProperties
<1>3. /\ stream'.next = IF has_header' THEN 2 ELSE 1
      /\ stream'.eof = (has_header' /\ (Len(file'.lines) = 0 \/ (Len(file'.lines) = 1 /\ ~file'.newline)))
      /\ stream' \in [next : Nat \ {0}, eof : BOOLEAN]
  BY <1>2 DEF AtBegin
<1>4. stream'.eof => stream'.next > Len(file'.lines)
  <2> SUFFICES ASSUME stream'.eof
               PROVE  stream'.next > Len(file'.lines)
    OBVIOUS
  <2>1. PICK n \in Nat : n = Len(file'.lines)
    BY <1>2
  <2>2. stream'.next = 2
    BY <1>3
  <2>3. n = 0 \/ n = 1
    BY <1>3, <2>1
  <2>4. 2 > n
    BY <2>3
  <2> QED
    BY <2>1, <2>2, <2>4
<1>5. InStep'
  <2>1. stream'.next = FirstRow' + cur_line_idx'
    BY <1>1, <1>3 DEF FirstRow
  <2> QED
    BY <1>4, <2>1 DEF InStep
<1>6. PassedRows' = <<>>
  <2>1. PICK n : n = stream'.next
    OBVIOUS
  <2>2. PICK b : b = IF n > Len(file'.lines) THEN Len(file'.lines) ELSE n - 1
    OBVIOUS
  <2>3. n \in Int /\ b \in Int /\ b < n
    BY <1>2, <1>3, <2>1, <2>2
  <2>4. SubSeq(file'.lines, n, b) = <<>>
    BY <2>3, SubSeqEmpty
  <2>5. PassedRows' = Rows(SubSeq(file'.lines, n, b))
    BY <1>3, <2>1, <2>2 DEF PassedRows
  <2> QED
    BY <2>4, <2>5, RowsEmpty
<1>7. RowsInOrder'
  <2>1. ItemsOf(<<>>)' = items'
    <3>1. CASE m = "items"
      <4>1. ItemsOf(<<>>)' = <<<<>>>>
        BY <1>1, <3>1 DEF ItemsOf
      <4>2. items' = [i \in 1..1 |-> <<>>]
        BY <1>1, <3>1
      <4> QED
        BY <4>1, <4>2
    <3>2. CASE m # "items"
      <4>1. ItemsOf(<<>>)' = [c \in DOMAIN items' |-> [i \in DOMAIN <<>> |-> Field(<<>>[i], c)]]
        BY <1>1, <3>2 DEF ItemsOf
      <4>2. DOMAIN items' = 1..columns.items
        BY <1>1
      <4>3. \A c : [i \in DOMAIN <<>> |-> Field(<<>>[i], c)] = <<>>
        OBVIOUS
      <4> QED
        BY <1>1, <4>1, <4>2, <4>3
    <3> QED
      BY <3>1, <3>2
  <2>2. PayloadsOf(<<>>)' = payloads'
    <3>1. PayloadsOf(<<>>)' =
             [c \in DOMAIN payloads' |->
                Numbers([i \in DOMAIN <<>> |-> Field(<<>>[i], Len(items') + c)])]
      BY DEF PayloadsOf
    <3>2. \A c : [i \in DOMAIN <<>> |-> Field(<<>>[i], Len(items') + c)] = <<>>
      OBVIOUS
    <3>3. Numbers(<<>>) = <<>>
      BY DEF Numbers
    <3>4. DOMAIN payloads' = 1..columns.payloads
      BY <1>1
    <3> QED
      BY <1>1, <3>1, <3>2, <3>3, <3>4
  <2>3. ItemsOf(PassedRows)' = ItemsOf(<<>>)' /\ PayloadsOf(PassedRows)' = PayloadsOf(<<>>)'
    BY <1>6 DEF ItemsOf, PayloadsOf
  <2> QED
    BY <2>1, <2>2, <2>3 DEF RowsInOrder
<1>8. /\ \A c \in DOMAIN items' : items'[c] = <<>>
      /\ \A c \in DOMAIN payloads' : payloads'[c] = <<>>
      /\ DOMAIN items' = 1..columns.items /\ DOMAIN payloads' = 1..columns.payloads
  BY <1>1
<1>9. cur_line_idx' \in 0..rows_num'
  BY <1>1
<1> QED
  BY <1>1, <1>3, <1>5, <1>7, <1>8, <1>9

-----------------------------------------------------------------------------
(* The steps that end no scan early.                                       *)

LEMMA CsvInit ==
    Init => CsvInv
<1> SUFFICES ASSUME Init
             PROVE  CsvInv
  OBVIOUS
<1>1. /\ file \in Files /\ written = None /\ has_header = FALSE
      /\ items_columns_num = 1 /\ rows_num = 0 /\ columns_num = 0
      /\ stream = [next |-> 1, eof |-> FALSE] /\ method = "closed"
      /\ items = <<>> /\ payloads = <<>> /\ cur_line_idx = 0 /\ threw = FALSE
  BY DEF Init
<1>2. file \in [lines : Seq(Line), newline : BOOLEAN]
  BY <1>1, FilesAssumption
<1>3. DOMAIN items = {} /\ DOMAIN payloads = {}
  BY <1>1
<1>4. stream \in [next : Nat \ {0}, eof : BOOLEAN]
  BY <1>1
<1>5. /\ has_header \in BOOLEAN /\ items_columns_num \in Nat /\ rows_num \in Nat
      /\ columns_num \in Nat /\ method \in Methods \cup {"closed"} /\ threw \in BOOLEAN
  BY <1>1
<1>6. cur_line_idx \in 0..rows_num
  BY <1>1
<1>7. TypeOK
  BY <1>2, <1>3, <1>4, <1>5, <1>6 DEF TypeOK
<1> QED
  BY <1>1, <1>7 DEF CsvInv, WrittenFile, RowsInOrder

LEMMA WriteStep ==
    ASSUME CsvInv, NEW table \in Tables, Write(table)
    PROVE  CsvInv'
<1>1. /\ method = "closed" /\ method' = method /\ table.items # <<>>
      /\ file' = [lines |-> WriteDataToFile(table), newline |-> TRUE]
      /\ written' = table
      /\ UNCHANGED <<has_header, items_columns_num, rows_num, columns_num,
                     stream, cur_line_idx, items, payloads, threw>>
  BY DEF Write
<1>2. PICK first \in {1, 2} : first = IF table.header # <<>> THEN 2 ELSE 1
  OBVIOUS
<1>3. WriteDataToFile(table) \in Seq(Line)
  BY <1>1, <1>2, LinesWritten
<1>4. file' \in [lines : Seq(Line), newline : BOOLEAN]
  BY <1>1, <1>3
<1>5. TypeOK /\ items = <<>> /\ payloads = <<>>
  BY <1>1 DEF CsvInv
<1>6. TypeOK'
  BY <1>1, <1>4, <1>5 DEF TypeOK
<1>7. WrittenFile'
  BY <1>1 DEF WrittenFile
<1> QED
  BY <1>1, <1>5, <1>6, <1>7 DEF CsvInv, RowsInOrder

LEMMA ConstructStep ==
    ASSUME CsvInv, NEW header \in BOOLEAN, NEW item_columns \in ItemColumns,
           Construct(header, item_columns)
    PROVE  CsvInv'
<1>1. /\ method = "closed" /\ item_columns <= ColumnsNum(file.lines)
      /\ written # None => /\ header = (written.header # <<>>)
                           /\ item_columns = Len(written.items)
      /\ has_header' = header /\ items_columns_num' = item_columns
      /\ rows_num' = RowsNum(file.lines, header)
      /\ columns_num' = ColumnsNum(file.lines)
      /\ stream' = AtBegin(file.lines, file.newline, header)
      /\ file' = file /\ written' = written
  BY DEF Construct
<1>2. PICK m \in Methods : Begin(m, Columns(m)')
  BY DEF Construct
<1>3. file \in [lines : Seq(Line), newline : BOOLEAN] /\ WrittenFile
  BY DEF CsvInv, TypeOK
<1>4. item_columns \in Nat \ {0}
  BY ColumnsAssumption
<1>5. ColumnsNum(file.lines) \in Nat
  <2>1. CASE file.lines = <<>>
    BY <2>1 DEF ColumnsNum
  <2>2. CASE file.lines # <<>>
    <3>1. 1 \in 1..Len(file.lines) /\ file.lines \in Seq(Line)
      BY <1>3, <2>2, EmptySeq
    <3>2. PICK line : line = file.lines[1]
      OBVIOUS
    <3>3. line \in Line
      BY <3>1, <3>2, ElementOfSeq
    <3>4. Len(line) \in Nat /\ DOMAIN line = 1..Len(line)
      BY <3>3, LenProperties DEF Line
    <3>5. {i \in DOMAIN line : line[i] # Empty} \in SUBSET (1..Len(line))
      BY <3>4
    <3>6. Cardinality({i \in DOMAIN line : line[i] # Empty}) \in Nat
      BY <3>4, <3>5, PositionsFinite
    <3> QED
      BY <2>2, <3>2, <3>6 DEF ColumnsNum
  <2> QED
    BY <2>1, <2>2
<1>6. RowsNum(file.lines, header) \in Nat
  <2>1. PICK first \in {1, 2} : first = IF header THEN 2 ELSE 1
    OBVIOUS
  <2>2. ColumnsNum(file.lines) # 0 /\ file.lines \in Seq(Line)
    BY <1>1, <1>3, <1>4, <1>5
  <2> QED
    BY <2>1, <2>2, RowsCounted
<1>7. /\ items_columns_num' \in Nat \ {0} /\ columns_num' \in Nat
      /\ items_columns_num' <= columns_num'
  BY <1>1, <1>4, <1>5
<1>8. /\ Columns(m)'.items \in Nat /\ Columns(m)'.payloads \in Nat
      /\ m = "items" => Columns(m)'.items = 1
  <2>1. m \in {"items", "items_2d", "payloads", "payloads_2d"}
    BY DEF Methods
  <2>2. columns_num' - items_columns_num' \in Nat
    <3>1. PICK a \in Nat, b \in Nat : a = columns_num' /\ b = items_columns_num'
      BY <1>7
    <3>2. b <= a
      BY <1>7, <3>1
    <3>3. a - b \in Nat
      BY <3>2
    <3> QED
      BY <3>1, <3>3
  <2> QED
    BY <1>7, <2>1, <2>2 DEF Columns
<1>9. PICK columns : columns = Columns(m)'
  OBVIOUS
<1>10. /\ stream' \in [next : Nat \ {0}, eof : BOOLEAN] /\ cur_line_idx' \in 0..rows_num'
       /\ method' = m /\ threw' = FALSE
       /\ \A c \in DOMAIN items' : items'[c] = <<>>
       /\ \A c \in DOMAIN payloads' : payloads'[c] = <<>>
       /\ DOMAIN items' = 1..columns.items /\ DOMAIN payloads' = 1..columns.payloads
       /\ InStep' /\ RowsInOrder'
  <2>1. /\ file'.lines \in Seq(Line) /\ has_header' \in BOOLEAN
        /\ stream' = AtBegin(file'.lines, file'.newline, has_header')
        /\ rows_num' \in Nat /\ file'.newline \in BOOLEAN
    BY <1>1, <1>3, <1>6
  <2>2. Begin(m, columns)
    BY <1>2, <1>9 DEF Begin
  <2>3. /\ columns.items \in Nat /\ columns.payloads \in Nat
        /\ m = "items" => columns.items = 1
    BY <1>8, <1>9
  <2> QED
    BY <2>1, <2>2, <2>3, ScanBegins
<1>11. TypeOK'
  <2>1. \A c \in DOMAIN items' :
           items'[c] \in IF method' = "items" THEN Seq(Line) ELSE Seq(Fields)
    BY ZenonT(60), <1>10, EmptySeq
  <2>2. \A c \in DOMAIN payloads' : payloads'[c] \in Seq(Nat)
    BY <1>10, EmptySeq
  <2>3. /\ file' \in [lines : Seq(Line), newline : BOOLEAN] /\ has_header' \in BOOLEAN
        /\ items_columns_num' \in Nat /\ rows_num' \in Nat /\ columns_num' \in Nat
        /\ method' \in Methods \cup {"closed"} /\ threw' \in BOOLEAN
    BY <1>1, <1>3, <1>6, <1>7, <1>10
  <2> QED
    BY <1>10, <2>1, <2>2, <2>3 DEF TypeOK
<1>12. WrittenFile'
  BY <1>1, <1>3 DEF WrittenFile
<1>13. Counted'
  <2>1. items_columns_num' \in 1..columns_num'
    BY <1>7
  <2>2. written' # None => /\ has_header' <=> written'.header # <<>>
                           /\ items_columns_num' = Len(written'.items)
    BY <1>1
  <2>3. /\ rows_num' = RowsNum(file'.lines, has_header')
        /\ columns_num' = ColumnsNum(file'.lines)
    BY <1>1
  <2> QED
    BY <2>1, <2>2, <2>3 DEF Counted
<1>14. Shaped'
  <2>1. Columns(method)' = columns
    BY <1>9, <1>10 DEF Columns
  <2> QED
    BY <1>10, <2>1 DEF Shaped
<1>15. method' # "closed"
  BY <1>10 DEF Methods
<1> QED
  BY <1>10, <1>11, <1>12, <1>13, <1>14, <1>15 DEF CsvInv

LEMMA SeekBeginStep ==
    ASSUME CsvInv, SeekBegin
    PROVE  CsvInv'
<1>1. /\ method # "closed" /\ UNCHANGED provider
      /\ stream' = AtBegin(file.lines, file.newline, has_header)
  BY DEF SeekBegin
<1>2. /\ file' = file /\ written' = written /\ has_header' = has_header
      /\ items_columns_num' = items_columns_num /\ rows_num' = rows_num
      /\ columns_num' = columns_num
  BY <1>1 DEF provider
<1>3. PICK m \in Methods : Begin(m, Columns(m))
  BY DEF SeekBegin
<1>4. Reading /\ TypeOK /\ WrittenFile /\ Counted
  BY <1>1, ReadingHolds DEF CsvInv
<1>5. PICK columns : columns = Columns(m)
  OBVIOUS
<1>6. /\ columns.items \in Nat /\ columns.payloads \in Nat
      /\ m = "items" => columns.items = 1
  <2>1. /\ items_columns_num \in Nat \ {0} /\ columns_num \in Nat
        /\ items_columns_num <= columns_num
    BY <1>4 DEF Reading
  <2> QED
    BY <1>5, <2>1, ColumnsType
<1>7. /\ stream' \in [next : Nat \ {0}, eof : BOOLEAN] /\ cur_line_idx' \in 0..rows_num'
      /\ method' = m /\ threw' = FALSE
      /\ \A c \in DOMAIN items' : items'[c] = <<>>
      /\ \A c \in DOMAIN payloads' : payloads'[c] = <<>>
      /\ DOMAIN items' = 1..columns.items /\ DOMAIN payloads' = 1..columns.payloads
      /\ InStep' /\ RowsInOrder'
  <2>1. /\ file'.lines \in Seq(Line) /\ has_header' \in BOOLEAN
        /\ stream' = AtBegin(file'.lines, file'.newline, has_header')
        /\ rows_num' \in Nat /\ file'.newline \in BOOLEAN
    BY <1>1, <1>2, <1>4 DEF Reading
  <2>2. Begin(m, columns)
    BY <1>3, <1>5
  <2> QED
    BY <1>6, <2>1, <2>2, ScanBegins
<1>8. TypeOK'
  <2>1. \A c \in DOMAIN items' :
           items'[c] \in IF method' = "items" THEN Seq(Line) ELSE Seq(Fields)
    BY <1>7, EmptySeq
  <2>2. \A c \in DOMAIN payloads' : payloads'[c] \in Seq(Nat)
    BY <1>7, EmptySeq
  <2>3. /\ file' \in [lines : Seq(Line), newline : BOOLEAN] /\ has_header' \in BOOLEAN
        /\ items_columns_num' \in Nat /\ rows_num' \in Nat /\ columns_num' \in Nat
    BY <1>2, <1>4 DEF TypeOK
  <2>4. method' \in Methods \cup {"closed"} /\ threw' \in BOOLEAN
    BY <1>7
  <2> QED
    BY <1>7, <2>1, <2>2, <2>3, <2>4 DEF TypeOK
<1>9. WrittenFile' /\ Counted'
  BY <1>2, <1>4 DEF WrittenFile, Counted
<1>10. Shaped'
  <2>1. Columns(method)' = columns
    BY <1>2, <1>5, <1>7 DEF Columns
  <2> QED
    BY <1>7, <2>1 DEF Shaped
<1>11. method' # "closed"
  BY <1>7 DEF Methods
<1> QED
  BY <1>7, <1>8, <1>9, <1>10, <1>11 DEF CsvInv

-----------------------------------------------------------------------------
(* The batches.                                                            *)

\* What a batch must leave behind.
LEMMA BatchFrame ==
    ASSUME CsvInv, method # "closed", UNCHANGED <<provider, method>>,
           stream' \in [next : Nat \ {0}, eof : BOOLEAN],
           stream'.eof => stream'.next > Len(file.lines),
           cur_line_idx' \in 0..rows_num, threw' \in BOOLEAN,
           ~threw' => stream'.next = FirstRow + cur_line_idx',
           DOMAIN items' = DOMAIN items, DOMAIN payloads' = DOMAIN payloads,
           \A c \in DOMAIN items :
              items'[c] \in IF method = "items" THEN Seq(Line) ELSE Seq(Fields),
           \A c \in DOMAIN payloads : payloads'[c] \in Seq(Nat),
           ~threw' => items' = ItemsOf(PassedRows)' /\ payloads' = PayloadsOf(PassedRows)'
    PROVE  CsvInv'
<1>1. /\ file' = file /\ written' = written /\ has_header' = has_header
      /\ items_columns_num' = items_columns_num /\ rows_num' = rows_num
      /\ columns_num' = columns_num /\ method' = method
  BY DEF provider
<1>2. TypeOK /\ WrittenFile /\ Counted /\ Shaped
  BY DEF CsvInv
<1>3. TypeOK'
  <2>1. /\ file' \in [lines : Seq(Line), newline : BOOLEAN] /\ has_header' \in BOOLEAN
        /\ items_columns_num' \in Nat /\ rows_num' \in Nat /\ columns_num' \in Nat
        /\ method' \in Methods \cup {"closed"}
    BY <1>1, <1>2 DEF TypeOK
  <2>2. /\ cur_line_idx' \in 0..rows_num'
        /\ \A c \in DOMAIN items' :
              items'[c] \in IF method' = "items" THEN Seq(Line) ELSE Seq(Fields)
        /\ \A c \in DOMAIN payloads' : payloads'[c] \in Seq(Nat)
    BY <1>1
  <2> QED
    BY <2>1, <2>2 DEF TypeOK
<1>4. WrittenFile' /\ Counted'
  BY <1>1, <1>2 DEF WrittenFile, Counted
<1>5. Shaped'
  <2>1. Columns(method)' = Columns(method)
    BY <1>1 DEF Columns
  <2> QED
    BY <1>2, <2>1 DEF Shaped
<1>6. InStep'
  <2>1. FirstRow' = FirstRow
    BY <1>1 DEF FirstRow
  <2> QED
    BY <1>1, <2>1 DEF InStep
<1>7. RowsInOrder'
  BY DEF RowsInOrder
<1> QED
  BY <1>1, <1>3, <1>4, <1>5, <1>6, <1>7 DEF CsvInv

\* Columns to which the fields of some rows are added.
LEMMA ExtendIs ==
    ASSUME NEW columns, NEW n \in Nat, DOMAIN columns = 1..n, NEW rows \in Seq(Row)
    PROVE  /\ DOMAIN Extend(columns, rows, 1) = 1..n
           /\ \A c \in 1..n : Extend(columns, rows, 1)[c] = columns[c] \o Cells(rows, c)
           /\ (\A c \in 1..n : columns[c] \in Seq(Fields)) =>
                 Extend(columns, rows, 1) \in [1..n -> Seq(Fields)]
<1>1. \A c \in 1..n : 1 + c - 1 = c
  OBVIOUS
<1>2. Extend(columns, rows, 1) = [c \in 1..n |-> columns[c] \o Cells(rows, c)]
  BY <1>1 DEF Extend, Cells
<1>3. ASSUME \A c \in 1..n : columns[c] \in Seq(Fields), NEW c \in 1..n
      PROVE  Extend(columns, rows, 1)[c] \in Seq(Fields)
  <2>1. Cells(rows, c) \in Seq(Fields) /\ columns[c] \in Seq(Fields)
    <3>1. c \in Nat \ {0}
      OBVIOUS
    <3> QED
      BY <1>3, <3>1, CellsConcat
  <2>2. columns[c] \o Cells(rows, c) \in Seq(Fields)
    BY <2>1, ConcatProperties
  <2> QED
    BY <1>2, <2>2
<1>4. ASSUME \A c \in 1..n : columns[c] \in Seq(Fields)
      PROVE  Extend(columns, rows, 1) \in [1..n -> Seq(Fields)]
  <2>1. \A c \in 1..n : Extend(columns, rows, 1)[c] \in Seq(Fields)
    BY <1>3, <1>4
  <2> QED
    BY <1>2, <2>1
<1> QED
  BY <1>2, <1>4

\* Items that hold the cells of some rows, with the cells of those that follow.
LEMMA ItemsGrow ==
    ASSUME NEW v \in Seq(Row), NEW w \in Seq(Row), method # "items", method' = method,
           NEW n \in Nat, DOMAIN items = 1..n,
           items = ItemsOf(v), items' = Extend(items, w, 1)
    PROVE  items' = ItemsOf(v \o w)'
<1>1. items' = [c \in 1..n |-> items[c] \o Cells(w, c)]
  <2>1. \A c \in 1..n : 1 + c - 1 = c
    OBVIOUS
  <2> QED
    BY <2>1 DEF Extend, Cells
<1>2. DOMAIN items' = 1..n
  BY <1>1
<1>3. \A c \in 1..n : items[c] = Cells(v, c)
  BY DEF ItemsOf, Cells
<1>4. \A c \in 1..n : Cells(v \o w, c) = Cells(v, c) \o Cells(w, c)
  <2>1. \A c \in 1..n : c \in Nat \ {0}
    OBVIOUS
  <2> QED
    BY SMTT(60), <2>1, CellsConcat
<1>5. ItemsOf(v \o w)' = [c \in 1..n |-> Cells(v \o w, c)]
  BY <1>2 DEF ItemsOf, Cells
<1> QED
  BY <1>1, <1>3, <1>4, <1>5

\* Without payloads there are none after a batch either.
LEMMA NoPayloads ==
    ASSUME DOMAIN payloads = 1..0, NEW v, payloads = PayloadsOf(v),
           payloads' = payloads, NEW w
    PROVE  payloads' = PayloadsOf(w)'
<1>1. DOMAIN payloads = {} /\ DOMAIN payloads' = {}
  OBVIOUS
<1>2. payloads = [c \in {} |-> {}]
  BY <1>1 DEF PayloadsOf
<1>3. PayloadsOf(w)' = [c \in {} |-> {}]
  BY <1>1 DEF PayloadsOf
<1> QED
  BY <1>2, <1>3

LEMMA GetNextBatchStep ==
    ASSUME CsvInv, NEW batch_size \in BatchSizes, GetNextBatch(batch_size)
    PROVE  CsvInv'
<1>1. PICK count : count = ReadLinesCount(batch_size)
  OBVIOUS
<1>2. /\ method = "items" /\ items' = <<items[1] \o Rows(Seen(count))>>
      /\ stream' = Advanced(count) /\ cur_line_idx' = cur_line_idx + count
      /\ UNCHANGED <<provider, method>> /\ payloads' = payloads /\ threw' = threw
  BY <1>1 DEF GetNextBatch
<1>3. Reading /\ TypeOK /\ RowsInOrder /\ Shaped
  BY <1>2, ReadingHolds DEF CsvInv
<1>4. count \in Nat /\ cur_line_idx + count \in 0..rows_num
  BY <1>1, <1>3, ReadCount
<1>5. Seen(count) \in Seq(Line)
  BY <1>3, <1>4, SeenType
<1>6. Rows(Seen(count)) \in Seq(Row) /\ Rows(Seen(count)) \in Seq(Line)
  <2>1. Rows(Seen(count)) \in Seq(Row)
    BY <1>5, RowsType
  <2>2. Row \subseteq Line
    BY DEF Row
  <2> QED
    BY <2>1, <2>2, SeqMonotonic
<1>7. DOMAIN items = 1..1 /\ DOMAIN payloads = 1..0 /\ DOMAIN items' = 1..1
  <2>1. DOMAIN items = 1..1 /\ DOMAIN payloads = 1..0
    BY <1>2, <1>3 DEF Shaped, Columns
  <2>2. DOMAIN items' = 1..1
    BY <1>2
  <2> QED
    BY <2>1, <2>2
<1>8. /\ stream' \in [next : Nat \ {0}, eof : BOOLEAN] /\ stream'.next = stream.next + count
      /\ stream'.eof => stream'.next > Len(file.lines)
  BY <1>2, <1>3, <1>4, AdvancedType
<1>9. ~threw' => stream'.next = FirstRow + cur_line_idx'
  <2>1. /\ FirstRow \in Int /\ cur_line_idx \in Int
        /\ ~threw => stream.next = FirstRow + cur_line_idx
    BY <1>3 DEF Reading, InStep
  <2> QED
    BY <1>2, <1>4, <1>8, <2>1
<1>10. \A c \in DOMAIN items : items'[c] \in IF method = "items" THEN Seq(Line) ELSE Seq(Fields)
  <2>1. items[1] \in Seq(Line)
    BY <1>2, <1>3, <1>7 DEF TypeOK
  <2>2. items[1] \o Rows(Seen(count)) \in Seq(Line)
    BY <1>6, <2>1, ConcatProperties
  <2>3. items'[1] = items[1] \o Rows(Seen(count))
    BY <1>2
  <2>4. \A c \in DOMAIN items : c = 1
    BY <1>7
  <2>5. items'[1] \in Seq(Line)
    BY <2>2, <2>3
  <2> QED
    BY <1>2, <2>4, <2>5
<1>11. ASSUME ~threw'
       PROVE  items' = ItemsOf(PassedRows)' /\ payloads' = PayloadsOf(PassedRows)'
  <2>1. items = ItemsOf(PassedRows) /\ payloads = PayloadsOf(PassedRows)
    BY <1>2, <1>3, <1>11 DEF RowsInOrder
  <2>2. PassedRows' = PassedRows \o Rows(Seen(count))
    BY <1>2, <1>3, <1>4, <1>11, PassedGrow
  <2>3. items[1] = PassedRows
    BY <1>2, <2>1 DEF ItemsOf
  <2>4. ItemsOf(PassedRows)' = <<PassedRows'>>
    BY <1>2 DEF ItemsOf
  <2>5. PICK w : w = PassedRows'
    OBVIOUS
  <2>6. PICK v : v = PassedRows
    OBVIOUS
  <2>7. payloads' = PayloadsOf(w)'
    BY <1>2, <1>7, <2>1, <2>6, NoPayloads
  <2>8. PayloadsOf(w)' = PayloadsOf(PassedRows)'
    BY <2>5 DEF PayloadsOf
  <2> QED
    BY <1>2, <2>2, <2>3, <2>4, <2>7, <2>8
<1>12. /\ cur_line_idx' \in 0..rows_num /\ threw' \in BOOLEAN
       /\ \A c \in DOMAIN payloads : payloads'[c] \in Seq(Nat)
  BY <1>2, <1>3, <1>4 DEF TypeOK
<1>13. DOMAIN items' = DOMAIN items /\ DOMAIN payloads' = DOMAIN payloads /\ method # "closed"
  BY <1>2, <1>7
<1> QED
  BY <1>2, <1>8, <1>9, <1>10, <1>11, <1>12, <1>13, BatchFrame

LEMMA GetNextBatch2dStep ==
    ASSUME CsvInv, NEW batch_size \in BatchSizes, GetNextBatch2d(batch_size)
    PROVE  CsvInv'
<1>1. PICK count : count = ReadLinesCount(batch_size)
  OBVIOUS
<1>2. /\ method = "items_2d" /\ items' = Extend(items, Rows(Seen(count)), 1)
      /\ stream' = Advanced(count) /\ cur_line_idx' = cur_line_idx + count
      /\ UNCHANGED <<provider, method>> /\ payloads' = payloads /\ threw' = threw
  BY <1>1 DEF GetNextBatch2d
<1>3. Reading /\ TypeOK /\ RowsInOrder /\ Shaped
  BY <1>2, ReadingHolds DEF CsvInv
<1>4. count \in Nat /\ cur_line_idx + count \in 0..rows_num
  BY <1>1, <1>3, ReadCount
<1>5. Rows(Seen(count)) \in Seq(Row)
  BY <1>3, <1>4, SeenType, RowsType
<1>6. PICK n \in Nat : DOMAIN items = 1..n
  <2>1. DOMAIN items = 1..items_columns_num
    BY <1>2, <1>3 DEF Shaped, Columns
  <2> QED
    BY <1>3, <2>1 DEF Reading
<1>7. DOMAIN payloads = 1..0
  BY <1>2, <1>3 DEF Shaped, Columns
<1>8. items' \in [1..n -> Seq(Fields)]
  <2>1. \A c \in 1..n : items[c] \in Seq(Fields)
    BY <1>2, <1>3, <1>6 DEF TypeOK
  <2> QED
    BY <1>2, <1>5, <1>6, <2>1, ExtendIs
<1>9. /\ stream' \in [next : Nat \ {0}, eof : BOOLEAN] /\ stream'.next = stream.next + count
      /\ stream'.eof => stream'.next > Len(file.lines)
  BY <1>2, <1>3, <1>4, AdvancedType
<1>10. ~threw' => stream'.next = FirstRow + cur_line_idx'
  <2>1. /\ FirstRow \in Int /\ cur_line_idx \in Int
        /\ ~threw => stream.next = FirstRow + cur_line_idx
    BY <1>3 DEF Reading, InStep
  <2> QED
    BY <1>2, <1>4, <1>9, <2>1
<1>11. ASSUME ~threw'
       PROVE  items' = ItemsOf(PassedRows)' /\ payloads' = PayloadsOf(PassedRows)'
  <2>1. items = ItemsOf(PassedRows) /\ payloads = PayloadsOf(PassedRows)
    BY <1>2, <1>3, <1>11 DEF RowsInOrder
  <2>2. PassedRows' = PassedRows \o Rows(Seen(count))
    BY <1>2, <1>3, <1>4, <1>11, PassedGrow
  <2>3. PICK v : v = PassedRows
    OBVIOUS
  <2>4. PICK w : w = Rows(Seen(count))
    OBVIOUS
  <2>5. v \in Seq(Row)
    BY <1>2, <1>3, <1>11, <2>3, PassedIs
  <2>6. items' = ItemsOf(v \o w)'
    BY <1>2, <1>5, <1>6, <2>1, <2>3, <2>4, <2>5, ItemsGrow
  <2>7. payloads' = PayloadsOf(v \o w)'
    BY <1>2, <1>7, <2>1, <2>3, NoPayloads
  <2>8. PassedRows' = v \o w
    BY <2>2, <2>3, <2>4
  <2>9. ItemsOf(PassedRows)' = ItemsOf(v \o w)' /\ PayloadsOf(PassedRows)' = PayloadsOf(v \o w)'
    BY <2>8 DEF ItemsOf, PayloadsOf
  <2> QED
    BY <2>6, <2>7, <2>9
<1>12. /\ cur_line_idx' \in 0..rows_num /\ threw' \in BOOLEAN
       /\ \A c \in DOMAIN payloads : payloads'[c] \in Seq(Nat)
  BY <1>2, <1>3, <1>4 DEF TypeOK
<1>13. DOMAIN items' = DOMAIN items /\ DOMAIN payloads' = DOMAIN payloads /\ method # "closed"
  BY <1>2, <1>6, <1>8
<1>14. \A c \in DOMAIN items :
           items'[c] \in IF method = "items" THEN Seq(Line) ELSE Seq(Fields)
  BY <1>2, <1>6, <1>8
<1> QED
  BY <1>2, <1>9, <1>10, <1>11, <1>12, <1>13, <1>14, BatchFrame

\* The numbers of rows none of whose payloads stops a batch.
LEMMA GoodNumbers ==
    ASSUME NEW s \in Seq(Line), NEW first \in Nat \ {0}, NEW p \in Nat,
           DOMAIN payloads = 1..p, \A i \in DOMAIN s : ~Bad(s[i], first),
           NEW c \in 1..p
    PROVE  Numbers(Cells(Rows(s), first + c - 1)) \in Seq(Nat)
<1>1. PICK j \in Nat \ {0} : j = first + c - 1
  OBVIOUS
<1>2. Rows(s) \in Seq(Row)
  BY RowsType
<1>3. PICK v : v = Cells(Rows(s), j)
  OBVIOUS
<1>4. v \in Seq(Fields)
  BY <1>2, <1>3, CellsConcat
<1>5. ASSUME NEW i \in DOMAIN v
      PROVE  v[i] \in DOMAIN Stoull
  <2>1. i \in DOMAIN Rows(s) /\ v[i] = Field(Rows(s)[i], j)
    BY <1>3 DEF Cells
  <2>2. PICK k \in RowsAt(s) : Rows(s)[i] = s[k]
    BY <2>1, RowIs
  <2>3. k \in DOMAIN s /\ s[k] # <<>>
    BY <2>2 DEF RowsAt
  <2>4. ~Bad(s[k], first)
    BY <2>3
  <2>5. Field(s[k], first + c - 1) \in DOMAIN Stoull
    BY <2>3, <2>4 DEF Bad
  <2> QED
    BY <1>1, <2>1, <2>2, <2>5
<1>6. Numbers(v) \in Seq(Nat)
  BY <1>4, <1>5, NumbersType
<1> QED
  BY <1>1, <1>3, <1>6

\* Payloads that hold the numbers of some rows, with those of the rows after.
PayloadsAdded(n, p, v, w) ==
    /\ n \in Nat /\ Len(items) = n /\ Len(items') = n
    /\ p \in Nat /\ DOMAIN payloads = 1..p /\ payloads = PayloadsOf(v)
    /\ payloads' \in [1..p -> Seq(Nat)]
    /\ \A c \in 1..p : payloads'[c] = payloads[c] \o Numbers(Cells(w, n + 1 + c - 1))

LEMMA PayloadsGrow ==
    ASSUME NEW v \in Seq(Row), NEW w \in Seq(Row), NEW n, NEW p, PayloadsAdded(n, p, v, w)
    PROVE  payloads' = PayloadsOf(v \o w)'
<1> USE DEF PayloadsAdded
<1>1. \A c \in 1..p : n + 1 + c - 1 = n + c /\ n + c \in Nat \ {0}
  OBVIOUS
<1>2. \A c \in 1..p : payloads[c] = Numbers(Cells(v, n + c))
  BY DEF PayloadsOf, Cells
<1>3. ASSUME NEW c \in 1..p
      PROVE  Numbers(Cells(v \o w, n + c))
               = Numbers(Cells(v, n + c)) \o Numbers(Cells(w, n + c))
  <2>1. PICK j \in Nat \ {0} : j = n + c
    BY <1>1
  <2>2. /\ Cells(v, j) \in Seq(Fields) /\ Cells(w, j) \in Seq(Fields)
        /\ Cells(v \o w, j) = Cells(v, j) \o Cells(w, j)
    BY CellsConcat
  <2>3. PICK a : a = Cells(v, j)
    OBVIOUS
  <2>4. PICK b : b = Cells(w, j)
    OBVIOUS
  <2>5. Numbers(a \o b) = Numbers(a) \o Numbers(b)
    <3>1. a \in Seq(Fields) /\ b \in Seq(Fields)
      BY <2>2, <2>3, <2>4
    <3> QED
      BY <3>1, NumbersConcat
  <2> QED
    BY <2>1, <2>2, <2>3, <2>4, <2>5
<1>4. DOMAIN payloads' = 1..p
  OBVIOUS
<1>5. PayloadsOf(v \o w)' = [c \in 1..p |-> Numbers(Cells(v \o w, n + c))]
  BY <1>4 DEF PayloadsOf, Cells
<1>6. payloads' = [c \in 1..p |-> Numbers(Cells(v, n + c)) \o Numbers(Cells(w, n + c))]
  BY <1>1, <1>2
<1> QED
  BY <1>3, <1>5, <1>6

LEMMA BatchWithPayloadsStep ==
    ASSUME CsvInv, method \in {"payloads", "payloads_2d"},
           NEW batch_size \in BatchSizes, NEW first, first = Columns(method).items + 1,
           BatchWithPayloads(batch_size, first)
    PROVE  CsvInv'
<1>1. method # "closed" /\ method # "items"
  OBVIOUS
<1>2. Reading /\ TypeOK /\ RowsInOrder /\ Shaped
  BY <1>1, ReadingHolds DEF CsvInv
<1>3. PICK n \in Nat \ {0} : n = Columns(method).items
  <2>1. items_columns_num \in Nat \ {0}
    BY <1>2 DEF Reading
  <2> QED
    BY <2>1 DEF Columns
<1>4. PICK p \in Nat : p = Columns(method).payloads
  <2>1. items_columns_num \in Nat /\ columns_num \in Nat /\ items_columns_num <= columns_num
    BY <1>2 DEF Reading
  <2>2. columns_num - items_columns_num \in Nat
    BY <2>1
  <2> QED
    BY <2>2 DEF Columns
<1>5. /\ DOMAIN items = 1..n /\ DOMAIN payloads = 1..p
      /\ first = n + 1 /\ first \in Nat \ {0}
  BY SMTT(60), <1>2, <1>3, <1>4 DEF Shaped
<1> DEFINE count == ReadLinesCount(batch_size)
           seen == Seen(count)
           bad == {i \in 1..count : Bad(seen[i], first)}
           stop == CHOOSE i \in bad : \A j \in bad : i <= j
           good == Rows(IF bad = {} THEN seen ELSE SubSeq(seen, 1, stop - 1))
           added(c) == payloads[c] \o Numbers(Cells(good, first + c - 1))
<1>6. /\ bad = {} =>
            /\ items' = Extend(items, good, 1)
            /\ payloads' = [c \in DOMAIN payloads |-> added(c)]
            /\ stream' = Advanced(count) /\ cur_line_idx' = cur_line_idx + count
            /\ threw' = threw
      /\ bad # {} =>
            /\ items' = Extend(items, Append(good, seen[stop]), 1)
            /\ payloads' = [c \in DOMAIN payloads |->
                  added(c) \o IF \A d \in 1..c : Field(seen[stop], first + d - 1) \in DOMAIN Stoull
                              THEN <<Stoull[Field(seen[stop], first + c - 1)]>> ELSE <<>>]
            /\ stream' = Advanced(stop) /\ threw' = TRUE /\ cur_line_idx' = cur_line_idx
  BY DEF BatchWithPayloads, Cells
<1>7. count \in Nat /\ cur_line_idx + count \in 0..rows_num
  BY <1>2, ReadCount
<1>8. seen = Seen(count)
  OBVIOUS
<1> HIDE DEF count
<1>9. seen \in Seq(Line) /\ Len(seen) = count /\ DOMAIN seen = 1..count
  BY <1>2, <1>7, SeenType, LenProperties
<1> HIDE DEF seen
<1>10. bad = {i \in 1..count : Bad(seen[i], first)}
  OBVIOUS
<1>16. stop = CHOOSE i \in bad : \A j \in bad : i <= j
  OBVIOUS
<1> HIDE DEF bad, stop
<1>17. good = Rows(IF bad = {} THEN seen ELSE SubSeq(seen, 1, stop - 1))
  OBVIOUS
<1> HIDE DEF good
<1>18. n \in Nat
  OBVIOUS
<1>11. UNCHANGED <<provider, method>>
  BY DEF BatchWithPayloads
<1>12. \A c \in 1..n : items[c] \in Seq(Fields)
  BY <1>1, <1>2, <1>5 DEF TypeOK
<1>13. \A c \in 1..p : payloads[c] \in Seq(Nat)
  BY <1>2, <1>5 DEF TypeOK
<1>14. CASE bad = {}
  <2>1. PICK w : w = Rows(seen)
    OBVIOUS
  <2>2. /\ items' = Extend(items, w, 1)
        /\ payloads' = [c \in DOMAIN payloads |->
                          payloads[c] \o Numbers(Cells(w, first + c - 1))]
        /\ stream' = Advanced(count) /\ cur_line_idx' = cur_line_idx + count
        /\ threw' = threw
    <3>1. w = good
      BY <1>14, <1>17, <2>1
    <3> QED
      BY <1>6, <1>14, <3>1
  <2>3. w \in Seq(Row)
    BY <1>9, <2>1, RowsType
  <2>4. items' \in [1..n -> Seq(Fields)]
    BY <1>5, <1>12, <1>18, <2>2, <2>3, ExtendIs
  <2>5. ASSUME NEW c \in 1..p
        PROVE  payloads'[c] \in Seq(Nat)
    <3>1. \A i \in DOMAIN seen : ~Bad(seen[i], first)
      BY <1>9, <1>10, <1>14
    <3>2. Numbers(Cells(w, first + c - 1)) \in Seq(Nat)
      BY <1>5, <1>9, <2>1, <3>1, GoodNumbers
    <3>3. payloads[c] \o Numbers(Cells(w, first + c - 1)) \in Seq(Nat)
      BY <1>13, <3>2, ConcatProperties
    <3> QED
      BY <1>5, <2>2, <3>3
  <2>6. /\ stream' \in [next : Nat \ {0}, eof : BOOLEAN] /\ stream'.next = stream.next + count
        /\ stream'.eof => stream'.next > Len(file.lines)
    BY <1>2, <1>7, <2>2, AdvancedType
  <2>7. ~threw' => stream'.next = FirstRow + cur_line_idx'
    <3>1. /\ FirstRow \in Int /\ cur_line_idx \in Int
          /\ ~threw => stream.next = FirstRow + cur_line_idx
      BY <1>2 DEF Reading, InStep
    <3> QED
      BY <1>7, <2>2, <2>6, <3>1
  <2>8. ASSUME ~threw'
        PROVE  items' = ItemsOf(PassedRows)' /\ payloads' = PayloadsOf(PassedRows)'
    <3>1. items = ItemsOf(PassedRows) /\ payloads = PayloadsOf(PassedRows)
      BY <1>1, <1>2, <2>2, <2>8 DEF RowsInOrder
    <3>2. PassedRows' = PassedRows \o w
      <4>1. PassedRows' = PassedRows \o Rows(Seen(count))
        BY <1>2, <1>7, <1>11, <2>2, <2>8, PassedGrow
      <4> QED
        BY <1>8, <2>1, <4>1
    <3>3. PICK v : v = PassedRows
      OBVIOUS
    <3>4. v \in Seq(Row)
      BY <1>2, <2>2, <2>8, <3>3, PassedIs
    <3>5. items' = ItemsOf(v \o w)'
      BY <1>1, <1>5, <1>11, <1>18, <2>2, <2>3, <3>1, <3>3, <3>4, ItemsGrow
    <3>6. Len(items) = n /\ Len(items') = n
      <4>1. items = [c \in 1..n |-> Cells(v, c)]
        BY <1>1, <1>5, <3>1, <3>3 DEF ItemsOf, Cells
      <4>2. \A c \in 1..n : Cells(v, c) \in Seq(Fields)
        <5>1. \A c \in 1..n : c \in Nat \ {0}
          OBVIOUS
        <5> QED
          BY <3>4, <5>1, CellsConcat
      <4>3. items \in [1..n -> Seq(Fields)] /\ items' \in [1..n -> Seq(Fields)]
        BY <2>4, <4>1, <4>2
      <4> QED
        BY <1>18, <4>3, FunctionIsSeq
    <3>7. payloads' = PayloadsOf(v \o w)'
      <4>1. payloads' \in [1..p -> Seq(Nat)]
        BY <1>5, <2>2, <2>5
      <4>2. \A c \in 1..p : payloads'[c] = payloads[c] \o Numbers(Cells(w, first + c - 1))
        BY <1>5, <2>2
      <4> QED
        <5>1. PayloadsAdded(n, p, v, w)
          BY <1>5, <1>18, <3>1, <3>3, <3>6, <4>1, <4>2 DEF PayloadsAdded
        <5> QED
          BY <2>3, <3>4, <5>1, PayloadsGrow
    <3>8. PassedRows' = v \o w
      BY <3>2, <3>3
    <3>9. ItemsOf(PassedRows)' = ItemsOf(v \o w)' /\ PayloadsOf(PassedRows)' = PayloadsOf(v \o w)'
      BY <3>8 DEF ItemsOf, PayloadsOf
    <3> QED
      BY <3>5, <3>7, <3>9
  <2>9. /\ cur_line_idx' \in 0..rows_num /\ threw' \in BOOLEAN
        /\ \A c \in DOMAIN payloads : payloads'[c] \in Seq(Nat)
        /\ DOMAIN items' = DOMAIN items /\ DOMAIN payloads' = DOMAIN payloads
    BY <1>2, <1>5, <1>7, <2>2, <2>4, <2>5 DEF Reading
  <2>10. \A c \in DOMAIN items :
            items'[c] \in IF method = "items" THEN Seq(Line) ELSE Seq(Fields)
    BY <1>1, <1>5, <2>4
  <2> QED
    BY <1>1, <1>11, <2>6, <2>7, <2>8, <2>9, <2>10, BatchFrame
<1>15. CASE bad # {}
  <2>2. stop \in 1..count /\ stop \in bad /\ \A j \in bad : stop <= j
    <3>1. bad \in SUBSET (1..count)
      BY <1>10
    <3>2. \E i \in bad : \A j \in bad : i <= j
      BY <1>7, <1>15, <3>1, FirstOfPositions
    <3> QED
      BY <1>16, <3>1, <3>2
  <2>3. PICK before : before = SubSeq(seen, 1, stop - 1)
    OBVIOUS
  <2>4. PICK w : w = Rows(before)
    OBVIOUS
  <2>5. /\ items' = Extend(items, Append(w, seen[stop]), 1)
        /\ payloads' = [c \in DOMAIN payloads |->
              payloads[c] \o Numbers(Cells(w, first + c - 1))
                \o IF \A d \in 1..c : Field(seen[stop], first + d - 1) \in DOMAIN Stoull
                   THEN <<Stoull[Field(seen[stop], first + c - 1)]>> ELSE <<>>]
        /\ stream' = Advanced(stop) /\ threw' = TRUE /\ cur_line_idx' = cur_line_idx
    <3>1. w = good
      BY <1>15, <1>17, <2>3, <2>4
    <3> QED
      BY <1>6, <1>15, <3>1
  <2>6. /\ before \in Seq(Line) /\ Len(before) = stop - 1
        /\ \A i \in 1..(stop - 1) : before[i] = seen[i]
    <3>1. /\ stop - 1 \in Nat /\ stop - 1 <= Len(seen) /\ 1 \in Nat \ {0} /\ stop - 1 - 1 + 1 = stop - 1
          /\ \A i \in 1..(stop - 1) : 1 + i - 1 = i
      BY <1>7, <1>9, <2>2
    <3>2. PICK b \in Nat : b = stop - 1
      BY <3>1
    <3>3. /\ SubSeq(seen, 1, b) \in Seq(Line)
          /\ Len(SubSeq(seen, 1, b)) = IF 1 <= b THEN b - 1 + 1 ELSE 0
          /\ \A i \in 1..(b - 1 + 1) : SubSeq(seen, 1, b)[i] = seen[1 + i - 1]
      BY <1>9, <3>1, <3>2, RowsOfPart
    <3>4. (IF 1 <= b THEN b - 1 + 1 ELSE 0) = b /\ b - 1 + 1 = b
      OBVIOUS
    <3> QED
      BY <2>3, <3>1, <3>2, <3>3, <3>4
  <2>7. \A i \in DOMAIN before : ~Bad(before[i], first)
    <3>1. DOMAIN before = 1..(stop - 1)
      BY <2>6, LenProperties
    <3>2. \A i \in 1..(stop - 1) : i \in 1..count /\ ~(stop <= i)
      BY <1>7, <2>2
    <3> QED
      BY <1>10, <2>2, <2>6, <3>1, <3>2
  <2>8. w \in Seq(Row) /\ seen[stop] \in Row
    <3>1. w \in Seq(Row)
      BY <2>4, <2>6, RowsType
    <3>2. seen[stop] \in Line
      BY <1>9, <2>2, ElementOfSeq
    <3>3. seen[stop] # <<>>
      BY <1>10, <2>2 DEF Bad
    <3> QED
      BY <3>1, <3>2, <3>3 DEF Row
  <2>9. Append(w, seen[stop]) \in Seq(Row)
    BY <2>8, AppendProperties
  <2>10. /\ DOMAIN items' = 1..n
         /\ \A c \in 1..n : items'[c] \in Seq(Fields)
    <3>1. PICK v : v = Append(w, seen[stop])
      OBVIOUS
    <3>2. v \in Seq(Row) /\ items' = Extend(items, v, 1)
      BY <2>5, <2>9, <3>1
    <3>3. items' \in [1..n -> Seq(Fields)]
      BY <1>5, <1>12, <1>18, <3>2, ExtendIs
    <3> QED
      BY <3>3
  <2>11. ASSUME NEW c \in 1..p
         PROVE  payloads'[c] \in Seq(Nat)
    <3>1. Numbers(Cells(w, first + c - 1)) \in Seq(Nat)
      BY <1>5, <2>4, <2>6, <2>7, GoodNumbers
    <3>2. payloads[c] \o Numbers(Cells(w, first + c - 1)) \in Seq(Nat)
      BY <1>13, <3>1, ConcatProperties
    <3>3. PICK last : last = IF \A d \in 1..c : Field(seen[stop], first + d - 1) \in DOMAIN Stoull
                   THEN <<Stoull[Field(seen[stop], first + c - 1)]>> ELSE <<>>
      OBVIOUS
    <3>4. last \in Seq(Nat)
      <4>1. CASE \A d \in 1..c : Field(seen[stop], first + d - 1) \in DOMAIN Stoull
        <5>1. c \in 1..c
          OBVIOUS
        <5>2. Stoull[Field(seen[stop], first + c - 1)] \in Nat
          BY <4>1, <5>1, StoullAssumption
        <5> QED
          BY <3>3, <4>1, <5>2
      <4>2. CASE ~\A d \in 1..c : Field(seen[stop], first + d - 1) \in DOMAIN Stoull
        <5>1. last = <<>>
          BY <3>3, <4>2
        <5> QED
          BY <5>1, EmptySeq
      <4> QED
        BY <4>1, <4>2
    <3>5. payloads[c] \o Numbers(Cells(w, first + c - 1)) \o last \in Seq(Nat)
      BY <3>2, <3>4, ConcatProperties
    <3> QED
      BY <1>5, <2>5, <3>3, <3>5
  <2>12. /\ stream' \in [next : Nat \ {0}, eof : BOOLEAN]
         /\ stream'.eof => stream'.next > Len(file.lines)
    <3>1. stop \in Nat
      BY <2>2
    <3> QED
      BY <1>2, <2>5, <3>1, AdvancedType
  <2>13. /\ cur_line_idx' \in 0..rows_num /\ threw' \in BOOLEAN /\ threw'
         /\ \A c \in DOMAIN payloads : payloads'[c] \in Seq(Nat)
         /\ DOMAIN items' = DOMAIN items /\ DOMAIN payloads' = DOMAIN payloads
    <3>1. cur_line_idx \in 0..rows_num
      BY <1>2 DEF Reading
    <3>2. DOMAIN payloads' = DOMAIN payloads
      BY <2>5
    <3> QED
      BY <1>5, <1>11, <2>5, <2>10, <2>11, <3>1, <3>2
  <2>14. \A c \in DOMAIN items :
            items'[c] \in IF method = "items" THEN Seq(Line) ELSE Seq(Fields)
    BY <1>1, <1>5, <2>10
  <2> QED
    BY <1>1, <1>11, <2>12, <2>13, <2>14, BatchFrame
<1> QED
  BY <1>14, <1>15

LEMMA GetNextBatchWithPayloadsStep ==
    ASSUME CsvInv, NEW batch_size \in BatchSizes,
           \/ GetNextBatchWithPayloads(batch_size) \/ GetNextBatchWithPayloads2d(batch_size)
    PROVE  CsvInv'
<1>1. CASE GetNextBatchWithPayloads(batch_size)
  <2>1. method = "payloads" /\ BatchWithPayloads(batch_size, 2)
    BY <1>1 DEF GetNextBatchWithPayloads
  <2>2. 2 = Columns(method).items + 1
    BY <2>1 DEF Columns
  <2> QED
    BY <2>1, <2>2, BatchWithPayloadsStep
<1>2. CASE GetNextBatchWithPayloads2d(batch_size)
  <2>1. method = "payloads_2d" /\ BatchWithPayloads(batch_size, items_columns_num + 1)
    BY <1>2 DEF GetNextBatchWithPayloads2d
  <2>2. items_columns_num + 1 = Columns(method).items + 1
    BY <2>1 DEF Columns
  <2> QED
    BY <2>1, <2>2, BatchWithPayloadsStep
<1> QED
  BY <1>1, <1>2

LEMMA CsvStutter ==
    ASSUME CsvInv, UNCHANGED vars
    PROVE  CsvInv'
<1>1. /\ file' = file /\ written' = written /\ has_header' = has_header
      /\ items_columns_num' = items_columns_num /\ rows_num' = rows_num
      /\ columns_num' = columns_num /\ stream' = stream /\ cur_line_idx' = cur_line_idx
      /\ method' = method /\ items' = items /\ payloads' = payloads /\ threw' = threw
  BY DEF vars, provider
<1>2. TypeOK' /\ WrittenFile'
  BY <1>1 DEF CsvInv, TypeOK, WrittenFile
<1>3. method' # "closed" => Counted' /\ Shaped' /\ InStep'
  <2>1. Columns(method)' = Columns(method) /\ FirstRow' = FirstRow
    BY <1>1 DEF Columns, FirstRow
  <2> QED
    BY <1>1, <2>1 DEF CsvInv, Counted, Shaped, InStep
<1>4. RowsInOrder'
  <2>1. PICK v : v = PassedRows
    OBVIOUS
  <2>2. PassedRows' = v
    BY <1>1, <2>1 DEF PassedRows
  <2>3. ItemsOf(v)' = ItemsOf(v) /\ PayloadsOf(v)' = PayloadsOf(v)
    BY <1>1 DEF ItemsOf, PayloadsOf
  <2>4. ItemsOf(PassedRows)' = ItemsOf(v)' /\ PayloadsOf(PassedRows)' = PayloadsOf(v)'
    BY <2>2 DEF ItemsOf, PayloadsOf
  <2>5. method # "closed" /\ ~threw => items = ItemsOf(v) /\ payloads = PayloadsOf(v)
    BY <2>1 DEF CsvInv, RowsInOrder
  <2> QED
    BY <1>1, <2>3, <2>4, <2>5 DEF RowsInOrder
<1> QED
  BY <1>1, <1>2, <1>3, <1>4 DEF CsvInv

\* The inductive invariant, for every file, table and batch size.
THEOREM CsvInvariant ==
    Spec => []CsvInv
<1>1. CsvInv /\ [Next]_vars => CsvInv'
  <2> SUFFICES ASSUME CsvInv, [Next]_vars
               PROVE  CsvInv'
    OBVIOUS
  <2>1. CASE \E table \in Tables : Write(table)
    BY <2>1, WriteStep
  <2>2. CASE \E header \in BOOLEAN, n \in ItemColumns : Construct(header, n)
    BY <2>2, ConstructStep
  <2>3. CASE SeekBegin
    BY <2>3, SeekBeginStep
  <2>4. ASSUME NEW n \in BatchSizes,
               \/ GetNextBatch(n) \/ GetNextBatch2d(n)
               \/ GetNextBatchWithPayloads(n) \/ GetNextBatchWithPayloads2d(n)
        PROVE  CsvInv'
    BY <2>4, GetNextBatchStep, GetNextBatch2dStep, GetNextBatchWithPayloadsStep
  <2>5. CASE UNCHANGED vars
    BY <2>5, CsvStutter
  <2> QED
    BY <2>1, <2>2, <2>3, <2>4, <2>5 DEF Next
<1> QED
  BY <1>1, CsvInit, PTL DEF Spec

-----------------------------------------------------------------------------
(* What a caller gets.                                                     *)

\* The index of the provider never passes the number of rows, so the unsigned
\* difference every batch takes never wraps; every column holds texts, or the
\* numbers they denote.
THEOREM TypeCorrect ==
    Spec => []TypeOK
<1>1. CsvInv => TypeOK
  BY DEF CsvInv
<1> QED
  BY <1>1, CsvInvariant, PTL

\* However a scan is cut into batches, the caller holds the rows the stream has
\* gone past, in order, each item beside its own payloads.
THEOREM BatchesInOrder ==
    Spec => []RowsInOrder
<1>1. CsvInv => RowsInOrder
  BY DEF CsvInv
<1> QED
  BY <1>1, CsvInvariant, PTL

\* The rows of the first lines are the first rows of the file.
LEMMA DataIs ==
    ASSUME CsvInv, method # "closed", ~threw
    PROVE  /\ DataRows \in Seq(Row)
           /\ Rows(SubSeq(file.lines, stream.next, Len(file.lines))) \in Seq(Row)
           /\ DataRows = PassedRows \o Rows(SubSeq(file.lines, stream.next, Len(file.lines)))
<1>1. Reading
  BY ReadingHolds
<1>2. /\ file.lines \in Seq(Line) /\ Len(file.lines) \in Nat
      /\ stream.next \in Nat \ {0} /\ rows_num \in Nat /\ cur_line_idx \in 0..rows_num
      /\ FirstRow \in {1, 2} /\ FirstRow + rows_num <= Len(file.lines) + 1
      /\ stream.next = FirstRow + cur_line_idx
  BY <1>1 DEF Reading, InStep
<1>3. PICK k : k = stream.next - 1
  OBVIOUS
<1>4. PICK n : n = Len(file.lines)
  OBVIOUS
<1>5. /\ FirstRow \in 1..(n + 1) /\ k \in (FirstRow - 1)..n /\ n \in k..n
      /\ k + 1 = stream.next /\ k + 1 \in Nat \ {0} /\ k \in Nat /\ n \in Nat /\ k <= n
      /\ FirstRow \in Nat \ {0} /\ n <= n
  BY <1>2, <1>3, <1>4
<1>6. SubSeq(file.lines, FirstRow, k) \o SubSeq(file.lines, k + 1, n)
         = SubSeq(file.lines, FirstRow, n)
  BY <1>2, <1>4, <1>5, ConcatAdjacentSubSeq
<1>7. /\ SubSeq(file.lines, FirstRow, k) \in Seq(Line)
      /\ SubSeq(file.lines, k + 1, n) \in Seq(Line)
      /\ SubSeq(file.lines, FirstRow, n) \in Seq(Line)
  BY <1>2, <1>4, <1>5, RowsOfPart
<1>8. Rows(SubSeq(file.lines, FirstRow, n))
        = Rows(SubSeq(file.lines, FirstRow, k)) \o Rows(SubSeq(file.lines, k + 1, n))
  BY <1>6, <1>7, RowsConcat
<1>9. PassedRows = Rows(SubSeq(file.lines, FirstRow, k))
  BY <1>1, <1>3, PassedIs
<1>10. DataRows = Rows(SubSeq(file.lines, FirstRow, n))
  BY <1>4 DEF DataRows, FirstRow
<1>11. /\ Rows(SubSeq(file.lines, FirstRow, n)) \in Seq(Row)
       /\ Rows(SubSeq(file.lines, k + 1, n)) \in Seq(Row)
  BY <1>7, RowsType
<1> QED
  BY <1>4, <1>5, <1>8, <1>9, <1>10, <1>11

\* As many rows as the provider has counted, or fewer by the blank lines that a
\* scan of as many lines has met.
LEMMA EnoughRows ==
    ASSUME CsvInv, method # "closed", ~threw, cur_line_idx = rows_num
    PROVE  Len(PassedRows) + Cardinality(BlanksBetween) >= Len(DataRows)
<1>1. Reading /\ Counted
  BY ReadingHolds DEF CsvInv
<1>2. /\ file.lines \in Seq(Line) /\ Len(file.lines) \in Nat \ {0}
      /\ stream.next \in Nat \ {0} /\ rows_num \in Nat
      /\ FirstRow \in {1, 2} /\ FirstRow + rows_num <= Len(file.lines) + 1
      /\ stream.next = FirstRow + rows_num /\ has_header \in BOOLEAN
      /\ items_columns_num \in Nat \ {0} /\ columns_num \in Nat
      /\ items_columns_num <= columns_num
  BY <1>1 DEF Reading, InStep
<1>3. PICK n \in Nat : n = Len(file.lines)
  BY <1>2
<1>4. PICK k \in Nat : k = stream.next - 1
  BY <1>2
<1>5. PICK first \in {1, 2} : first = FirstRow
  BY <1>2
<1>6. k = first + rows_num - 1 /\ k <= n /\ n <= n /\ first \in Nat \ {0}
  BY <1>2, <1>3, <1>4, <1>5
<1> DEFINE full == RowsIn(file.lines, first, k)
           blank == {i \in first..k : file.lines[i] = <<>>}
           data == RowsIn(file.lines, first, n)
<1>7. IsFiniteSet(full) /\ Len(PassedRows) = Cardinality(full)
  <2>1. PassedRows = Rows(SubSeq(file.lines, first, k))
    BY <1>1, <1>4, <1>5, PassedIs
  <2> QED
    BY SMTT(60), <1>2, <1>3, <1>6, <2>1, RowsOfPart
<1>8. IsFiniteSet(data) /\ Len(DataRows) = Cardinality(data)
  <2>1. DataRows = Rows(SubSeq(file.lines, first, n))
    BY <1>3, <1>5 DEF DataRows, FirstRow
  <2> QED
    BY <1>2, <1>3, <1>6, <2>1, RowsOfPart
<1>9. Cardinality(data) = rows_num
  <2>1. first = (IF has_header THEN 2 ELSE 1)
    BY <1>5 DEF FirstRow
  <2>2. rows_num = RowsNum(file.lines, has_header) /\ columns_num = ColumnsNum(file.lines)
    BY <1>1 DEF Counted
  <2>3. ColumnsNum(file.lines) # 0
    BY <1>2, <2>2
  <2>4. RowsNum(file.lines, has_header)
           = Cardinality(RowsIn(file.lines, first, Len(file.lines)))
    BY <1>2, <2>1, <2>3, RowsCounted
  <2> QED
    BY <1>3, <2>2, <2>4
<1>10. /\ IsFiniteSet(blank)
       /\ Cardinality(full) + Cardinality(blank) = rows_num
  <2>1. IsFiniteSet(first..k) /\ Cardinality(first..k) = rows_num
    <3>1. first \in Int /\ k \in Int
      OBVIOUS
    <3>2. (IF first > k THEN 0 ELSE k - first + 1) = rows_num
      BY <1>2, <1>6
    <3> QED
      BY <3>1, <3>2, FS_Interval
  <2>2. blank \in SUBSET (first..k) /\ full \cup blank = first..k /\ full \cap blank = {}
    BY DEF RowsIn
  <2> HIDE DEF blank, full
  <2>3. IsFiniteSet(blank)
    BY <2>1, <2>2, FS_Subset
  <2>4. Cardinality(full \cup blank)
          = Cardinality(full) + Cardinality(blank) - Cardinality(full \cap blank)
    BY <1>7, <2>3, FS_Union
  <2>5. Cardinality(full) \in Nat /\ Cardinality(blank) \in Nat /\ Cardinality({}) = 0
    BY <1>7, <2>3, FS_CardinalityType, FS_EmptySet
  <2>6. Cardinality(full) + Cardinality(blank) - 0 = rows_num
    BY <2>1, <2>2, <2>4, <2>5
  <2>7. Cardinality(full) + Cardinality(blank) = rows_num
    BY <2>5, <2>6
  <2> QED
    BY <2>3, <2>7
<1>11. IsFiniteSet(BlanksBetween) /\ Cardinality(BlanksBetween) \in Nat
  <2>1. BlanksBetween \in SUBSET (1..n)
    BY <1>2, <1>3, LenProperties DEF BlanksBetween
  <2> QED
    BY <2>1, PositionsFinite
<1>12. Cardinality(full) \in Nat /\ Cardinality(blank) \in Nat
  BY <1>7, <1>10, FS_CardinalityType
<1> HIDE DEF full, blank, data
<1>13. CASE \E j \in (k + 1)..n : file.lines[j] # <<>>
  <2>1. PICK j \in (k + 1)..n : file.lines[j] # <<>>
    BY <1>13
  <2>2. DOMAIN file.lines = 1..n
    BY <1>2, <1>3, LenProperties
  <2>3. j \in 1..n /\ \A i \in first..k : i \in 1..n /\ j > i
    BY <1>6
  <2>4. blank \in SUBSET BlanksBetween
    BY <2>1, <2>2, <2>3 DEF blank, BlanksBetween
  <2>5. Cardinality(blank) <= Cardinality(BlanksBetween)
    BY <1>11, <2>4, FS_Subset
  <2> QED
    BY <1>2, <1>7, <1>8, <1>9, <1>10, <1>11, <1>12, <2>5
<1>14. CASE ~\E j \in (k + 1)..n : file.lines[j] # <<>>
  <2>1. \A i \in first..n : i \in first..k \/ i \in (k + 1)..n
    BY <1>6
  <2>2. data \in SUBSET full
    BY <1>14, <2>1 DEF data, full, RowsIn
  <2>3. Cardinality(data) <= Cardinality(full)
    BY <1>7, <2>2, FS_Subset
  <2> QED
    BY <1>2, <1>7, <1>8, <1>9, <1>11, <1>12, <2>3
<1> QED
  BY <1>13, <1>14

\* A scan that has come to the end holds every row of the file, but for as many
\* at the end as there are blank lines before a row.
THEOREM ScansReadAll ==
    Spec => []ReadsAll
<1>1. CsvInv => ReadsAll
  <2> SUFFICES ASSUME CsvInv, method # "closed", ~threw, cur_line_idx = rows_num
               PROVE  \E n \in 0..Len(DataRows) :
                         /\ n + Cardinality(BlanksBetween) >= Len(DataRows)
                         /\ items = ItemsOf(SubSeq(DataRows, 1, n))
    BY DEF ReadsAll
  <2>1. PICK rest : rest = Rows(SubSeq(file.lines, stream.next, Len(file.lines)))
    OBVIOUS
  <2>2. DataRows \in Seq(Row) /\ rest \in Seq(Row) /\ DataRows = PassedRows \o rest
    BY <2>1, DataIs
  <2>3. PassedRows \in Seq(Row)
    BY ReadingHolds, PassedIs
  <2>4. PICK n \in Nat : n = Len(PassedRows)
    BY <2>3, LenProperties
  <2>5. PICK v : v = PassedRows
    OBVIOUS
  <2>6. v \in Seq(Row) /\ Len(v) = n /\ DataRows = v \o rest
    BY <2>2, <2>3, <2>4, <2>5
  <2>7. Len(v \o rest) = Len(v) + Len(rest) /\ Len(rest) \in Nat
        /\ \A i \in 1..(Len(v) + Len(rest)) :
              (v \o rest)[i] = IF i <= Len(v) THEN v[i] ELSE rest[i - Len(v)]
    BY <2>2, <2>6, ConcatProperties, LenProperties
  <2>8. n \in 0..Len(DataRows)
    BY <2>6, <2>7
  <2>9. n + Cardinality(BlanksBetween) >= Len(DataRows)
    BY <2>4, EnoughRows
  <2>10. SubSeq(DataRows, 1, n) = v
    <3>1. PICK s : s = SubSeq(DataRows, 1, n)
      OBVIOUS
    <3>2. \A i \in 1..n : DataRows[i] = v[i] /\ v[i] \in Row
      <4>1. \A i \in 1..n : i \in 1..(Len(v) + Len(rest)) /\ i <= Len(v)
        BY <2>6, <2>7
      <4> QED
        BY <2>6, <2>7, <4>1, ElementOfSeq
    <3>3. /\ s \in Seq(Row) /\ Len(s) = (IF 1 <= n THEN n - 1 + 1 ELSE 0)
          /\ \A i \in 1..(n - 1 + 1) : s[i] = DataRows[1 + i - 1]
      <4>1. 1 \in Int /\ n \in Int /\ \A i \in 1..n : DataRows[i] \in Row
        BY <3>2
      <4> QED
        BY <3>1, <4>1, SubSeqProperties
    <3>4. Len(s) = n /\ \A i \in 1..n : s[i] = DataRows[i]
      <4>1. (IF 1 <= n THEN n - 1 + 1 ELSE 0) = n /\ n - 1 + 1 = n
            /\ \A i \in 1..n : 1 + i - 1 = i
        OBVIOUS
      <4> QED
        BY <3>3, <4>1
    <3> QED
      BY <2>6, <3>1, <3>2, <3>3, <3>4, SeqEqual
  <2>11. items = ItemsOf(v)
    BY <2>5 DEF CsvInv, RowsInOrder
  <2> QED
    BY <2>8, <2>9, <2>10, <2>11
<1> QED
  BY <1>1, CsvInvariant, PTL

\* At the end of a scan of a file that was written from a table that reads back, the rows gone past are those
\* of the table.
LEMMA WrittenRows ==
    ASSUME CsvInv, written # None, ReadsBack(written),
           method = "payloads_2d", ~threw, cur_line_idx = rows_num
    PROVE  /\ Len(written.items[1]) \in Nat
           /\ PassedRows = [j \in 1..Len(written.items[1]) |-> TableRow(written, j)]
           /\ columns_num = Len(written.items) + Len(written.payloads)
           /\ items_columns_num = Len(written.items)
<1>1. Reading /\ Counted /\ WrittenFile
  BY ReadingHolds DEF CsvInv
<1>2. /\ written \in Tables /\ written.items # <<>>
      /\ file.lines = WriteDataToFile(written)
      /\ has_header <=> written.header # <<>>
      /\ items_columns_num = Len(written.items)
      /\ columns_num = ColumnsNum(file.lines) /\ rows_num = RowsNum(file.lines, has_header)
  BY <1>1 DEF WrittenFile, Counted
<1>3. /\ items_columns_num \in Nat \ {0} /\ columns_num \in Nat /\ has_header \in BOOLEAN
      /\ items_columns_num <= columns_num /\ FirstRow \in {1, 2}
      /\ stream.next = FirstRow + rows_num
  BY <1>1 DEF Reading, InStep
<1>4. PICK first \in {1, 2} : first = FirstRow
  BY <1>3
<1>5. first = (IF written.header # <<>> THEN 2 ELSE 1) /\ first = (IF has_header THEN 2 ELSE 1)
  BY <1>2, <1>4 DEF FirstRow
<1>6. PICK table \in Tables : table = written
  BY <1>2
<1>7. PICK lines : lines = WriteDataToFile(table)
  OBVIOUS
<1>8. PICK m : m = Len(table.items[1])
  OBVIOUS
<1>9. /\ lines \in Seq(Row) /\ lines \in Seq(Line)
      /\ m \in Nat /\ Len(lines) = m + first - 1
      /\ \A j \in 1..m : lines[first + j - 1] = TableRow(table, j)
      /\ ColumnsNum(lines) # 0 => ColumnsNum(lines) = Len(table.items) + Len(table.payloads)
  BY <1>2, <1>5, <1>6, <1>7, <1>8, LinesWritten, LinesReadBack
<1>10. lines = file.lines /\ ColumnsNum(lines) # 0
  BY <1>2, <1>3, <1>6, <1>7
<1>11. rows_num = m
  <2>1. rows_num = Cardinality(RowsIn(lines, first, Len(lines)))
    <3>1. rows_num = RowsNum(lines, has_header)
      BY <1>2, <1>10
    <3>2. has_header \in BOOLEAN /\ lines \in Seq(Line) /\ ColumnsNum(lines) # 0
      BY <1>3, <1>9, <1>10
    <3>3. RowsNum(lines, has_header) = Cardinality(RowsIn(lines, first, Len(lines)))
      BY <1>5, <3>2, RowsCounted
    <3> QED
      BY <3>1, <3>3
  <2>2. \A i \in first..Len(lines) : lines[i] # <<>>
    <3>1. \A i \in first..Len(lines) : i \in 1..Len(lines)
      BY <1>9
    <3>2. \A i \in 1..Len(lines) : lines[i] \in Row
      BY <1>9, ElementOfSeq
    <3> QED
      BY <3>1, <3>2 DEF Row
  <2>3. RowsIn(lines, first, Len(lines)) = first..Len(lines)
    BY <2>2 DEF RowsIn
  <2>4. Cardinality(first..Len(lines)) = m
    <3>1. first \in Int /\ Len(lines) \in Int
      BY <1>9
    <3>2. (IF first > Len(lines) THEN 0 ELSE Len(lines) - first + 1) = m
      BY <1>9
    <3> QED
      BY <3>1, <3>2, FS_Interval
  <2> QED
    BY <2>1, <2>3, <2>4
<1>12. PICK part : part = SubSeq(lines, first, Len(lines))
  OBVIOUS
<1>13. part \in Seq(Row) /\ Len(part) = m /\ \A j \in 1..m : part[j] = TableRow(table, j)
  <2>1. PICK n \in Nat : n = Len(lines)
    BY <1>9
  <2>2. \A i \in first..n : lines[i] \in Row
    <3>1. \A i \in first..n : i \in 1..Len(lines)
      BY <2>1
    <3> QED
      BY <1>9, <3>1, ElementOfSeq
  <2>3. /\ part \in Seq(Row) /\ Len(part) = (IF first <= n THEN n - first + 1 ELSE 0)
        /\ \A j \in 1..(n - first + 1) : part[j] = lines[first + j - 1]
    <3>1. first \in Int /\ n \in Int
      OBVIOUS
    <3> QED
      BY <1>12, <2>1, <2>2, <3>1, SubSeqProperties
  <2>4. (IF first <= n THEN n - first + 1 ELSE 0) = m /\ n - first + 1 = m
    BY <1>9, <2>1
  <2> QED
    BY <1>9, <2>3, <2>4
<1>14. PassedRows = Rows(part)
  <2>1. stream.next - 1 = Len(lines)
    BY <1>3, <1>4, <1>9, <1>11
  <2> QED
    BY <1>1, <1>4, <1>10, <1>12, <2>1, PassedIs
<1>15. Rows(part) = part
  BY <1>13, RowsAll
<1>16. part = [j \in 1..m |-> TableRow(table, j)]
  <2>1. part = [j \in 1..m |-> part[j]]
    BY <1>13, LenProperties
  <2> QED
    BY <1>13, <2>1
<1> QED
  BY <1>2, <1>6, <1>8, <1>9, <1>10, <1>14, <1>15, <1>16

\* A table written to a file and read to the end with its payloads, in batches of
\* any size, is the table that was written, if no text of the first line is empty
\* and, where there is one column, no item: ReadsBack.
THEOREM WrittenTableReadBack ==
    Spec => []RoundTrip
<1>1. CsvInv => RoundTrip
  <2> SUFFICES ASSUME CsvInv, written # None, ReadsBack(written),
                      method = "payloads_2d", ~threw, cur_line_idx = rows_num
               PROVE  items = written.items /\ payloads = written.payloads
    BY DEF RoundTrip
  <2>1. Reading /\ WrittenFile /\ Shaped /\ RowsInOrder
    BY ReadingHolds DEF CsvInv
  <2>2. PICK table \in Tables : table = written /\ table.items # <<>>
    BY <2>1 DEF WrittenFile
  <2>3. PICK m : m = Len(table.items[1])
    OBVIOUS
  <2>4. PICK n : n = Len(table.items)
    OBVIOUS
  <2>5. PICK p : p = Len(table.payloads)
    OBVIOUS
  <2>6. PICK v : v = PassedRows
    OBVIOUS
  <2>7. /\ m \in Nat /\ v = [j \in 1..m |-> TableRow(table, j)]
        /\ columns_num = n + p /\ items_columns_num = n
    BY <2>2, <2>3, <2>4, <2>5, <2>6, WrittenRows
  <2>8. /\ table.items \in Seq(Seq(Fields))
        /\ table.payloads \in Seq(Seq({Stoull[f] : f \in DOMAIN Stoull}))
        /\ \A c \in DOMAIN table.items : Len(table.items[c]) = m
        /\ \A c \in DOMAIN table.payloads : Len(table.payloads[c]) = m
    BY <2>3, TableShape
  <2>9. /\ n \in Nat \ {0} /\ p \in Nat
        /\ DOMAIN table.items = 1..n /\ DOMAIN table.payloads = 1..p
        /\ table.items \in [1..n -> Seq(Fields)]
        /\ table.payloads \in [1..p -> Seq({Stoull[f] : f \in DOMAIN Stoull})]
    BY <2>2, <2>4, <2>5, <2>8, EmptySeq, LenProperties
  <2>10. DOMAIN items = 1..n /\ DOMAIN payloads = 1..p
    <3>1. columns_num - items_columns_num = p
      BY <2>7, <2>9
    <3> QED
      BY <2>1, <2>7, <3>1 DEF Shaped, Columns
  <2>11. items = ItemsOf(v) /\ payloads = PayloadsOf(v)
    BY <2>1, <2>6 DEF RowsInOrder
  <2>12. ASSUME NEW j \in 1..m
         PROVE  /\ Len(TableRow(table, j)) = n + p
                /\ \A c \in 1..n : TableRow(table, j)[c] = table.items[c][j]
                /\ \A c \in 1..p : TableRow(table, j)[n + c] = Numeral(table.payloads[c][j])
    BY <2>2, <2>3, <2>4, <2>5, TableRowIs
  <2>13. items = table.items
    <3>1. items = [c \in 1..n |-> Cells(v, c)]
      BY <2>10, <2>11 DEF ItemsOf, Cells
    <3>2. ASSUME NEW c \in 1..n
          PROVE  Cells(v, c) = table.items[c]
      <4>1. \A j \in 1..m : Field(TableRow(table, j), c) = table.items[c][j]
        <5>1. c <= n + p
          BY <2>9
        <5> QED
          BY <2>12, <5>1 DEF Field
      <4>2. Cells(v, c) = [j \in 1..m |-> Field(TableRow(table, j), c)]
        BY <2>7 DEF Cells
      <4>3. Cells(v, c) = [j \in 1..m |-> table.items[c][j]]
        BY <4>1, <4>2
      <4>4. table.items[c] \in Seq(Fields) /\ Len(table.items[c]) = m
        BY <2>8, <2>9
      <4>5. table.items[c] \in [1..m -> Fields]
        BY <4>4, LenProperties
      <4> QED
        BY <4>3, <4>5
    <3>3. table.items = [c \in 1..n |-> table.items[c]]
      BY <2>9
    <3> QED
      BY <3>1, <3>2, <3>3
  <2>14. Len(items) = n
    BY <2>4, <2>13
  <2>15. payloads = table.payloads
    <3>1. payloads = [c \in 1..p |-> Numbers(Cells(v, n + c))]
      BY <2>10, <2>11, <2>14 DEF PayloadsOf, Cells
    <3>2. ASSUME NEW c \in 1..p
          PROVE  Numbers(Cells(v, n + c)) = table.payloads[c]
      <4>1. table.payloads[c] \in Seq({Stoull[f] : f \in DOMAIN Stoull})
            /\ Len(table.payloads[c]) = m
        BY <2>8, <2>9
      <4>2. /\ DOMAIN table.payloads[c] = 1..m
            /\ table.payloads[c] \in [1..m -> {Stoull[f] : f \in DOMAIN Stoull}]
        BY <4>1, LenProperties
      <4>3. \A j \in 1..m : Field(TableRow(table, j), n + c) = Numeral(table.payloads[c][j])
        <5>1. n + c <= n + p
          BY <2>9
        <5> QED
          BY <2>12, <5>1 DEF Field
      <4>4. \A j \in 1..m : Stoull[Numeral(table.payloads[c][j])] = table.payloads[c][j]
        <5>1. \A j \in 1..m : table.payloads[c][j] \in {Stoull[f] : f \in DOMAIN Stoull}
          BY <4>2
        <5> QED
          BY <5>1, NumeralType
      <4>5. Cells(v, n + c) = [j \in 1..m |-> Field(TableRow(table, j), n + c)]
        BY <2>7 DEF Cells
      <4>6. Cells(v, n + c) = [j \in 1..m |-> Numeral(table.payloads[c][j])]
        BY <4>3, <4>5
      <4>7. Numbers(Cells(v, n + c)) = [j \in 1..m |-> table.payloads[c][j]]
        BY <4>4, <4>6 DEF Numbers
      <4> QED
        BY <4>2, <4>7
    <3>3. table.payloads = [c \in 1..p |-> table.payloads[c]]
      BY <2>9
    <3> QED
      BY <3>1, <3>2, <3>3
  <2> QED
    BY <2>2, <2>13, <2>15
<1> QED
  BY <1>1, CsvInvariant, PTL
=============================================================================
