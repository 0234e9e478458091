-------------------------- MODULE CircuitPSI_steps ---------------------------
(***************************************************************************)
(* The rest of the steps of CircuitPSI keep its invariant: the columns,    *)
(* the two-way exchanges, init.  Then what the columns of the two parties  *)
(* add up to, by the invariants; and what a step that leaves the           *)
(* comparisons and columns in place leaves of this.                        *)
(***************************************************************************)
EXTENDS CircuitPSI_proofs, CircuitPSI_values

-----------------------------------------------------------------------------
(* Columns.                                                                *)

\* What a party that compares knows of the tables.
LEMMA ComparedSizes ==
    ASSUME CircuitInv, NEW p \in Party, stage[p] \in Compared
    PROVE  /\ Bins(p) \in Nat /\ FeatureSize(p, R) \in Nat
           /\ params[p].num_of_fun_hint \in Nat
           /\ Number(p) \in DOMAIN calls[S] /\ Number(p) \in DOMAIN calls[R]
           /\ Number(p) \in Nat \ {0} /\ Number(p) \notin DOMAIN results[p]
           /\ FeatureSize(p, S) = Features(Number(p)) /\ Features(Number(p)) \in Nat
<1>1. stage[p] \in InCall /\ stage[p] \notin Sizes
  BY DEF Compared, InCall, Sizes
<1>2. PICK n : n = Number(p)
  OBVIOUS
<1>3. /\ n \in DOMAIN calls[S] /\ n \in DOMAIN calls[R] /\ n \in Nat \ {0}
      /\ n \notin DOMAIN results[p]
  BY <1>1, <1>2, BothCalled
<1>4. /\ Bins(p) = BinsOf(n) /\ FeatureSize(p, R) = Len(calls[R][n].features)
      /\ FeatureSize(p, S) = Features(n)
  BY <1>1, <1>2, BinsAgree
<1>5. calls[R][n] \in Calls[R]
  BY Zenon, <1>3, TwoParties DEF CircuitInv, TypeOK
<1> QED
  BY <1>2, <1>3, <1>4, <1>5, BinsType, CallIs, FeaturesType, ParamsType, TwoParties
  DEF CircuitInv

\* A bin holds one key, and a key one hint.
LEMMA OneInBin ==
    ASSUME CircuitInv, stage[R] \in Compared, NEW b
    PROVE  OpenedIn(b) = {} \/ \E o \in opened : OpenedIn(b) = {o}
<1>1. \A i, j \in DOMAIN cuckoo_table : cuckoo_table[i].bin = cuckoo_table[j].bin => i = j
  BY StagesAre DEF CircuitInv, ReceiverLocals, TableOf
<1>2. /\ \A o \in opened : o[1] \in DOMAIN cuckoo_table
      /\ \A o1, o2 \in opened : o1[1] = o2[1] => o1 = o2
  BY DEF CircuitInv, TypeOK
<1>3. \A o1, o2 \in OpenedIn(b) : o1 = o2
  BY <1>1, <1>2 DEF OpenedIn
<1>4. ASSUME NEW o \in OpenedIn(b)
      PROVE  o \in opened /\ OpenedIn(b) = {o}
  BY <1>3 DEF OpenedIn
<1> QED
  BY <1>4

LEMMA BitType ==
    ASSUME NEW d \in Int
    PROVE  d % 2 \in Word
<1>1. PICK m \in Nat : m = Modulus /\ m > 1
  BY CircuitBoundsAssumption
<1>2. d % 2 \in 0..1
  OBVIOUS
<1> QED
  BY <1>1, <1>2 DEF Word

LEMMA EqualType ==
    ASSUME CircuitInv, NEW p \in Party, stage[p] = "equal", io[p] = "done"
    PROVE  Equal(p) \in Seq(Word)
<1>1. stage[p] \in Compared /\ HasRead(p) /\ HasWritten(p)
  BY DEF Compared, HasRead, HasWritten
<1>2. PICK fun \in Nat : fun = params[p].num_of_fun_hint
  BY <1>1, ComparedSizes
<1>3. CASE p = S
  <2>1. sent[p] \in {0, 1}
    BY <1>1, <1>3 DEF CircuitInv, SenderLocals
  <2>2. (fun * sent[p] + 0) % 2 \in Word
    BY <2>1, BitType
  <2>3. Equal(p) = [b \in 1..Bins(p) |-> (fun * sent[p] + 0) % 2]
    BY <1>2, <1>3 DEF Equal, S
  <2> QED
    BY <1>1, <2>2, <2>3, ComparedSizes
<1>4. CASE p = R
  <2>1. remote[p] \in {0, 1}
    BY <1>1, <1>4 DEF CircuitInv, ReceiverLocals
  <2>2. \A b : Cardinality(OpenedIn(b)) \in Int
    <3> TAKE b
    <3>1. OpenedIn(b) = {} \/ \E o \in opened : OpenedIn(b) = {o}
      BY <1>1, <1>4, OneInBin
    <3>2. CASE OpenedIn(b) = {}
      BY <3>2, FS_EmptySet
    <3>3. ASSUME NEW o \in opened, OpenedIn(b) = {o}
          PROVE  Cardinality(OpenedIn(b)) \in Int
      BY SMTT(60), <3>3, FS_Singleton
    <3> QED
      BY <3>1, <3>2, <3>3
  <2>3. \A b : (fun * remote[p] + Cardinality(OpenedIn(b))) % 2 \in Word
    <3>1. fun * remote[p] \in Int
      BY <2>1
    <3> QED
      BY <2>2, <3>1, BitType
  <2>4. Equal(p) = [b \in 1..Bins(p) |-> (fun * remote[p] + Cardinality(OpenedIn(b))) % 2]
    BY <1>2, <1>4 DEF Equal, R
  <2> QED
    BY <1>1, <2>3, <2>4, ComparedSizes
<1> QED
  BY <1>3, <1>4, TwoParties

\* What the receiver holds of feature fid[R] in a set of opened hints.
Total(T) ==
    LET whole(o) == hint_features[fid[R]][o] + remote[R].input IN MapThenSumSet(whole, T)

LEMMA TotalOfNone == Total({}) = 0
<1> DEFINE E(f, s) == IF s = {} THEN 0 ELSE (hint_features[fid[R]][CHOOSE x \in s : TRUE] + remote[R].input)
                                            + f[s \ {CHOOSE x \in s : TRUE}]
           iter == CHOOSE f : f = [s \in SUBSET {} |-> E(f, s)]
<1>1. \E f : f = [s \in SUBSET {} |-> E(f, s)]
  <2>1. PICK f : f = [s \in SUBSET {} |-> 0]
    BY Zenon
  <2> QED
    BY <2>1
<1>2. iter = [s \in SUBSET {} |-> E(iter, s)]
  BY Zenon, <1>1
<1>3. iter[{}] = 0
  <2> HIDE DEF iter
  <2> QED
    BY <1>2
<1>4. Total({}) = iter[{}]
  BY DEF Total, MapThenSumSet, MapThenFoldSet
<1> QED
  BY <1>3, <1>4

LEMMA TotalOfOne ==
    ASSUME NEW o
    PROVE  Total({o}) = (hint_features[fid[R]][o] + remote[R].input) + 0
<1> DEFINE E(f, s) == IF s = {} THEN 0 ELSE (hint_features[fid[R]][CHOOSE x \in s : TRUE] + remote[R].input)
                                            + f[s \ {CHOOSE x \in s : TRUE}]
           iter == CHOOSE f : f = [s \in SUBSET {o} |-> E(f, s)]
<1>1. /\ SUBSET {o} = {{}, {o}} /\ (CHOOSE x \in {o} : TRUE) = o
      /\ {o} \ {o} = {} /\ {o} # {}
  OBVIOUS
<1>2. \E f : f = [s \in SUBSET {o} |-> E(f, s)]
  <2>1. PICK f : f = [s \in SUBSET {o} |->
                         IF s = {} THEN 0 ELSE (hint_features[fid[R]][o] + remote[R].input) + 0]
    BY Zenon
  <2>2. \A s \in SUBSET {o} : E(f, s) = f[s]
    BY <1>1, <2>1
  <2> QED
    BY ZenonT(60), <2>1, <2>2
<1>3. iter = [s \in SUBSET {o} |-> E(iter, s)]
  BY Zenon, <1>2
<1>4. iter[{o}] = (hint_features[fid[R]][o] + remote[R].input) + 0
  <2> HIDE DEF iter
  <2> QED
    BY <1>1, <1>3
<1>5. Total({o}) = iter[{o}]
  BY DEF Total, MapThenSumSet, MapThenFoldSet
<1> QED
  BY <1>4, <1>5

LEMMA MultiplexerIs ==
    /\ Multiplexer(S) = [b \in 1..Bins(S) |->
                            (params[S].num_of_fun_hint * sent[S].share) % Modulus]
    /\ Multiplexer(R) = [b \in 1..Bins(R) |->
          (Total(OpenedIn(b)) - params[R].num_of_fun_hint * remote[R].share) % Modulus]
BY Zenon DEF Multiplexer, Total, S, R

LEMMA MultiplexerType ==
    ASSUME CircuitInv, NEW p \in Party, stage[p] = "multiplexer", io[p] = "done"
    PROVE  Multiplexer(p) \in Seq(Word)
<1>1. stage[p] \in Compared /\ HasRead(p) /\ HasWritten(p)
  BY DEF Compared, HasRead, HasWritten
<1>2. PICK fun \in Nat : fun = params[p].num_of_fun_hint
  BY <1>1, ComparedSizes
<1>3. CASE p = S
  <2>1. sent[p].share \in Int
    BY <1>1, <1>3, WordType DEF CircuitInv, SenderLocals
  <2>2. fun * sent[p].share \in Int
    BY <2>1
  <2>3. (fun * sent[p].share) % Modulus \in Word
    BY <2>2, RemainderType
  <2> QED
    BY <1>1, <1>2, <1>3, <2>3, ComparedSizes, MultiplexerIs
<1>4. CASE p = R
  <2>1. remote[R].share \in Int /\ remote[R].input \in Int
    BY <1>1, <1>4, WordType DEF CircuitInv, ReceiverLocals
  <2>2. fid[R] \in DOMAIN hint_features
    <3>1. /\ fid[R] \in 1..Features(Number(R)) /\ Len(hint_features) = Features(Number(R))
          /\ hint_features \in Seq(Range(hint_features))
      <4>1. Control(R) /\ ReceiverLocals /\ AreSequences
        BY TwoParties DEF CircuitInv
      <4> QED
        BY <1>1, <1>4, <4>1 DEF Control, ReceiverLocals, AreSequences
    <3> QED
      BY <3>1
  <2>3. hint_features[fid[R]] \in [opened -> Word]
    BY <2>2 DEF CircuitInv, TypeOK
  <2>4. \A b : Total(OpenedIn(b)) \in Int
    <3> TAKE b
    <3>1. CASE OpenedIn(b) = {}
      BY <3>1, TotalOfNone
    <3>2. ASSUME NEW o \in opened, OpenedIn(b) = {o}
          PROVE  Total(OpenedIn(b)) \in Int
      <4>1. hint_features[fid[R]][o] \in Int
        BY <2>3, WordType
      <4>2. PICK x \in Int : x = hint_features[fid[R]][o]
        BY <4>1
      <4>3. PICK y \in Int : y = remote[R].input
        BY <2>1
      <4>4. Total({o}) = (x + y) + 0
        BY <4>2, <4>3, TotalOfOne
      <4> QED
        BY <3>2, <4>4
    <3> QED
      BY <1>1, <1>4, <3>1, <3>2, OneInBin
  <2>5. fun * remote[R].share \in Int
    BY <2>1
  <2>6. \A b : (Total(OpenedIn(b)) - fun * remote[R].share) % Modulus \in Word
    <3> TAKE b
    <3>1. PICK x \in Int : x = Total(OpenedIn(b))
      BY <2>4
    <3>2. PICK y \in Int : y = fun * remote[R].share
      BY <2>5
    <3> QED
      BY <3>1, <3>2, RemainderType
  <2>7. Multiplexer(R) = [b \in 1..Bins(R) |-> (Total(OpenedIn(b)) - fun * remote[R].share) % Modulus]
    BY <1>2, <1>4, MultiplexerIs
  <2> QED
    BY <1>1, <1>4, <2>6, <2>7, ComparedSizes
<1> QED
  BY <1>3, <1>4, TwoParties

LEMMA ReceiverFeaturesType ==
    ASSUME CircuitInv, NEW p \in Party, stage[p] \in Compared
    PROVE  ReceiverFeatures(p) \in Seq(Seq(Word))
<1>1. /\ Bins(p) \in Nat /\ FeatureSize(p, R) \in Nat /\ Number(p) \in DOMAIN calls[R]
  BY ComparedSizes
<1>2. 0 \in Word
  BY BitType
<1>3. ASSUME NEW k \in 1..FeatureSize(p, R), NEW b \in 1..Bins(p)
      PROVE  ReceiverFeatures(p)[k][b] \in Word
  <2> DEFINE at == {i \in DOMAIN cuckoo_table : cuckoo_table[i].bin = b}
  <2>1. ReceiverFeatures(p)[k][b] = IF p = "sender" \/ at = {} THEN 0
                                    ELSE Current(p).features[k][CHOOSE i \in at : TRUE]
    BY <1>3 DEF ReceiverFeatures, R
  <2>2. ASSUME p = R, at # {}
        PROVE  Current(p).features[k][CHOOSE i \in at : TRUE] \in Word
    <3>1. (CHOOSE i \in at : TRUE) \in DOMAIN cuckoo_table
      BY <2>2
    <3>2. DOMAIN cuckoo_table = DOMAIN calls[R][Number(R)].keys
      BY <2>2, StagesAre DEF CircuitInv, ReceiverLocals, TableOf
    <3>3. stage[p] \in InCall
      BY StagesAre
    <3>4. Current(R).features[k] \in [DOMAIN Current(R).keys -> Word]
      <4>1. Current(R).features \in Seq([DOMAIN Current(R).keys -> Word])
        BY <2>2, <3>3, CurrentIs
      <4>2. FeatureSize(R, R) = Len(Current(R).features)
        BY DEF FeatureSize
      <4> QED
        BY <1>3, <2>2, <4>1, <4>2
    <3> HIDE DEF at
    <3> QED
      BY Zenon, <2>2, <3>1, <3>2, <3>3, <3>4, CurrentIs
  <2> HIDE DEF at
  <2> QED
    BY <1>2, <2>1, <2>2, TwoParties DEF S
<1>4. ASSUME NEW k \in 1..FeatureSize(p, R)
      PROVE  ReceiverFeatures(p)[k] \in Seq(Word)
  <2>1. ReceiverFeatures(p)[k] = [b \in 1..Bins(p) |-> ReceiverFeatures(p)[k][b]]
    BY <1>4 DEF ReceiverFeatures, R
  <2> QED
    BY <1>1, <1>3, <1>4, <2>1
<1>5. ReceiverFeatures(p) = [k \in 1..FeatureSize(p, R) |-> ReceiverFeatures(p)[k]]
  BY DEF ReceiverFeatures, R
<1> QED
  BY <1>1, <1>4, <1>5

\* A column is complete: k features are in the columns before it.
LEMMA ColumnKeeps ==
    ASSUME CircuitInv, NEW p \in Party, NEW n, n = Number(p), NEW k,
           (stage[p] = "equal" /\ k = 0) \/ (stage[p] = "multiplexer" /\ k = fid[p]),
           io[p] = "done", NEW column \in Seq(Word), NEW last, last <=> k = Features(n),
           last \in BOOLEAN, AddColumn(p, column, last),
           UNCHANGED <<params, calls, sent, remote, peer_size, common_prng, chan>>
    PROVE  CircuitInv'
<1>1. /\ stage[p] \in Compared /\ stage[p] \in InCall \ Sizes /\ stage[p] \in Placed
      /\ stage[p] \in Hinted /\ stage[p] \in Opened
      /\ "multiplexer" \in Compared /\ "multiplexer" \in InCall \ Sizes
      /\ "multiplexer" \in Placed /\ "multiplexer" \in Hinted /\ "multiplexer" \in Opened
      /\ "multiplexer" \in Stages
  BY StagesAre DEF Compared, InCall, Sizes
<1>2. /\ n \in DOMAIN calls[S] /\ n \in DOMAIN calls[R] /\ n \in Nat \ {0}
      /\ Features(n) \in Nat
  BY <1>1, ComparedSizes
<1>3. /\ k \in 0..Features(n) /\ Len(output_shares[p]) = k
      /\ output_shares[p] \in Seq(Seq(Word))
      /\ \A d \in Party : Last(d, p) = IF k = 0 THEN Place(n, "equal", 1)
                                       ELSE Place(n, "multiplexer", k)
  <2>1. Control(p)
    BY DEF CircuitInv
  <2>2. output_shares[p] \in Seq(Seq(Word))
    BY DEF CircuitInv, TypeOK
  <2>3. CASE stage[p] = "equal" /\ k = 0
    <3>1. fid[p] = 1 /\ output_shares[p] = <<>>
      BY <2>1, <2>3 DEF Control
    <3> QED
      BY <1>2, <2>2, <2>3, <3>1, AtEnd
  <2>4. CASE stage[p] = "multiplexer" /\ k = fid[p]
    <3>1. fid[p] \in 1..Features(n) /\ Len(output_shares[p]) = fid[p]
      BY <2>1, <2>4 DEF Control
    <3> QED
      BY <1>2, <2>2, <2>4, <3>1, AtEnd
  <2> QED
    BY <2>3, <2>4
<1>4. DrawsIn(p, stage[p]) = 2 /\ DrawsIn(p, "multiplexer") = 2
  BY TwoParties DEF DrawsIn, Sizes, Hinted, Opened, Compared
<1>5. (p = S => ThroughStash(n)) /\ (p = R => ThroughHint(n))
  BY <1>1, Through
<1>6. DOMAIN chan' = Party /\ \A r \in Party : chan'[r] \in Seq(Range(chan'[r]))
  BY DEF CircuitInv, AreSequences
<1>7. CASE last
  <2>1. PICK result : /\ result = [columns |-> Append(output_shares[p], column)
                                                   \o ReceiverFeatures(p)]
                      /\ End(p, result)
    BY <1>7 DEF AddColumn
  <2>2. ~Threw(result) /\ result # Stashed /\ result # HintStashed
    BY <2>1, ThrewIs
  <2>3. result.columns \in Seq(Seq(Word))
    <3>1. ReceiverFeatures(p) \in Seq(Seq(Word))
      BY <1>1, ReceiverFeaturesType
    <3>2. Append(output_shares[p], column) \in Seq(Seq(Word))
      BY <1>3
    <3>3. \A s, t \in Seq(Seq(Word)) : s \o t \in Seq(Seq(Word))
      OBVIOUS
    <3> QED
      BY <2>1, <3>1, <3>2, <3>3
  <2>4. /\ Alone(p) /\ Control(p)' /\ Knows(p)' /\ Ended' /\ TypeOK' /\ AreSequences'
        /\ (p = S => SenderLocals') /\ (p = R => ReceiverLocals')
        /\ n \in DOMAIN results'[p] /\ results'[p][n] = result
        /\ \A d \in Party : Last(d, p)' = LastOf(d, p, n)'
    <3>1. /\ Threw(result) \/ result.columns \in Seq(Seq(Word))
          /\ result = Stashed => DrawsIn(p, stage[p]) = 1
          /\ result = HintStashed /\ p = R => DrawsIn(p, stage[p]) = 1
          /\ result = HintStashed /\ p = S => DrawsIn(p, stage[p]) = 2
          /\ ~Threw(result) => DrawsIn(p, stage[p]) = 2
          /\ p = R /\ stage[R] \in Placed => result # Stashed
          /\ p = S /\ stage[S] \in Hinted => ~Threw(result)
      BY <1>4, <2>2, <2>3
    <3>2. /\ p = S => IF result = Stashed
                      THEN n \in DOMAIN results[R] /\ results[R][n] = Stashed
                      ELSE ThroughStash(n)
          /\ p = R => /\ result = HintStashed =>
                            n \in DOMAIN results[S] /\ results[S][n] = HintStashed
                      /\ ~Threw(result) => ThroughHint(n)
      BY <1>5, <2>2
    <3>3. stage[p] \in InCall \ Sizes /\ n = Number(p) /\ End(p, result)
      BY <1>1, <2>1
    <3> QED
      BY <1>6, <3>1, <3>2, <3>3, EndsInCall
  <2>5. Features(n)' = Features(n)
    BY <1>2, <2>4, ComesTo
  <2>6. ~Threw(results[p][n])'
    BY <2>2, <2>4 DEF Threw, Ideal!Thrown
  <2>7. ASSUME NEW d \in Party
        PROVE  Last(d, p)' = Last(d, p)
    <3>1. /\ Features(n)' = 0 => LastOf(d, p, n)' = Place(n, "equal", 1)
          /\ Features(n)' # 0 => LastOf(d, p, n)' = Place(n, "multiplexer", Features(n)')
      BY <1>2, <2>6, LastOfEnded
    <3>2. k = Features(n)
      BY <1>7
    <3> QED
      BY <1>3, <2>4, <2>5, <3>1, <3>2
  <2>8. \A r \in Party : InOrder(r)'
    BY <2>4, <2>7, QuietOrder
  <2> QED
    BY <2>4, <2>8, Together
<1>8. CASE ~last
  <2>1. PICK f \in Nat \ {0} : f = k + 1 /\ f \in 1..Features(n)
    BY <1>2, <1>3, <1>8
  <2>2. /\ EnterAt(p, "multiplexer", f)
        /\ output_shares' = [output_shares EXCEPT ![p] = Append(output_shares[p], column)]
        /\ UNCHANGED <<results, cuckoo_table, hint_table, stash_size, contents, opened,
                       hint_features>>
    BY <1>3, <1>8, <2>1 DEF AddColumn, tables
  <2>3. /\ output_shares' \in [Party -> Seq(Seq(Word))]
        /\ Len(output_shares'[p]) = f
        /\ \A q \in Party \ {p} : output_shares'[q] = output_shares[q]
    <3>1. /\ output_shares \in [Party -> Seq(Seq(Word))]
          /\ Append(output_shares[p], column) \in Seq(Seq(Word))
          /\ Len(Append(output_shares[p], column)) = Len(output_shares[p]) + 1
      BY <1>3 DEF CircuitInv, TypeOK
    <3> QED
      BY <1>3, <2>1, <2>2, <3>1
  <2>4. Others(p)
    <3>1. Peer(p) \in Party \ {p}
      BY TwoParties
    <3> QED
      BY <1>1, <2>1, <2>2, <2>3, <3>1, Entered DEF Others
  <2>5. /\ UNCHANGED <<calls, results, peer_size, common_prng>>
        /\ DrawsIn(p, "multiplexer") = DrawsIn(p, stage[p])
    BY <1>4, <2>2
  <2>6. /\ Alone(p) /\ Control(p)' /\ Knows(p)' /\ Ended'
        /\ \A d \in Party : Last(d, p)' = Previous(d, p, n, "multiplexer", f)
    BY <1>1, <1>5, <2>1, <2>2, <2>3, <2>4, <2>5, StepsWithoutDraw
  <2>7. \A d \in Party : Last(d, p)' = Last(d, p)
    <3>1. ASSUME NEW d \in Party
          PROVE  Last(d, p)' = Last(d, p)
      <4>1. Previous(d, p, n, "multiplexer", f)
              = IF f = 1 THEN Place(n, "equal", 1) ELSE Place(n, "multiplexer", f - 1)
        BY PreviousIs
      <4>2. (f = 1 <=> k = 0) /\ f - 1 = k
        BY <1>2, <1>3, <2>1
      <4> QED
        BY <1>3, <2>6, <4>1, <4>2
    <3> QED
      BY <3>1
  <2>8. \A r \in Party : InOrder(r)'
    BY <2>6, <2>7, QuietOrder
  <2>9. TypeOK'
    <3>1. LocalsType'
      BY Zenon, <2>2, <2>3, TypeParts DEF LocalsType, CircuitInv, Masks, Prng, Word
    <3> QED
      BY Zenon, <1>1, <2>1, <2>2, <3>1, EnteredType, TypeAfter DEF CircuitInv, TypeOK
  <2>10. AreSequences'
    BY <1>6, <2>2, SequencesStay DEF CircuitInv, AreSequences
  <2>11. /\ stage'[p] = "multiplexer" /\ ~HasRead(p)' /\ ~HasWritten(p)' /\ n = Number(p)'
         /\ fid'[p] = f
    BY <1>1, <2>1, <2>2, Entered DEF Number
  <2>12. /\ MasksOf(n)' = MasksOf(n) /\ HintsOf(n)' = HintsOf(n) /\ Features(n)' = Features(n)
    BY <1>2, <2>6, ComesTo
  <2>13. ASSUME p = S
         PROVE  SenderLocals'
    <3>1. stash_size[S] = 0 /\ hint_table \in HintsOf(n) /\ Len(contents) = Features(n)
      BY <1>1, <2>13 DEF CircuitInv, SenderLocals
    <3> QED
      BY <1>1, <2>2, <2>11, <2>12, <2>13, <3>1 DEF SenderLocals
  <2>14. ASSUME p = R
         PROVE  ReceiverLocals'
    <3>1. /\ stash_size[R] = 0 /\ TableOf(n) /\ Len(hint_features) = Features(n)
          /\ \A o \in opened : cuckoo_table[o[1]].mask \in MasksOf(n)
      BY <1>1, <2>14 DEF CircuitInv, ReceiverLocals
    <3>2. TableOf(n)'
      BY <1>2, <2>2, <2>6, <3>1, TableStays
    <3> QED
      BY <1>1, <2>2, <2>11, <2>12, <2>14, <3>1, <3>2 DEF ReceiverLocals
  <2> QED
    BY <2>6, <2>8, <2>9, <2>10, <2>13, <2>14, Together
<1> QED
  BY <1>7, <1>8

LEMMA EqualDoneKeeps ==
    ASSUME CircuitInv, NEW p \in Party, EqualDone(p)
    PROVE  CircuitInv'
<1>1. /\ stage[p] = "equal" /\ io[p] = "done" /\ AddColumn(p, Equal(p), ~HasFeatures(p))
      /\ UNCHANGED <<params, calls, sent, remote, peer_size, common_prng, chan>>
  BY DEF EqualDone, At, values
<1>2. PICK n : n = Number(p)
  OBVIOUS
<1>3. PICK last, k : last = ~HasFeatures(p) /\ last \in BOOLEAN /\ k = 0
  BY Zenon DEF HasFeatures
<1>4. last <=> k = Features(n)
  <2>1. FeatureSize(p, S) = Features(n) /\ Features(n) \in Nat
    BY <1>1, <1>2, ComparedSizes DEF Compared
  <2>2. HasFeatures(p) <=> k # Features(n)
    BY <1>3, <2>1 DEF HasFeatures, S
  <2> HIDE DEF HasFeatures
  <2> QED
    BY Zenon, <1>3, <2>2
<1>5. PICK column \in Seq(Word) : column = Equal(p)
  BY <1>1, EqualType
<1>6. /\ AddColumn(p, column, last) /\ last \in BOOLEAN /\ n = Number(p)
      /\ (stage[p] = "equal" /\ k = 0) \/ (stage[p] = "multiplexer" /\ k = fid[p])
  BY <1>1, <1>2, <1>3, <1>5
<1> QED
  BY <1>1, <1>4, <1>6, ColumnKeeps

LEMMA MultiplexerDoneKeeps ==
    ASSUME CircuitInv, NEW p \in Party, MultiplexerDone(p)
    PROVE  CircuitInv'
<1>1. /\ stage[p] = "multiplexer" /\ io[p] = "done"
      /\ AddColumn(p, Multiplexer(p), fid[p] = FeatureSize(p, S))
      /\ UNCHANGED <<params, calls, sent, remote, peer_size, common_prng, chan>>
  BY DEF MultiplexerDone, At, values, S
<1>2. PICK n : n = Number(p)
  OBVIOUS
<1>3. PICK last, k : last = (fid[p] = FeatureSize(p, S)) /\ last \in BOOLEAN /\ k = fid[p]
  BY Zenon
<1>4. last <=> k = Features(n)
  BY Zenon, <1>1, <1>2, <1>3, ComparedSizes DEF Compared
<1>5. PICK column \in Seq(Word) : column = Multiplexer(p)
  BY <1>1, MultiplexerType
<1> QED
  BY Zenon, <1>1, <1>2, <1>3, <1>4, <1>5, ColumnKeeps

-----------------------------------------------------------------------------
(* Two-way exchanges.                                                      *)

LEMMA TwoWayStages ==
    ASSUME NEW s \in TwoWay
    PROVE  /\ s \in InInit \cup Compared /\ s \in InInit \cup InCall /\ s \in Stages
           /\ s \notin Sizes /\ s # "hint_hash" /\ s # "threw" /\ s # "idle"
           /\ \A d : s \in To(d)
           /\ \A p : Starts(s, p) \in {"send", "recv"}
           /\ s \in Compared => /\ s \in InCall /\ s \in Placed /\ s \in Hinted
                                /\ s \in Opened /\ s \notin InInit
                                /\ \A k \in DOMAIN Checked : s # Checked[k]
           /\ s \notin Compared => /\ s \in InInit /\ s \notin InCall /\ s \notin Placed
                                   /\ s \notin Hinted /\ s \notin Opened
<1>1. TwoWay = InInit \cup Compared
  BY DEF TwoWay, InInit, Compared
<1>2. /\ InInit \cap InCall = {} /\ Compared \subseteq Opened /\ Opened \subseteq Hinted
      /\ Hinted \subseteq Placed /\ Placed \subseteq InCall /\ Placed \cap Sizes = {}
      /\ Sizes \subseteq InCall
  BY StagesAre
<1>3. \A p : Starts(s, p) \in {"send", "recv"}
  BY <1>1, InitStages, CheckedIs DEF Starts, First, Compared, Rest
<1>4. \A k \in DOMAIN Checked : Checked[k] \in InInit
  BY CheckedIs DEF InInit
<1>5. \A d : s \in To(d)
  BY <1>1 DEF To
<1>6. s \in Stages
  BY DEF Stages
<1>7. s # "hint_hash" /\ s # "threw" /\ s # "idle"
  BY <1>1, InitStages DEF Compared
<1> QED
  BY <1>1, <1>2, <1>3, <1>4, <1>5, <1>6, <1>7

LEMMA HalfWrites ==
    ASSUME CircuitInv, NEW p \in Party, stage[p] \in TwoWay, io[p] = "send", Half(p)
    PROVE  /\ stage' = stage /\ fid' = fid /\ ~HasWritten(p) /\ HasWritten(p)'
           /\ HasRead(p)' <=> HasRead(p)
           /\ io' \in [Party -> {"send", "recv", "done", "none"}] /\ io'[p] # "none"
           /\ \A q \in Party \ {p} : io'[q] = io[q]
<1>1. io \in [Party -> {"send", "recv", "done", "none"}]
  BY DEF CircuitInv, TypeOK
<1>2. Starts(stage[p], p) \in {"send", "recv"}
  BY TwoWayStages
<1>3. /\ io' = [io EXCEPT ![p] = IF Starts(stage[p], p) = "send" THEN "recv" ELSE "done"]
      /\ stage' = stage /\ fid' = fid
  BY Zenon, <1>1, <1>2 DEF Half
<1>4. Starts(stage[p], p)' = Starts(stage[p], p)
  BY <1>3 DEF Starts
<1> QED
  BY <1>1, <1>2, <1>3, <1>4 DEF HasRead, HasWritten

LEMMA HalfReads ==
    ASSUME CircuitInv, NEW p \in Party, stage[p] \in TwoWay, io[p] = "recv", Half(p)
    PROVE  /\ stage' = stage /\ fid' = fid /\ ~HasRead(p) /\ HasRead(p)'
           /\ HasWritten(p)' <=> HasWritten(p)
           /\ io' \in [Party -> {"send", "recv", "done", "none"}] /\ io'[p] # "none"
           /\ \A q \in Party \ {p} : io'[q] = io[q]
<1>1. io \in [Party -> {"send", "recv", "done", "none"}]
  BY DEF CircuitInv, TypeOK
<1>2. Starts(stage[p], p) \in {"send", "recv"}
  BY TwoWayStages
<1>3. /\ io' = [io EXCEPT ![p] = IF Starts(stage[p], p) = "recv" THEN "send" ELSE "done"]
      /\ stage' = stage /\ fid' = fid
  BY Zenon, <1>1, <1>2 DEF Half
<1>4. Starts(stage[p], p)' = Starts(stage[p], p)
  BY <1>3 DEF Starts
<1> QED
  BY <1>1, <1>2, <1>3, <1>4 DEF HasRead, HasWritten

\* Half an exchange leaves a party where it is.
LEMMA HalfStays ==
    ASSUME CircuitInv, NEW p \in Party, stage[p] \in TwoWay, stage' = stage, fid' = fid,
           io' \in [Party -> {"send", "recv", "done", "none"}], io'[p] # "none",
           \A q \in Party \ {p} :
              io'[q] = io[q] /\ sent'[q] = sent[q] /\ remote'[q] = remote[q],
           UNCHANGED <<params, calls, results, peer_size, common_prng, locals>>
    PROVE  /\ Alone(p) /\ Control(p)' /\ Ended' /\ TypeOK'
           /\ \A d \in Party : Previous(d, p, Number(p), stage[p], fid[p])'
                                 = Previous(d, p, Number(p), stage[p], fid[p])
<1>1. /\ UNCHANGED <<cuckoo_table, hint_table, stash_size, contents, opened, hint_features,
                     output_shares>>
  BY DEF locals, tables
<1>2. Others(p)
  <2>1. Peer(p) \in Party \ {p}
    BY TwoParties
  <2> QED
    BY <1>1, <2>1 DEF Others
<1>3. Alone(p)
  <2>1. \A k \in DOMAIN Checked : Reached(p, k) => Reached(p, k)'
    BY DEF Reached
  <2> QED
    BY <1>2, <2>1, MovesOn
<1>4. Control(p)'
  <2>1. Control(p)
    BY DEF CircuitInv
  <2>2. /\ Features(Number(p))' = Features(Number(p)) /\ Draws(p)' = Draws(p)
        /\ Number(p)' = Number(p)
    BY DEF Features, Draws, Drawn, Failures, Number, DrawsIn
  <2> QED
    BY <1>1, <2>1, <2>2 DEF Control
<1>5. Ended'
  BY <1>3, ResultsStay
<1>6. TypeOK'
  <2>1. ControlType'
    BY TypeParts DEF CircuitInv, ControlType
  <2> QED
    BY Zenon, <2>1, LocalsTypeStays, TypeAfter DEF CircuitInv, TypeOK
<1>7. ASSUME NEW d \in Party
      PROVE  Previous(d, p, Number(p), stage[p], fid[p])'
               = Previous(d, p, Number(p), stage[p], fid[p])
  <2>1. PICK n, s, f : n = Number(p) /\ s = stage[p] /\ f = fid[p]
    OBVIOUS
  <2>2. /\ s \in InInit \cup InCall
        /\ s \in Sizes => stage[p] \in InCall
        /\ s = "equal" => stage[p] \in InCall \ Sizes
    BY <2>1, TwoWayStages DEF InCall
  <2>3. Previous(d, p, n, s, f)' = Previous(d, p, n, s, f)
    BY <1>3, <2>1, <2>2, BeforeStage
  <2>4. n = Number(p)' /\ s = stage'[p] /\ f = fid'[p]
    BY <2>1 DEF Number
  <2> QED
    BY <2>1, <2>3, <2>4
<1> QED
  BY <1>3, <1>4, <1>5, <1>6, <1>7

LEMMA HalfKnows ==
    ASSUME CircuitInv, NEW p \in Party, NEW q, q = Peer(p), Alone(p), stage[p] \in TwoWay,
           stage' = stage, UNCHANGED <<params, calls, peer_size>>,
           \A k \in DOMAIN Checked : stage[p] = Checked[k] /\ HasRead(p)' =>
              remote'[p] = params[q][Checked[k]] /\ Reached(q, k)',
           stage[p] = "seed" /\ HasRead(p)' => remote'[p] = Block(q)
    PROVE  Knows(p)'
<1>1. Knows(p)
  BY DEF CircuitInv
<1>2. PICK n : n = Number(p) /\ n = Number(p)'
  BY Zenon DEF Number
<1>3. (ThroughStash(n) => ThroughStash(n)') /\ (ThroughHint(n) => ThroughHint(n)')
  BY DEF Alone
<1>4. stage[p] # "threw"
  BY TwoWayStages
<1>5. ASSUME NEW k \in DOMAIN Checked
      PROVE  /\ stage'[p] \notin {Checked[j] : j \in 1..k} \cup {"threw"}
                  => params'[p][Checked[k]] = params'[q][Checked[k]]
             /\ stage'[p] = Checked[k] =>
                  /\ \A j \in 1..(k - 1) : params'[p][Checked[j]] = params'[q][Checked[j]]
                  /\ HasRead(p)' => remote'[p] = params'[q][Checked[k]] /\ Reached(q, k)'
  BY <1>1 DEF Knows
<1>6. stage'[p] = "seed" /\ HasRead(p)' => remote'[p] = Block(q)
  OBVIOUS
<1>7. stage'[p] \in InCall =>
          LET first == IF p = S THEN "receiver_data" ELSE "sender_data"
              second == IF p = S THEN "receiver_features" ELSE "sender_features"
              earlier == IF p = S THEN {} ELSE {"receiver_data", "receiver_features"}
          IN
          /\ stage'[p] \notin {first} \cup earlier =>
                n \in DOMAIN calls'[q] /\ peer_size'[p].data = Len(calls'[q][n].keys)
          /\ stage'[p] \notin {first, second} \cup earlier =>
                peer_size'[p].features = Len(calls'[q][n].features)
  BY <1>1, <1>2 DEF Knows
<1>8. /\ p = S /\ stage'[p] \in Placed => ThroughStash(n)'
      /\ p = R /\ stage'[p] \in Hinted => ThroughHint(n)'
  BY <1>1, <1>2, <1>3 DEF Knows
<1>9. stage'[p] = "threw" => \E k \in DOMAIN Checked : Differ(k)' /\ Reached(q, k)'
  BY <1>4
<1> QED
  BY <1>2, <1>4, <1>5, <1>6, <1>7, <1>8, <1>9 DEF Knows

\* What a party may write in a two-way exchange says what it should.
LEMMA OffersSay ==
    ASSUME CircuitInv, NEW p \in Party, NEW q, q = Peer(p), stage[p] \in TwoWay,
           NEW value \in Offers(p), NEW n, n = Number(p),
           NEW m, m = [is |-> stage[p], fid |-> fid[p], width |-> Size(stage[p]), value |-> value]
    PROVE  /\ Says(q, n, m)
           /\ p = S /\ stage[p] = "equal" => value \in {0, 1}
           /\ p = S /\ stage[p] = "multiplexer" => value \in [input : Randoms, share : Randoms]
<1>1. q \in Party /\ Peer(q) = p /\ (q = R <=> p = S) /\ (q = S <=> p = R)
  BY TwoParties
<1>2. /\ m.is = stage[p] /\ m.fid = fid[p] /\ m.width = Size(stage[p]) /\ m.value = value
  OBVIOUS
<1>3. Control(p) /\ Knows(p)
  BY DEF CircuitInv
<1>4. /\ m.is \in InInit \cup Compared /\ \A d : m.is \in To(d)
      /\ m.is \notin Sizes
      /\ m.is \in Compared => /\ m.is \in InCall /\ m.is \in Placed /\ m.is \in Hinted
                              /\ m.is \notin InInit
                              /\ \A k \in DOMAIN Checked : m.is # Checked[k]
      /\ m.is \notin Compared => m.is \in InInit /\ m.is \notin InCall /\ m.is \notin Placed
                                 /\ m.is \notin Hinted
  BY <1>2, TwoWayStages
<1>5. /\ m.is \in InInit => n = 0
      /\ m.is \in Compared => /\ n \in DOMAIN calls[p] /\ n \in DOMAIN calls[q]
                              /\ n \in Nat \ {0} /\ Features(n) \in Nat
                              /\ ThroughStash(n) /\ ThroughHint(n)
  <2>1. m.is \in InInit => n = 0
    BY <1>2, <1>3 DEF Control
  <2>2. ASSUME m.is \in Compared
        PROVE  /\ n \in DOMAIN calls[p] /\ n \in DOMAIN calls[q]
               /\ n \in Nat \ {0} /\ Features(n) \in Nat
    BY <1>2, <2>2, ComparedSizes, TwoParties
  <2>3. ASSUME m.is \in Compared
        PROVE  ThroughStash(n) /\ ThroughHint(n)
    <3>1. stage[p] \in Placed /\ stage[p] \in Hinted /\ n \notin DOMAIN results[p]
      BY <1>2, <1>4, <2>3, ComparedSizes
    <3>2. CASE p = S
      <4>1. ThroughStash(n)
        BY <3>1, <3>2, Through
      <4>2. ThroughHint(n)
        BY <3>1, <3>2 DEF ThroughHint
      <4> QED
        BY <4>1, <4>2
    <3>3. CASE p = R
      <4>1. ThroughHint(n)
        BY <3>1, <3>3, Through
      <4>2. ThroughStash(n)
        BY <3>1, <3>3 DEF ThroughStash
      <4> QED
        BY <4>1, <4>2
    <3> QED
      BY <3>2, <3>3, TwoParties
  <2> QED
    BY <2>1, <2>2, <2>3
<1>6. IF m.is \in {"feature_hint", "multiplexer"} THEN m.fid \in 1..Features(n) ELSE m.fid = 1
  BY <1>2, <1>3 DEF Control
<1>7. ASSUME NEW k \in DOMAIN Checked, m.is = Checked[k]
      PROVE  m.width = Words(1) /\ m.value = params[p][m.is] /\ Reached(p, k)
  <2>1. stage[p] \in Range(Checked)
    BY <1>2, <1>7, CheckedIs
  <2>2. value = params[p][stage[p]] /\ Size(stage[p]) = Words(1)
    <3>1. Offers(p) = {params[p][stage[p]]} /\ Size(stage[p]) = Words(1)
      BY <2>1, CheckedIs DEF Offers, Size
    <3> QED
      BY <3>1
  <2>3. Reached(p, k)
    BY <1>2, <1>7, CheckedIs DEF Reached
  <2> QED
    BY <1>2, <2>2, <2>3
<1>8. m.is \in {"seed", "base_ot", "mpc"} => m.width = Bytes(m.is) /\ m.value = Block(p)
  BY <1>2, CheckedIs DEF Offers, Size
<1>9. m.is \in Compared => m.width = Bytes(m.is)
  BY <1>2, CheckedIs DEF Size, Compared
<1>10. p = S /\ stage[p] = "equal" => value \in {0, 1}
  <2>1. ASSUME p = S, stage[p] = "equal"
        PROVE  value \in {0, 1}
    <3>1. value \in {r % 2 : r \in Randoms}
      BY <2>1, CheckedIs DEF Offers, S
    <3>2. PICK r \in Randoms : value = r % 2
      BY <3>1
    <3>3. r \in Int
      BY WordType
    <3> QED
      BY <3>2, <3>3
  <2> QED
    BY <2>1
<1>11. p = S /\ stage[p] = "multiplexer" => value \in [input : Randoms, share : Randoms]
  <2>1. ASSUME p = S, stage[p] = "multiplexer"
        PROVE  value \in [input : Randoms, share : Randoms]
    <3>1. value \in [input : {contents[fid[p]]}, share : Randoms]
      BY <2>1, CheckedIs DEF Offers, S
    <3>2. contents \in Seq(Randoms) /\ Len(contents) = Features(n) /\ fid[p] \in 1..Features(n)
      <4>1. TypeOK /\ SenderLocals
        BY DEF CircuitInv
      <4> QED
        BY <2>1, <1>3, <4>1 DEF TypeOK, SenderLocals, Control, Compared
    <3>3. contents[fid[p]] \in Randoms
      BY <3>2
    <3> QED
      BY <3>1, <3>3
  <2> QED
    BY <2>1
<1>12. m.is # "stash" /\ m.is # "ot" /\ m.is # "hint_stash" /\ m.is # "hint" /\ m.is # "feature_hint"
  BY <1>4, InitStages DEF Compared
<1>13. Says(q, n, m)
  BY <1>1, <1>2, <1>4, <1>5, <1>6, <1>7, <1>8, <1>9, <1>10, <1>11, <1>12 DEF Says
<1> QED
  BY <1>10, <1>11, <1>13

LEMMA SendValueKeeps ==
    ASSUME CircuitInv, NEW p \in Party, SendValue(p)
    PROVE  CircuitInv'
<1>1. /\ stage[p] \in TwoWay /\ io[p] = "send" /\ Half(p)
      /\ UNCHANGED <<params, calls, results, remote, peer_size, common_prng, locals>>
  BY DEF SendValue
<1>2. PICK value \in Offers(p) : /\ Post(p, Size(stage[p]), value)
                                 /\ sent' = [sent EXCEPT ![p] = value]
  BY Zenon DEF SendValue
<1>3. /\ stage' = stage /\ fid' = fid /\ ~HasWritten(p) /\ HasWritten(p)'
      /\ HasRead(p)' <=> HasRead(p)
      /\ io' \in [Party -> {"send", "recv", "done", "none"}] /\ io'[p] # "none"
      /\ \A q \in Party \ {p} : io'[q] = io[q]
  BY <1>1, HalfWrites
<1>4. /\ \A q \in Party \ {p} : sent'[q] = sent[q] /\ remote'[q] = remote[q]
      /\ sent'[p] = value /\ remote' = remote /\ DOMAIN sent' = Party /\ DOMAIN remote' = Party
  BY <1>1, <1>2 DEF CircuitInv, AreSequences
<1>5. PICK n, q : n = Number(p) /\ q = Peer(p) /\ q \in Party /\ q # p /\ n = Number(p)'
  BY ZenonT(60), <1>1, TwoParties DEF Number
<1>6. /\ Alone(p) /\ Control(p)' /\ Ended' /\ TypeOK'
      /\ \A d \in Party : Previous(d, p, n, stage[p], fid[p])'
                            = Previous(d, p, n, stage[p], fid[p])
  <2>1. /\ Alone(p) /\ Control(p)' /\ Ended' /\ TypeOK'
        /\ \A d \in Party : Previous(d, p, Number(p), stage[p], fid[p])'
                            = Previous(d, p, Number(p), stage[p], fid[p])
    BY <1>1, <1>3, <1>4, HalfStays
  <2> QED
    BY <1>5, <2>1
<1>7. /\ Last(p, p)' = Last(p, p) /\ Last(q, p)' = Place(n, stage[p], fid[p])
  <2>1. Last(p, p)' = IF HasRead(p) THEN Place(n, stage[p], fid[p])
                      ELSE Previous(p, p, n, stage[p], fid[p])'
    BY <1>3, <1>5 DEF Last
  <2>2. Last(p, p) = IF HasRead(p) THEN Place(n, stage[p], fid[p])
                      ELSE Previous(p, p, n, stage[p], fid[p])
    BY <1>5 DEF Last
  <2>3. Last(q, p)' = Place(n, stage[p], fid[p])
    BY <1>3, <1>5 DEF Last
  <2> QED
    BY <1>6, <2>1, <2>2, <2>3
<1>8. PICK width : width = Size(stage[p])
  OBVIOUS
<1>9. PICK m : m = [is |-> stage[p], fid |-> fid[p], width |-> width, value |-> value]
  BY Zenon
<1>10. /\ Says(q, n, m)
       /\ p = S /\ stage[p] = "equal" => value \in {0, 1}
       /\ p = S /\ stage[p] = "multiplexer" => value \in [input : Randoms, share : Randoms]
  BY Zenon, <1>1, <1>2, <1>5, <1>8, <1>9, OffersSay
<1>11. Says(q, n, m)'
  BY <1>5, <1>6, <1>10, SaysLasts
<1>12. /\ \A r \in Party : InOrder(r)'
       /\ DOMAIN chan' = Party /\ \A r \in Party : chan'[r] \in Seq(Range(chan'[r]))
  <2>1. stage[p] \in InInit \cup InCall /\ Post(p, width, value)
    BY <1>1, <1>2, <1>8, TwoWayStages
  <2> QED
    BY Zenon, <1>3, <1>5, <1>6, <1>7, <1>9, <1>11, <2>1, SendsOrder
<1>13. Knows(p)'
  <2>1. ASSUME NEW k \in DOMAIN Checked, stage[p] = Checked[k], HasRead(p)'
        PROVE  remote'[p] = params[q][Checked[k]] /\ Reached(q, k)'
    <3>1. remote[p] = params[q][Checked[k]] /\ Reached(q, k)
      BY <1>3, <1>5, <2>1 DEF CircuitInv, Knows
    <3> QED
      BY <1>4, <1>5, <1>6, <3>1, ReachedLasts
  <2>2. stage[p] = "seed" /\ HasRead(p)' => remote'[p] = Block(q)
    BY <1>3, <1>4, <1>5 DEF CircuitInv, Knows
  <2> QED
    BY <1>1, <1>3, <1>5, <1>6, <2>1, <2>2, HalfKnows
<1>14. UNCHANGED <<cuckoo_table, hint_table, stash_size, contents, opened, hint_features,
                   output_shares>>
  BY <1>1 DEF locals, tables
<1>15. AreSequences'
  BY <1>1, <1>4, <1>12, <1>14, SequencesStay
<1>16. /\ \A r : Features(r)' = Features(r) /\ HintsOf(r)' = HintsOf(r) /\ MasksOf(r)' = MasksOf(r)
                 /\ BinsOf(r)' = BinsOf(r) /\ Drawn(R, r)' = Drawn(R, r)
  BY <1>1 DEF Features, HintsOf, MasksOf, BinsOf, Drawn, Failures
<1>17. p = S => SenderLocals'
  <2>1. SenderLocals
    BY DEF CircuitInv
  <2> QED
    BY Zenon, <1>3, <1>4, <1>5, <1>10, <1>14, <1>16, <2>1 DEF SenderLocals
<1>18. p = R => ReceiverLocals'
  <2>1. ReceiverLocals
    BY DEF CircuitInv
  <2>2. \A r : TableOf(r)' <=> TableOf(r)
    BY <1>1, <1>14, <1>16 DEF TableOf
  <2> QED
    BY Zenon, <1>3, <1>4, <1>5, <1>14, <1>16, <2>1, <2>2 DEF ReceiverLocals
<1> QED
  BY <1>6, <1>12, <1>13, <1>15, <1>17, <1>18, Together

LEMMA RecvValueKeeps ==
    ASSUME CircuitInv, NEW p \in Party, RecvValue(p)
    PROVE  CircuitInv'
<1>1. /\ stage[p] \in TwoWay /\ io[p] = "recv" /\ Half(p) /\ Take(p, Size(stage[p]))
      /\ remote' = [remote EXCEPT ![p] = Head(chan[p]).value]
      /\ UNCHANGED <<params, calls, results, sent, peer_size, common_prng, locals>>
  BY DEF RecvValue
<1>2. PICK m : m = Head(chan[p])
  OBVIOUS
<1>3. /\ stage' = stage /\ fid' = fid /\ ~HasRead(p) /\ HasRead(p)'
      /\ HasWritten(p)' <=> HasWritten(p)
      /\ io' \in [Party -> {"send", "recv", "done", "none"}] /\ io'[p] # "none"
      /\ \A q \in Party \ {p} : io'[q] = io[q]
  BY <1>1, HalfReads
<1>4. /\ \A q \in Party \ {p} : sent'[q] = sent[q] /\ remote'[q] = remote[q]
      /\ remote'[p] = m.value /\ sent' = sent /\ DOMAIN sent' = Party /\ DOMAIN remote' = Party
  BY <1>1, <1>2 DEF CircuitInv, AreSequences
<1>5. PICK n, q : n = Number(p) /\ q = Peer(p) /\ q \in Party /\ q # p /\ n = Number(p)'
  BY ZenonT(60), <1>1, TwoParties DEF Number
<1>6. /\ Alone(p) /\ Control(p)' /\ Ended' /\ TypeOK'
      /\ \A d \in Party : Previous(d, p, n, stage[p], fid[p])'
                            = Previous(d, p, n, stage[p], fid[p])
  <2>1. /\ Alone(p) /\ Control(p)' /\ Ended' /\ TypeOK'
        /\ \A d \in Party : Previous(d, p, Number(p), stage[p], fid[p])'
                            = Previous(d, p, Number(p), stage[p], fid[p])
    BY <1>1, <1>3, <1>4, HalfStays
  <2> QED
    BY <1>5, <2>1
<1>7. /\ Last(q, p)' = Last(q, p) /\ Last(p, p)' = Place(n, stage[p], fid[p])
  <2>1. Last(q, p)' = IF HasWritten(p) THEN Place(n, stage[p], fid[p])
                      ELSE Previous(q, p, n, stage[p], fid[p])'
    BY <1>3, <1>5 DEF Last
  <2>2. Last(q, p) = IF HasWritten(p) THEN Place(n, stage[p], fid[p])
                      ELSE Previous(q, p, n, stage[p], fid[p])
    BY <1>5 DEF Last
  <2>3. Last(p, p)' = Place(n, stage[p], fid[p])
    BY <1>3, <1>5 DEF Last
  <2> QED
    BY <1>5, <1>6, <2>1, <2>2, <2>3
<1>8. PICK width : width = Size(stage[p])
  OBVIOUS
<1>9. /\ Says(p, n, m) /\ m.is = stage[p]
      /\ \A r \in Party : InOrder(r)'
      /\ DOMAIN chan' = Party /\ \A r \in Party : chan'[r] \in Seq(Range(chan'[r]))
  <2>1. /\ Take(p, width) /\ Last(Peer(p), p)' = Last(Peer(p), p)
        /\ Last(p, p)' = Place(Number(p), stage[p], fid[p])
    BY <1>1, <1>5, <1>7, <1>8
  <2>2. Says(p, n, m) /\ m.is = stage[p]
    BY Zenon, <1>1, <1>2, <1>5, <2>1, Found
  <2>3. /\ \A r \in Party : InOrder(r)'
        /\ DOMAIN chan' = Party /\ \A r \in Party : chan'[r] \in Seq(Range(chan'[r]))
    BY <1>1, <1>6, <2>1, ReadsOrder
  <2> QED
    BY <2>2, <2>3
<1>10. Knows(p)'
  <2>1. ASSUME NEW k \in DOMAIN Checked, stage[p] = Checked[k], HasRead(p)'
        PROVE  remote'[p] = params[q][Checked[k]] /\ Reached(q, k)'
    <3>1. m.value = params[q][Checked[k]] /\ Reached(q, k)
      BY <1>5, <1>9, <2>1 DEF Says
    <3> QED
      BY <1>4, <1>5, <1>6, <3>1, ReachedLasts
  <2>2. stage[p] = "seed" /\ HasRead(p)' => remote'[p] = Block(q)
    BY <1>4, <1>5, <1>9 DEF Says
  <2> QED
    BY <1>1, <1>3, <1>5, <1>6, <2>1, <2>2, HalfKnows
<1>11. UNCHANGED <<cuckoo_table, hint_table, stash_size, contents, opened, hint_features,
                   output_shares>>
  BY <1>1 DEF locals, tables
<1>12. AreSequences'
  BY <1>1, <1>4, <1>9, <1>11, SequencesStay
<1>13. /\ \A r : Features(r)' = Features(r) /\ HintsOf(r)' = HintsOf(r) /\ MasksOf(r)' = MasksOf(r)
                 /\ BinsOf(r)' = BinsOf(r) /\ Drawn(R, r)' = Drawn(R, r)
  BY <1>1 DEF Features, HintsOf, MasksOf, BinsOf, Drawn, Failures
<1>14. p = S => SenderLocals'
  <2>1. SenderLocals
    BY DEF CircuitInv
  <2> QED
    BY Zenon, <1>3, <1>4, <1>5, <1>11, <1>13, <2>1 DEF SenderLocals
<1>15. p = R => ReceiverLocals'
  <2>1. ReceiverLocals
    BY DEF CircuitInv
  <2>2. \A r : TableOf(r)' <=> TableOf(r)
    BY <1>1, <1>11, <1>13 DEF TableOf
  <2>3. p = R => /\ stage[p] = "equal" => m.value \in {0, 1}
                 /\ stage[p] = "multiplexer" => m.value \in [input : Randoms, share : Randoms]
    BY <1>9 DEF Says
  <2> QED
    BY Zenon, <1>3, <1>4, <1>5, <1>11, <1>13, <2>1, <2>2, <2>3 DEF ReceiverLocals
<1> QED
  BY <1>6, <1>9, <1>10, <1>12, <1>14, <1>15, Together

-----------------------------------------------------------------------------
(* init, and the start of a call.                                          *)

\* A parameter is reached, and so stays.
LEMMA ReachedNext ==
    /\ \A k \in DOMAIN Checked : \A j \in DOMAIN Checked :
          Checked[k] \notin {Checked[i] : i \in 1..(j - 1)} <=> j <= k
    /\ \A s : \A j \in DOMAIN Checked :
          s \notin Range(Checked) => s \notin {Checked[i] : i \in 1..(j - 1)}
<1>1. ASSUME NEW k \in DOMAIN Checked, NEW j \in DOMAIN Checked
      PROVE  Checked[k] \notin {Checked[i] : i \in 1..(j - 1)} <=> j <= k
  <2>1. k \in 1..4 /\ j \in 1..4
    BY <1>1, CheckedIs
  <2>2. ASSUME NEW i \in 1..4, Checked[i] = Checked[k]
        PROVE  i = k
    BY <2>1, <2>2, CheckedIs
  <2>3. CASE j <= k
    BY <2>1, <2>2, <2>3
  <2>4. CASE k < j
    <3>1. k \in 1..(j - 1)
      BY <2>1, <2>4
    <3> QED
      BY <2>1, <2>4, <3>1
  <2> QED
    BY <2>1, <2>3, <2>4
<1>2. ASSUME NEW s, NEW j \in DOMAIN Checked, s \notin Range(Checked)
      PROVE  s \notin {Checked[i] : i \in 1..(j - 1)}
  <2>1. j \in 1..4
    BY <1>2, CheckedIs
  <2>2. \A i \in 1..(j - 1) : i \in 1..4
    BY <2>1
  <2> QED
    BY <1>2, <2>2, CheckedIs
<1> QED
  BY <1>1, <1>2

LEMMA InitMoves ==
    ASSUME CircuitInv, NEW p \in Party, stage[p] \in InInit, io[p] = "done",
           NEW s \in InInit \cup Rest, EnterAt(p, s, 1),
           UNCHANGED <<params, calls, results, values, locals>>,
           \A q \in Party \ {p} : common_prng'[q] = common_prng[q],
           \A k \in DOMAIN Checked : stage[p] = Checked[k] =>
              s \notin Range(Checked) \/ \E j \in DOMAIN Checked : j > k /\ s = Checked[j],
           stage[p] \notin Range(Checked) => s \notin Range(Checked)
    PROVE  /\ Alone(p) /\ Number(p) = 0 /\ Number(p)' = 0
           /\ \A d \in Party : /\ Last(d, p) = Place(0, stage[p], 1)
                               /\ Last(d, p)' = Previous(d, p, 0, s, 1)'
           /\ stage'[p] = s /\ io'[p] = Starts(s, p) /\ fid'[p] = 1
           /\ s \in Stages /\ s \notin InCall /\ stage[p] \notin InCall
           /\ ~HasRead(p)'
<1>1. s \in Stages /\ s \notin InCall /\ stage[p] \notin InCall /\ 1 \in Nat \ {0}
  BY StagesAre
<1>2. /\ stage'[p] = s /\ io'[p] = Starts(s, p) /\ fid'[p] = 1
      /\ \A q \in Party \ {p} :
            stage'[q] = stage[q] /\ io'[q] = io[q] /\ fid'[q] = fid[q]
      /\ ~HasRead(p)' /\ ~HasWritten(p)'
  BY <1>1, Entered
<1>3. /\ UNCHANGED <<cuckoo_table, hint_table, stash_size, contents, opened, hint_features,
                     output_shares, sent, remote, peer_size>>
  BY DEF locals, tables, values
<1>4. Others(p)
  <2>1. Peer(p) \in Party \ {p}
    BY TwoParties
  <2> QED
    BY <1>2, <1>3, <2>1 DEF Others
<1>5. ASSUME NEW j \in DOMAIN Checked, Reached(p, j)
      PROVE  Reached(p, j)'
  <2>1. CASE s \notin Range(Checked)
    BY <1>2, <2>1, ReachedNext DEF Reached
  <2>2. CASE s \in Range(Checked)
    <3>1. PICK k \in DOMAIN Checked : stage[p] = Checked[k]
      BY <2>2, CheckedIs
    <3>2. PICK i \in DOMAIN Checked : i > k /\ s = Checked[i]
      BY <2>2, <3>1
    <3>3. j <= k
      BY <1>5, <3>1, ReachedNext DEF Reached
    <3>4. j <= i
      BY <3>2, <3>3, CheckedIs
    <3> QED
      BY <1>2, <3>2, <3>4, ReachedNext DEF Reached
  <2> QED
    BY <2>1, <2>2
<1>6. Alone(p)
  <2>1. /\ stage[p] \in Placed => stage'[p] \in Placed
        /\ stage[p] \in Hinted => stage'[p] \in Hinted
    BY <1>1, StagesAre
  <2> QED
    BY <1>4, <1>5, <2>1, MovesOn
<1>7. Number(p) = 0 /\ Number(p)' = 0 /\ fid[p] = 1
  <2>1. Control(p)
    BY DEF CircuitInv
  <2>2. stage[p] \notin {"feature_hint", "multiplexer"}
    BY InitStages
  <2> QED
    BY <2>1, <2>2 DEF Control, Number
<1>8. ASSUME NEW d \in Party
      PROVE  /\ Last(d, p) = Place(0, stage[p], 1)
             /\ Last(d, p)' = Previous(d, p, 0, s, 1)'
  <2>1. Last(d, p) = Place(0, stage[p], 1)
    BY <1>7, AtEnd
  <2>2. Last(d, p)' = Previous(d, p, 0, s, 1)'
    BY <1>2, <1>7 DEF Last
  <2> QED
    BY <2>1, <2>2
<1> QED
  BY <1>1, <1>2, <1>6, <1>7, <1>8

LEMMA InitKeeps ==
    ASSUME CircuitInv, NEW p \in Party, Alone(p), Number(p) = 0, Number(p)' = 0,
           NEW s \in Stages, s \notin InCall, stage[p] \notin InCall, EnterAt(p, s, 1),
           UNCHANGED <<params, calls, results, values, locals, chan>>,
           common_prng' \in [Party -> Prng],
           common_prng'[p] = [seed |-> IF s \in Range(Checked) \cup {"seed", "threw"}
                                       THEN {} ELSE {1, 2},
                              draws |-> common_prng[p].draws],
           Knows(p)', \A d \in Party : Last(d, p)' = Last(d, p)
    PROVE  CircuitInv'
<1>1. /\ stage'[p] = s /\ io'[p] = Starts(s, p) /\ fid'[p] = 1
      /\ ~HasRead(p)' /\ ~HasWritten(p)'
  BY Entered
<1>2. /\ UNCHANGED <<cuckoo_table, hint_table, stash_size, contents, opened, hint_features,
                     output_shares, sent, remote, peer_size>>
  BY DEF locals, tables, values
<1>3. /\ s \notin Placed /\ s \notin Hinted /\ s \notin {"feature_hint", "multiplexer"}
      /\ s # "hint_hash" /\ s \notin {"stash"} \cup Placed /\ s \notin {"hint_stash"} \cup Hinted
      /\ stage[p] \notin {"stash"} \cup Placed /\ stage[p] \notin {"hint_stash"} \cup Hinted
      /\ stage[p] # "multiplexer"
  BY StagesAre DEF InCall
<1>4. Control(p)'
  <2>1. /\ Number(p) <= MaxCalls /\ Number(p) = Len(results[p])
        /\ common_prng[p].draws = Draws(p)
    <3>1. Control(p)
      BY DEF CircuitInv
    <3> QED
      BY <3>1 DEF Control
  <2>2. Draws(p)' = Draws(p)
    BY <1>1 DEF Draws, Drawn, Failures, Number
  <2>3. output_shares[p] = <<>>
    BY <1>3, NoColumns
  <2>4. IF s \in TwoWay THEN Starts(s, p) # "none" ELSE TRUE
    BY TwoWayStages
  <2>5. Starts(s, p)' = Starts(s, p)
    BY DEF Starts
  <2> QED
    BY <1>1, <1>2, <1>3, <2>1, <2>2, <2>3, <2>4, <2>5 DEF Control
<1>5. TypeOK'
  <2>1. TypeOK /\ 1 \in Nat \ {0}
    BY DEF CircuitInv
  <2>2. ControlType'
    BY <2>1, EnteredType
  <2>3. peer_size' \in [Party -> [data : Nat, features : Nat]]
    BY <1>2, <2>1 DEF TypeOK
  <2> QED
    BY <2>1, <2>2, <2>3, LocalsTypeStays, TypeAfter
<1>6. AreSequences'
  BY <1>2, SequencesStay DEF CircuitInv, AreSequences
<1>7. \A q \in Party : InOrder(q)'
  BY QuietOrder
<1>8. Ended'
  BY ResultsStay
<1>9. p = S => SenderLocals'
  BY <1>1, <1>2, <1>3, NoHints
<1>10. p = R => ReceiverLocals'
  BY <1>1, <1>2, <1>3, NoTable
<1> QED
  BY <1>4, <1>5, <1>6, <1>7, <1>8, <1>9, <1>10, Together

\* The parameter before a stage of init.
LEMMA InitBeforeNext ==
    /\ \A k \in DOMAIN Checked : k < Len(Checked) => InitBefore(Checked[k + 1]) = Checked[k]
    /\ InitBefore("seed") = Checked[4] /\ InitBefore("base_ot") = "seed"
    /\ InitBefore("mpc") = "base_ot"
<1>1. ASSUME NEW k \in DOMAIN Checked, k < Len(Checked)
      PROVE  InitBefore(Checked[k + 1]) = Checked[k]
  <2>1. k \in {1, 2, 3}
    BY <1>1, CheckedIs
  <2>2. k + 1 \in {2, 3, 4} /\ (k = 1 => k + 1 = 2) /\ (k = 2 => k + 1 = 3) /\ (k = 3 => k + 1 = 4)
    BY <2>1
  <2> QED
    BY <2>1, <2>2, CheckedIs DEF InitBefore
<1>2. /\ InitBefore("seed") = Checked[4] /\ InitBefore("base_ot") = "seed"
      /\ InitBefore("mpc") = "base_ot"
  BY CheckedIs DEF InitBefore
<1> QED
  BY <1>1, <1>2

LEMMA FirstDifferenceIs ==
    ASSUME NEW k \in DOMAIN Checked, Differ(k)
    PROVE  FirstDifference = Checked[k]
<1>1. ASSUME NEW j \in DOMAIN Checked, Differ(j)
      PROVE  j = k
  <2>1. j \in 1..4 /\ k \in 1..4
    BY <1>1, CheckedIs
  <2>2. ~(j \in 1..(k - 1)) /\ ~(k \in 1..(j - 1))
    BY <1>1 DEF Differ
  <2> QED
    BY <2>1, <2>2
<1>2. (CHOOSE j \in DOMAIN Checked : Differ(j)) = k
  BY <1>1
<1> QED
  BY Zenon, <1>2 DEF FirstDifference

\* What a party in init knows of the parameters.
LEMMA InitKnows ==
    ASSUME NEW p \in Party, NEW q, q = Peer(p), stage'[p] \notin InCall, ~HasRead(p)',
           \A k \in DOMAIN Checked :
              /\ stage'[p] \notin {Checked[j] : j \in 1..k} \cup {"threw"}
                   => params'[p][Checked[k]] = params'[q][Checked[k]]
              /\ stage'[p] = Checked[k] =>
                   \A j \in 1..(k - 1) : params'[p][Checked[j]] = params'[q][Checked[j]],
           stage'[p] = "threw" => \E k \in DOMAIN Checked : Differ(k)' /\ Reached(q, k)'
    PROVE  Knows(p)'
<1>1. stage'[p] \notin Placed /\ stage'[p] \notin Hinted
  BY StagesAre
<1> QED
  BY <1>1 DEF Knows

LEMMA CheckParamKeeps ==
    ASSUME CircuitInv, NEW p \in Party, CheckParam(p)
    PROVE  CircuitInv'
<1>1. UNCHANGED <<params, calls, results, values, common_prng, locals, chan>>
  BY DEF CheckParam
<1>2. PICK k \in DOMAIN Checked :
         /\ stage[p] = Checked[k] /\ io[p] = "done"
         /\ EnterAt(p, IF params[p][Checked[k]] # remote[p] THEN "threw"
                       ELSE IF k < Len(Checked) THEN Checked[k + 1] ELSE "seed", 1)
  BY DEF CheckParam, At, Enter
<1>3. k \in 1..4 /\ Len(Checked) = 4
  BY <1>2, CheckedIs
<1>4. PICK s : /\ EnterAt(p, s, 1)
               /\ \/ params[p][Checked[k]] # remote[p] /\ s = "threw"
                  \/ params[p][Checked[k]] = remote[p] /\ k < 4 /\ s = Checked[k + 1]
                  \/ params[p][Checked[k]] = remote[p] /\ k = 4 /\ s = "seed"
  BY <1>2, <1>3
<1>5. PICK q : q = Peer(p) /\ q \in Party
  BY TwoParties
<1>6. /\ remote[p] = params[q][Checked[k]] /\ Reached(q, k)
      /\ \A j \in 1..(k - 1) : params[p][Checked[j]] = params[q][Checked[j]]
  <2>1. Knows(p) /\ HasRead(p)
    BY <1>2 DEF CircuitInv, HasRead
  <2> QED
    BY <1>2, <1>5, <2>1 DEF Knows
<1>7. /\ stage[p] \in InInit /\ s \in InInit \cup Rest /\ stage[p] \in Range(Checked)
      /\ s \notin Range(Checked) \/ \E j \in DOMAIN Checked : j > k /\ s = Checked[j]
      /\ s \in Range(Checked) \cup {"seed", "threw"}
  <2>1. stage[p] \in Range(Checked) /\ Range(Checked) \subseteq InInit
    BY <1>2, CheckedIs DEF InInit
  <2>2. CASE k < 4 /\ s = Checked[k + 1]
    <3>1. k + 1 \in DOMAIN Checked /\ k + 1 > k
      BY <1>3, <2>2, CheckedIs
    <3>2. s \in Range(Checked)
      BY <2>2, <3>1, CheckedIs
    <3> QED
      BY <2>1, <2>2, <3>1, <3>2
  <2>3. CASE s = "threw" \/ s = "seed"
    BY <2>1, <2>3, CheckedIs DEF InInit, Rest
  <2> QED
    BY <1>4, <2>2, <2>3
<1>8. \A j \in DOMAIN Checked : stage[p] = Checked[j] => j = k
  BY Zenon, <1>2, CheckedIs
<1>9. /\ Alone(p) /\ Number(p) = 0 /\ Number(p)' = 0
      /\ \A d \in Party : /\ Last(d, p) = Place(0, stage[p], 1)
                          /\ Last(d, p)' = Previous(d, p, 0, s, 1)'
      /\ stage'[p] = s /\ s \in Stages /\ s \notin InCall /\ stage[p] \notin InCall
      /\ ~HasRead(p)'
  <2>1. /\ UNCHANGED <<params, calls, results, values, locals>>
        /\ \A r \in Party \ {p} : common_prng'[r] = common_prng[r]
        /\ \A j \in DOMAIN Checked : stage[p] = Checked[j] =>
              s \notin Range(Checked) \/ \E i \in DOMAIN Checked : i > j /\ s = Checked[i]
    BY <1>1, <1>7, <1>8
  <2> QED
    BY <1>2, <1>4, <1>7, <2>1, InitMoves
<1>10. ASSUME s = "threw"
       PROVE  /\ Differ(k) /\ Differ(k)'
              /\ \A d \in Party : Previous(d, p, 0, s, 1)' = Place(0, Checked[k], 1)
  <2>1. params[p][Checked[k]] # params[q][Checked[k]]
    BY <1>4, <1>6, <1>7, <1>10, CheckedIs
  <2>2. Differ(k)
    BY <1>5, <1>6, <2>1, TwoParties DEF Differ
  <2>3. Differ(k)' /\ FirstDifference' = FirstDifference
    BY <1>1, <2>2 DEF Differ, FirstDifference
  <2>4. ASSUME NEW d \in Party
        PROVE  Previous(d, p, 0, s, 1)' = Place(0, FirstDifference', 1)
    <3>1. s \notin InInit /\ s = "threw"
      BY <1>10, InitStages
    <3> QED
      BY <3>1 DEF Previous
  <2> QED
    BY <2>2, <2>3, <2>4, FirstDifferenceIs
<1>11. ASSUME s # "threw"
       PROVE  \A d \in Party : Previous(d, p, 0, s, 1)' = Place(0, Checked[k], 1)
  <2>1. s \in InInit /\ InitBefore(s) = Checked[k]
    <3>1. CASE k < 4 /\ s = Checked[k + 1]
      BY <1>3, <1>7, <1>11, <3>1, InitBeforeNext, CheckedIs DEF InInit
    <3>2. CASE k = 4 /\ s = "seed"
      BY <3>2, InitBeforeNext DEF InInit
    <3> QED
      BY <1>4, <1>11, <3>1, <3>2
  <2>2. ASSUME NEW d \in Party
        PROVE  Previous(d, p, 0, s, 1)' = Place(0, InitBefore(s), 1)
    BY <2>1, InitStages DEF Previous
  <2> QED
    BY <2>1, <2>2
<1>12. \A d \in Party : Last(d, p)' = Last(d, p)
  BY <1>2, <1>9, <1>10, <1>11
<1>13. Knows(p)'
  <2>1. Reached(q, k)'
    BY <1>5, <1>6, <1>9, ReachedLasts
  <2>2. ASSUME s # "threw", NEW j \in 1..k
        PROVE  params[p][Checked[j]] = params[q][Checked[j]]
    <3>1. j \in 1..(k - 1) \/ j = k
      BY <1>3, <2>2
    <3> QED
      BY <1>4, <1>6, <2>2, <3>1
  <2>3. ASSUME NEW i \in DOMAIN Checked
        PROVE  /\ s \notin {Checked[j] : j \in 1..i} \cup {"threw"}
                    => params[p][Checked[i]] = params[q][Checked[i]]
               /\ s = Checked[i] =>
                    \A j \in 1..(i - 1) : params[p][Checked[j]] = params[q][Checked[j]]
    <3>1. i \in 1..4
      BY <2>3, CheckedIs
    <3>2. CASE s = "threw"
      BY <3>1, <3>2, CheckedIs
    <3>3. CASE k < 4 /\ s = Checked[k + 1]
      <4>1. k + 1 \in 1..4
        BY <1>3, <3>3
      <4>2. s # "threw"
        BY <3>3, <4>1, CheckedIs
      <4>3. s \notin {Checked[j] : j \in 1..i} => i \in 1..k
        BY <1>3, <3>1, <3>3, <4>1
      <4>4. s = Checked[i] => i = k + 1
        <5>1. PICK l \in 1..4 : l = k + 1
          BY <4>1
        <5>2. \A j \in 1..4 : Checked[j] = Checked[i] => j = i
          BY <3>1, CheckedIs
        <5> QED
          BY Zenon, <3>3, <5>1, <5>2
      <4>5. i = k + 1 => \A j \in 1..(i - 1) : j \in 1..k
        BY <1>3
      <4> QED
        BY <2>2, <4>2, <4>3, <4>4, <4>5
    <3>4. CASE k = 4 /\ s = "seed"
      BY <2>2, <3>1, <3>4, CheckedIs
    <3> QED
      BY <1>4, <3>2, <3>3, <3>4
  <2>4. stage'[p] = "threw" => \E i \in DOMAIN Checked : Differ(i)' /\ Reached(q, i)'
    BY <1>9, <1>10, <2>1
  <2> QED
    BY <1>1, <1>5, <1>9, <2>3, <2>4, InitKnows
<1>14. /\ common_prng' \in [Party -> Prng]
       /\ common_prng'[p] = [seed |-> IF s \in Range(Checked) \cup {"seed", "threw"}
                                     THEN {} ELSE {1, 2},
                             draws |-> common_prng[p].draws]
  <2>1. Control(p) /\ common_prng \in [Party -> Prng]
    BY DEF CircuitInv, TypeOK
  <2>2. common_prng[p] = [seed |-> {}, draws |-> Draws(p)]
    BY Zenon, <1>7, <2>1 DEF Control
  <2> QED
    BY <1>1, <1>7, <2>1, <2>2
<1> QED
  BY Zenon, <1>1, <1>4, <1>9, <1>12, <1>13, <1>14, InitKeeps

\* The rest of init: from the stage a to the stage b.
LEMMA SetupKeeps ==
    ASSUME CircuitInv, NEW p \in Party, NEW a, NEW b, stage[p] = a, io[p] = "done",
           \/ a = "seed" /\ b = "base_ot"
           \/ a = "base_ot" /\ b = "mpc"
           \/ a = "mpc" /\ b = "idle",
           EnterAt(p, b, 1), UNCHANGED <<params, calls, results, values, locals, chan>>,
           common_prng' \in [Party -> Prng],
           \A q \in Party \ {p} : common_prng'[q] = common_prng[q],
           common_prng'[p] = [seed |-> {1, 2}, draws |-> common_prng[p].draws]
    PROVE  CircuitInv'
<1>1. /\ stage[p] \in InInit /\ b \in InInit \cup Rest /\ stage[p] \notin Range(Checked)
      /\ b \notin Range(Checked) /\ b \notin {"seed", "threw"} /\ a # "threw"
      /\ b \in Stages /\ b \notin InCall /\ stage[p] \notin InCall
      /\ \A k \in DOMAIN Checked : stage[p] # Checked[k]
  BY InitStages, CheckedIs, StagesAre DEF Rest
<1>2. PICK q : q = Peer(p) /\ q \in Party
  BY TwoParties
<1>3. /\ Alone(p) /\ Number(p) = 0 /\ Number(p)' = 0
      /\ \A d \in Party : /\ Last(d, p) = Place(0, stage[p], 1)
                          /\ Last(d, p)' = Previous(d, p, 0, b, 1)'
      /\ stage'[p] = b /\ ~HasRead(p)'
  <2>1. /\ UNCHANGED <<params, calls, results, values, locals>>
        /\ \A k \in DOMAIN Checked : stage[p] = Checked[k] =>
              b \notin Range(Checked) \/ \E j \in DOMAIN Checked : j > k /\ b = Checked[j]
    BY <1>1
  <2> QED
    BY <1>1, <2>1, InitMoves
<1>4. ASSUME NEW d \in Party
      PROVE  Previous(d, p, 0, b, 1)' = Place(0, a, 1)
  <2>1. CASE b \in InInit
    <3>1. Previous(d, p, 0, b, 1)' = Place(0, InitBefore(b), 1)
      BY <2>1, InitStages DEF Previous
    <3>2. InitBefore(b) = a
      BY <2>1, InitStages, InitBeforeNext
    <3> QED
      BY <3>1, <3>2
  <2>2. CASE b = "idle" /\ a = "mpc"
    <3>1. Previous(d, p, 0, b, 1)' = LastOf(d, p, 0)'
      BY <2>2, InitStages DEF Previous
    <3> QED
      BY <2>2, <3>1 DEF LastOf
  <2> QED
    BY <2>1, <2>2, InitStages
<1>5. \A d \in Party : Last(d, p)' = Last(d, p)
  BY <1>3, <1>4
<1>6. Knows(p)'
  <2>1. ASSUME NEW k \in DOMAIN Checked
        PROVE  params[p][Checked[k]] = params[q][Checked[k]]
    <3>1. Knows(p) /\ k \in 1..4
      BY <2>1, CheckedIs DEF CircuitInv
    <3>2. stage[p] \notin {Checked[j] : j \in 1..k} \cup {"threw"}
      BY <1>1, <3>1, CheckedIs
    <3> QED
      BY <1>2, <2>1, <3>1, <3>2 DEF Knows
  <2>2. \A k \in DOMAIN Checked : stage'[p] # Checked[k]
    BY <1>1, <1>3, CheckedIs
  <2> QED
    BY <1>1, <1>2, <1>3, <2>1, <2>2, InitKnows
<1>7. common_prng'[p] = [seed |-> IF b \in Range(Checked) \cup {"seed", "threw"}
                                  THEN {} ELSE {1, 2},
                         draws |-> common_prng[p].draws]
  BY <1>1
<1> QED
  BY <1>1, <1>3, <1>5, <1>6, <1>7, InitKeeps

LEMMA CreateCommonPrngKeeps ==
    ASSUME CircuitInv, NEW p \in Party, CreateCommonPrng(p)
    PROVE  CircuitInv'
<1>1. /\ stage[p] = "seed" /\ io[p] = "done" /\ EnterAt(p, "base_ot", 1)
      /\ common_prng' = [common_prng EXCEPT ![p].seed = {Block(p), remote[p]}]
      /\ UNCHANGED <<params, calls, results, values, locals, chan>>
  BY DEF CreateCommonPrng, At, Enter
<1>2. remote[p] = Block(Peer(p))
  <2>1. Knows(p) /\ HasRead(p)
    BY <1>1 DEF CircuitInv, HasRead
  <2> QED
    BY <1>1, <2>1 DEF Knows
<1>3. {Block(p), remote[p]} = {1, 2}
  BY <1>2, TwoParties DEF Block, S, R
<1>4. /\ common_prng' \in [Party -> Prng]
      /\ \A q \in Party \ {p} : common_prng'[q] = common_prng[q]
      /\ common_prng'[p] = [seed |-> {1, 2}, draws |-> common_prng[p].draws]
  <2>1. common_prng \in [Party -> Prng] /\ {1, 2} \in SUBSET (Nat \ {0})
    BY DEF CircuitInv, TypeOK
  <2> QED
    BY ZenonT(60), <1>1, <1>3, <2>1 DEF Prng
<1> QED
  BY Zenon, <1>1, <1>4, SetupKeeps

LEMMA FinishInitKeeps ==
    ASSUME CircuitInv, NEW p \in Party, FinishInit(p)
    PROVE  CircuitInv'
<1>1. PICK a, b : /\ stage[p] = a /\ io[p] = "done" /\ EnterAt(p, b, 1)
                  /\ \/ a = "base_ot" /\ b = "mpc"
                     \/ a = "mpc" /\ b = "idle"
  BY DEF FinishInit, At, Enter
<1>2. UNCHANGED <<params, calls, results, values, common_prng, locals, chan>>
  BY DEF FinishInit
<1>3. /\ common_prng' \in [Party -> Prng]
      /\ \A q \in Party \ {p} : common_prng'[q] = common_prng[q]
      /\ common_prng'[p] = [seed |-> {1, 2}, draws |-> common_prng[p].draws]
  <2>1. Control(p) /\ common_prng \in [Party -> Prng]
    BY DEF CircuitInv, TypeOK
  <2>2. common_prng[p] = [seed |-> {1, 2}, draws |-> Draws(p)]
    BY Zenon, <1>1, <2>1, CheckedIs DEF Control
  <2> QED
    BY <1>2, <2>1, <2>2
<1> QED
  BY Zenon, <1>1, <1>2, <1>3, SetupKeeps

LEMMA ProcessKeeps ==
    ASSUME CircuitInv, NEW p \in Party, Process(p)
    PROVE  CircuitInv'
<1>1. /\ stage[p] = "idle" /\ Number(p) < MaxCalls /\ EnterAt(p, "receiver_data", 1)
      /\ UNCHANGED <<params, results, values, common_prng, locals, chan>>
  BY DEF Process, Enter
<1>2. PICK call \in Calls[p] : calls' = [calls EXCEPT ![p] = Append(@, call)]
  BY Zenon DEF Process
<1>3. /\ "receiver_data" \in InCall /\ "receiver_data" \in Stages /\ 1 \in Nat \ {0}
      /\ "receiver_data" \in Sizes /\ "receiver_data" \notin TwoWay
      /\ "receiver_data" \notin {"stash"} \cup Placed
      /\ "receiver_data" \notin {"hint_stash"} \cup Hinted
      /\ "receiver_data" \notin Placed /\ "receiver_data" \notin Hinted
      /\ "receiver_data" \notin InInit
      /\ \A k \in DOMAIN Checked : "receiver_data" # Checked[k]
      /\ "idle" \notin InCall /\ "idle" \notin {"stash"} \cup Placed
      /\ "idle" \notin {"hint_stash"} \cup Hinted
  BY SizeStages, StagesAre DEF Rest, Sizes, InCall, Placed, Hinted, Compared
<1>4. /\ stage'[p] = "receiver_data" /\ io'[p] = Starts("receiver_data", p) /\ fid'[p] = 1
      /\ \A q \in Party \ {p} :
            stage'[q] = stage[q] /\ io'[q] = io[q] /\ fid'[q] = fid[q]
      /\ ~HasRead(p)' /\ ~HasWritten(p)'
  BY <1>1, <1>3, Entered
<1>5. /\ calls'[p] = Append(calls[p], call) /\ \A q \in Party \ {p} : calls'[q] = calls[q]
      /\ calls[p] \in Seq(Calls[p]) /\ calls'[p] \in Seq(Calls[p]) /\ DOMAIN calls' = Party
      /\ Len(calls'[p]) = Len(calls[p]) + 1 /\ Len(calls[p]) \in Nat
      /\ \A n \in DOMAIN calls'[p] : calls'[p][n] \in Calls[p]
  <2>1. DOMAIN calls = Party /\ calls[p] \in Seq(Calls[p])
    BY DEF CircuitInv, AreSequences
  <2> QED
    BY <1>2, <2>1
<1>6. UNCHANGED <<cuckoo_table, hint_table, stash_size, contents, opened, hint_features,
                  output_shares, sent, remote, peer_size>>
  BY <1>1 DEF locals, tables, values
<1>7. Others(p)
  <2>1. Peer(p) \in Party \ {p}
    BY TwoParties
  <2> QED
    BY <1>1, <1>4, <1>5, <1>6, <2>1 DEF Others
<1>8. Alone(p)
  BY <1>1, <1>4, <1>5, <1>7, CallStarts
<1>9. PICK n \in Nat : n = Number(p) /\ n + 1 = Number(p)' /\ n = Len(results[p]) /\ n < MaxCalls
  BY <1>1, <1>3, <1>5, CallNumber DEF Number
<1>10. Control(p) /\ Knows(p)
  BY DEF CircuitInv
<1>11. Control(p)'
  <2>1. common_prng[p] = [seed |-> {1, 2}, draws |-> Drawn(p, n + 1)]
    BY Zenon, <1>1, <1>3, <1>9, <1>10, CheckedIs DEF Control, Draws
  <2>2. Draws(p)' = Drawn(p, n + 1)
    <3>1. Draws(p)' = Drawn(p, n + 1)' + DrawsIn(p, "receiver_data")
      BY <1>3, <1>4, <1>9 DEF Draws
    <3>2. DrawsIn(p, "receiver_data") = 0
      BY TwoParties DEF DrawsIn, Sizes, Hinted, Opened, Compared
    <3>3. Drawn(p, n + 1)' = Drawn(p, n + 1)
      BY <1>1 DEF Drawn, Failures
    <3>4. Drawn(p, n + 1) \in Int
      BY DrawnType
    <3> QED
      BY <3>1, <3>2, <3>3, <3>4
  <2>3. output_shares[p] = <<>>
    BY <1>1, NoColumns
  <2>4. Starts("receiver_data", p)' = Starts("receiver_data", p)
    BY DEF Starts
  <2>5. n + 1 <= MaxCalls /\ n + 1 > 0 /\ n + 1 = Len(results'[p]) + 1
    BY <1>1, <1>9, CircuitBoundsAssumption
  <2> QED
    BY <1>1, <1>3, <1>4, <1>6, <1>9, <2>1, <2>2, <2>3, <2>4, <2>5, CheckedIs DEF Control
<1>12. Knows(p)'
  <2>1. \A k \in DOMAIN Checked : params[p][Checked[k]] = params[Peer(p)][Checked[k]]
    <3>1. ASSUME NEW k \in DOMAIN Checked
          PROVE  params[p][Checked[k]] = params[Peer(p)][Checked[k]]
      <4>1. stage[p] \notin {Checked[j] : j \in 1..k} \cup {"threw"}
        BY <1>1, <3>1, CheckedIs
      <4> QED
        BY <1>10, <3>1, <4>1 DEF Knows
    <3> QED
      BY <3>1
  <2>2. stage'[p] # "seed" /\ stage'[p] # "threw" /\ stage'[p] = "receiver_data"
        /\ stage'[p] \notin Placed /\ stage'[p] \notin Hinted
    BY <1>3, <1>4
  <2> QED
    BY <1>1, <1>3, <2>1, <2>2 DEF Knows
<1>13. \A d \in Party : Last(d, p)' = Last(d, p)
  <2>1. ASSUME NEW d \in Party
        PROVE  Last(d, p)' = Last(d, p)
    <3>1. Last(d, p) = LastOf(d, p, n)
      <4>1. stage[p] \notin TwoWay
        BY <1>1, TwoWayStages
      <4>2. Last(d, p) = Previous(d, p, n, "idle", fid[p])
        BY Zenon, <1>1, <1>9, <4>1, AtStart
      <4> QED
        BY <4>2, PreviousIs
    <3>2. Last(d, p)' = LastOf(d, p, n)'
      <4>1. Last(d, p)' = Previous(d, p, n + 1, "receiver_data", 1)'
        BY <1>4, <1>9 DEF Last
      <4>2. PICK l : l = n + 1 /\ l - 1 = n
        BY <1>9
      <4>3. Previous(d, p, l, "receiver_data", 1)' = LastOf(d, p, l - 1)'
        BY InitStages DEF Previous
      <4> QED
        BY <4>1, <4>2, <4>3
    <3>3. LastOf(d, p, n)' = LastOf(d, p, n)
      <4>1. n = 0 \/ n \in DOMAIN results[p]
        BY <1>9, CallNumber
      <4> QED
        BY <1>8, <4>1, LastOfLasts
    <3> QED
      BY <3>1, <3>2, <3>3
  <2> QED
    BY <2>1
<1>14. \A q \in Party : InOrder(q)'
  BY <1>1, <1>8, <1>13, QuietOrder
<1>15. TypeOK'
  <2>1. ControlType' /\ LocalsType'
    BY <1>1, <1>3, EnteredType, LocalsTypeStays DEF CircuitInv
  <2>2. CallsType' /\ ResultsType'
    BY Zenon, <1>1, <1>5, TypeParts DEF CircuitInv, CallsType, ResultsType
  <2>3. /\ peer_size' \in [Party -> [data : Nat, features : Nat]]
        /\ common_prng' \in [Party -> Prng]
    BY <1>1, <1>6 DEF CircuitInv, TypeOK
  <2>4. TypeOK' <=> /\ CallsType' /\ ResultsType' /\ ControlType' /\ LocalsType'
                    /\ peer_size' \in [Party -> [data : Nat, features : Nat]]
                    /\ common_prng' \in [Party -> Prng]
    BY Zenon DEF TypeOK, CallsType, ResultsType, ControlType, LocalsType, Stages
  <2> QED
    BY <2>1, <2>2, <2>3, <2>4
<1>16. AreSequences'
  <2>1. AreSequences
    BY DEF CircuitInv
  <2> QED
    BY Zenon, <1>1, <1>5, <1>6, <2>1 DEF AreSequences
<1>17. Ended'
  BY <1>1, <1>8, ResultsStay
<1>18. p = S => SenderLocals'
  BY <1>1, <1>3, <1>4, <1>6, NoHints
<1>19. p = R => ReceiverLocals'
  BY <1>1, <1>3, <1>4, <1>6, NoTable
<1> QED
  BY <1>8, <1>11, <1>12, <1>14, <1>15, <1>16, <1>17, <1>18, <1>19, Together

-----------------------------------------------------------------------------
(* The invariant.                                                          *)

LEMMA InitHolds == ASSUME Init PROVE CircuitInv
<1>1. /\ params \in [Party -> Params]
      /\ \A p \in Party :
            /\ calls[p] = <<>> /\ results[p] = <<>> /\ stage[p] = "epsilon" /\ fid[p] = 1
            /\ io[p] = First(p) /\ chan[p] = <<>> /\ stash_size[p] = 0
            /\ output_shares[p] = <<>> /\ peer_size[p] = [data |-> 0, features |-> 0]
            /\ common_prng[p] = [seed |-> {}, draws |-> 0]
      /\ cuckoo_table = <<>> /\ hint_table = <<>> /\ contents = <<>> /\ opened = {}
      /\ hint_features = <<>>
  BY CheckedIs DEF Init
<1>2. /\ "epsilon" \in Range(Checked) /\ "epsilon" \in TwoWay /\ "epsilon" \in InInit
      /\ "epsilon" \in Stages
  BY CheckedIs DEF TwoWay, InInit, Stages
<1>3. /\ "epsilon" \notin InCall /\ "epsilon" \notin Placed /\ "epsilon" \notin Hinted
      /\ "epsilon" \notin {"stash"} \cup Placed /\ "epsilon" \notin {"hint_stash"} \cup Hinted
      /\ "epsilon" \notin {"feature_hint", "multiplexer"} /\ "epsilon" \notin Opened
      /\ "epsilon" \notin Compared
  BY <1>2, StagesAre DEF InCall, Placed
<1>4. \A p \in Party : /\ Number(p) = 0 /\ DOMAIN results[p] = {} /\ DOMAIN calls[p] = {}
                       /\ Len(results[p]) = 0 /\ Len(chan[p]) = 0
  BY <1>1 DEF Number
<1>5. \A p \in Party : /\ Starts("epsilon", p) = First(p) /\ First(p) \in {"send", "recv"}
                       /\ Starts(stage[p], p) = First(p)
  BY <1>1, <1>2, CheckedIs DEF Starts, First, Rest
<1>6. \A p \in Party : ~HasRead(p) /\ ~HasWritten(p)
  BY <1>1, <1>5 DEF HasRead, HasWritten
<1>7. TypeOK
  <2>1. stage \in [Party -> Stages] /\ io \in [Party -> {"send", "recv", "done", "none"}]
        /\ fid \in [Party -> Nat \ {0}]
    BY <1>2, CheckedIs DEF Init, First
  <2>2. /\ peer_size \in [Party -> [data : Nat, features : Nat]]
        /\ common_prng \in [Party -> Prng]
    BY DEF Init, Prng
  <2>3. /\ stash_size \in [Party -> Nat] /\ output_shares \in [Party -> Seq(Seq(Word))]
        /\ cuckoo_table \in Seq([bin : Nat \ {0}, mask : Masks]) /\ contents \in Seq(Randoms)
        /\ DOMAIN hint_table = {} /\ DOMAIN hint_features = {}
    BY DEF Init
  <2> QED
    BY <1>1, <1>4, <2>1, <2>2, <2>3 DEF TypeOK, Stages
<1>8. AreSequences
  <2>1. /\ DOMAIN chan = Party /\ DOMAIN calls = Party /\ DOMAIN results = Party
        /\ DOMAIN sent = Party /\ DOMAIN remote = Party
    BY DEF Init
  <2>2. \A T : <<>> \in Seq(T)
    OBVIOUS
  <2> QED
    BY Zenon, <1>1, <2>1, <2>2 DEF AreSequences
<1>9. ASSUME NEW p \in Party
      PROVE  Control(p)
  <2>1. MaxCalls \in Nat
    BY CircuitBoundsAssumption
  <2>2. Draws(p) = 0
    <3>1. PICK n : n = Number(p) + 1 /\ n = 1
      BY <1>4
    <3>2. \A table : Failures(p, table, n - 1) = 0
      <4>1. \A table : {k \in 1..(n - 1) : results[p][k] = [threw |-> table]} = {}
        BY <3>1
      <4> QED
        BY <4>1, FS_EmptySet DEF Failures
    <3>3. Drawn(p, n) = 0
      BY <3>1, <3>2 DEF Drawn
    <3> QED
      BY <1>1, <1>3, <3>1, <3>3 DEF Draws
  <2>3. common_prng[p] = [seed |-> IF stage[p] \in Range(Checked) \cup {"seed", "threw"}
                                   THEN {} ELSE {1, 2},
                          draws |-> Draws(p)]
    BY Zenon, <1>1, <1>2, <2>2
  <2>4. IF stage[p] \in TwoWay THEN io[p] # "none" ELSE io[p] = Starts(stage[p], p)
    BY <1>1, <1>2, <1>5
  <2>5. /\ stage[p] \notin InCall /\ Number(p) = 0 /\ Len(results[p]) = 0 /\ 0 <= MaxCalls
        /\ stage[p] # "hint_hash" /\ stage[p] # "multiplexer" /\ output_shares[p] = <<>>
        /\ stage[p] \notin {"feature_hint", "multiplexer"} /\ fid[p] = 1
    BY <1>1, <1>3, <1>4, <2>1
  <2> QED
    BY <2>3, <2>4, <2>5 DEF Control
<1>10. ASSUME NEW p \in Party
       PROVE  Knows(p)
  <2>1. /\ stage[p] = "epsilon"
        /\ \A k \in DOMAIN Checked : /\ stage[p] \in {Checked[j] : j \in 1..k}
                                     /\ stage[p] = Checked[k] => 1..(k - 1) = {}
    <3>1. ASSUME NEW k \in DOMAIN Checked
          PROVE  /\ "epsilon" \in {Checked[j] : j \in 1..k}
                 /\ "epsilon" = Checked[k] => 1..(k - 1) = {}
      <4>1. k \in 1..4 /\ 1 \in 1..k /\ (k = 1 => 1..(k - 1) = {})
        BY <3>1, CheckedIs
      <4> QED
        BY <3>1, <4>1, CheckedIs
    <3> QED
      BY <1>1, <3>1
  <2> QED
    BY <1>3, <1>6, <2>1 DEF Knows
<1>11. ASSUME NEW q \in Party
       PROVE  InOrder(q)
  <2>1. Last(q, q) = Last(q, Peer(q))
    <3>1. \A p \in Party : Last(q, p) = Place(0, InitBefore("epsilon"), 1)
      <4>1. ASSUME NEW p \in Party
            PROVE  Last(q, p) = Place(0, InitBefore("epsilon"), 1)
        <5>1. Last(q, p) = Previous(q, p, Number(p), "epsilon", fid[p])
          BY <1>1, <1>6, <4>1 DEF Last
        <5> QED
          BY <1>2, <5>1, PreviousInInit
      <4> QED
        BY <4>1
    <3> QED
      BY <3>1, TwoParties
  <2>2. Len(chan[q]) = 0
    BY <1>4
  <2>3. PICK numbers : numbers = [i \in 1..Len(chan[q]) |-> 0]
    BY Zenon
  <2>4. numbers \in [1..Len(chan[q]) -> 0..MaxCalls] /\ 1..Len(chan[q]) = {}
    BY <2>2, <2>3
  <2> QED
    BY Zenon, <2>1, <2>2, <2>4 DEF InOrder
<1>12. SenderLocals
  BY <1>1, <1>3, <1>6, TwoParties DEF SenderLocals
<1>13. ReceiverLocals
  BY <1>1, <1>3, <1>4, <1>6, TwoParties DEF ReceiverLocals
<1>14. Ended
  BY <1>4, TwoParties DEF Ended
<1> QED
  BY <1>7, <1>8, <1>9, <1>10, <1>11, <1>12, <1>13, <1>14 DEF CircuitInv

LEMMA StutterKeeps ==
    ASSUME CircuitInv, UNCHANGED vars
    PROVE  CircuitInv'
<1>1. /\ UNCHANGED <<params, calls, results, stage, fid, io, sent, remote, peer_size,
                     common_prng, cuckoo_table, hint_table, stash_size, contents, opened,
                     hint_features, output_shares, chan>>
  BY DEF vars, values, locals, tables
<1>2. PICK p \in Party : p = S
  BY TwoParties
<1>3. Others(p)
  BY <1>1 DEF Others
<1>4. Alone(p)
  <2>1. \A k \in DOMAIN Checked : Reached(p, k) => Reached(p, k)'
    BY <1>1 DEF Reached
  <2> QED
    BY <1>1, <1>3, <2>1, MovesOn
<1>5. /\ TypeOK' /\ AreSequences'
  BY Zenon, <1>1 DEF CircuitInv, TypeOK, AreSequences, Threw, Ideal!Thrown
<1>6. \A r : Features(r)' = Features(r) /\ HintsOf(r)' = HintsOf(r) /\ MasksOf(r)' = MasksOf(r)
             /\ BinsOf(r)' = BinsOf(r)
  BY <1>1 DEF Features, HintsOf, MasksOf, BinsOf, Drawn, Failures
<1>7. Draws(p)' = Draws(p) /\ Number(p)' = Number(p) /\ Starts(stage[p], p)' = Starts(stage[p], p)
  BY <1>1 DEF Draws, Drawn, Failures, DrawsIn, Number, Starts
<1>8. HasRead(p)' = HasRead(p) /\ HasWritten(p)' = HasWritten(p)
  BY <1>1, <1>7 DEF HasRead, HasWritten
<1>9. Control(p)'
  <2>1. Control(p)
    BY DEF CircuitInv
  <2> QED
    BY <1>1, <1>6, <1>7, <2>1 DEF Control
<1>10. Knows(p)'
  <2>1. Knows(p)
    BY DEF CircuitInv
  <2>2. /\ \A k : (Reached(Peer(p), k)' <=> Reached(Peer(p), k)) /\ (Differ(k)' <=> Differ(k))
        /\ \A n : (ThroughStash(n)' <=> ThroughStash(n)) /\ (ThroughHint(n)' <=> ThroughHint(n))
    BY <1>1 DEF Reached, Differ, ThroughStash, ThroughHint, Threw, Ideal!Thrown, Number
  <2> QED
    BY <1>1, <1>7, <1>8, <2>1, <2>2 DEF Knows
<1>11. \A q \in Party : InOrder(q)'
  <2>1. ASSUME NEW d \in Party
        PROVE  Last(d, p)' = Last(d, p)
    BY <1>1 DEF Last, HasRead, HasWritten, Starts, Number, Previous, LastOf, Features,
                FirstDifference, Differ
  <2> QED
    BY <1>1, <1>4, <2>1, QuietOrder
<1>12. Ended'
  BY <1>1, <1>4, ResultsStay
<1>13. p = S => SenderLocals'
  <2>1. SenderLocals
    BY DEF CircuitInv
  <2> QED
    BY <1>1, <1>2, <1>6, <1>7, <1>8, <2>1 DEF SenderLocals
<1> QED
  BY <1>2, <1>4, <1>5, <1>9, <1>10, <1>11, <1>12, <1>13, Together, TwoParties

LEMMA NextHolds ==
    ASSUME CircuitInv, Next \/ UNCHANGED vars
    PROVE  CircuitInv'
<1>1. CASE UNCHANGED vars
  BY <1>1, StutterKeeps
<1>2. ASSUME NEW p \in Party, Process(p)
      PROVE  CircuitInv'
  BY <1>2, ProcessKeeps
<1>3. ASSUME NEW p \in Party, Step(p)
      PROVE  CircuitInv'
  <2>1. CASE SendValue(p) \/ RecvValue(p)
    BY <2>1, SendValueKeeps, RecvValueKeeps
  <2>2. CASE CheckParam(p) \/ CreateCommonPrng(p) \/ FinishInit(p)
    BY <2>2, CheckParamKeeps, CreateCommonPrngKeeps, FinishInitKeeps
  <2>3. CASE SendSize(p) \/ RecvSize(p)
    BY <2>3, SendSizeKeeps, RecvSizeKeeps
  <2>4. CASE SenderStep
    BY <2>4, SimpleHashKeeps, RecvStashSizeKeeps, OtSendKeeps, HintHashKeeps,
       SendHintStashSizeKeeps, SendHintKeeps, SendFeatureHintKeeps DEF SenderStep
  <2>5. CASE ReceiverStep
    BY <2>5, CuckooHashKeeps, SendStashSizeKeeps, OtReceiveKeeps, RecvHintStashSizeKeeps,
       RecvHintKeeps, RecvFeatureHintKeeps DEF ReceiverStep
  <2>6. CASE EqualDone(p) \/ MultiplexerDone(p)
    BY <2>6, EqualDoneKeeps, MultiplexerDoneKeeps
  <2> QED
    BY <1>3, <2>1, <2>2, <2>3, <2>4, <2>5, <2>6 DEF Step
<1> QED
  BY <1>1, <1>2, <1>3 DEF Next

-----------------------------------------------------------------------------
(* The order of the comparisons.                                           *)

\* Calls and results are numbered.
Numbered(p) ==
    /\ Number(p) \in Nat /\ DOMAIN calls[p] = 1..Number(p)
    /\ Len(results[p]) \in Nat /\ DOMAIN results[p] = 1..Len(results[p])
    /\ stage[p] \in InCall => Number(p) = Len(results[p]) + 1
    /\ stage[p] \notin InCall => Number(p) = Len(results[p])
    /\ DOMAIN results[p] \subseteq DOMAIN calls[p]
    /\ stage[p] \in InCall => Number(p) \in DOMAIN calls[p] /\ Number(p) \notin DOMAIN results[p]
    /\ \A n \in DOMAIN results[p] : n \in DOMAIN calls[S] /\ n \in DOMAIN calls[R]

LEMMA CallsNumbered == CircuitInv => \A x \in Party : Numbered(x)
BY CallNumber, TwoParties DEF Numbered

\* In a comparison the sender writes first, and the receiver reads first.
TakesTurns(p) ==
    stage[p] \in Compared =>
        /\ Number(p) \in DOMAIN calls[S] /\ Number(p) \in DOMAIN calls[R]
        /\ Number(p) \notin DOMAIN results[p]
        /\ Features(Number(p)) \in Nat /\ Turn(p) \in 0..Features(Number(p))
        /\ stage[p] = "equal" => Turn(p) = 0 /\ fid[p] = 1
        /\ stage[p] = "multiplexer" => Turn(p) = fid[p] /\ Turn(p) # 0
        /\ io[p] \in {"send", "recv", "done"}
        /\ p = S => /\ HasWritten(S) <=> io[S] \in {"recv", "done"}
                    /\ HasRead(S) <=> io[S] = "done"
        /\ p = R => /\ HasRead(R) <=> io[R] \in {"send", "done"}
                    /\ HasWritten(R) <=> io[R] = "done"
        /\ output_shares[p] \in Seq(Seq(Word)) /\ Len(output_shares[p]) = Turn(p)
        /\ DOMAIN output_shares[p] = 1..Turn(p)

LEMMA InTurn == CircuitInv => \A x \in Party : TakesTurns(x)
<1> SUFFICES ASSUME CircuitInv, NEW p \in Party, stage[p] \in Compared
             PROVE  TakesTurns(p)
  BY DEF TakesTurns
<1>1. /\ Number(p) \in DOMAIN calls[S] /\ Number(p) \in DOMAIN calls[R]
      /\ Number(p) \notin DOMAIN results[p] /\ Features(Number(p)) \in Nat
  BY ComparedSizes
<1>2. Control(p)
  BY DEF CircuitInv
<1>3. /\ stage[p] = "equal" \/ stage[p] = "multiplexer"
      /\ stage[p] = "equal" => fid[p] = 1
      /\ stage[p] = "multiplexer" => fid[p] \in 1..Features(Number(p))
      /\ io[p] # "none"
      /\ stage[p] = "multiplexer" => Len(output_shares[p]) = fid[p]
      /\ stage[p] = "equal" => output_shares[p] = <<>>
  BY <1>2 DEF Control, Compared, TwoWay
<1>4. Turn(p) \in 0..Features(Number(p))
      /\ (stage[p] = "equal" => Turn(p) = 0 /\ fid[p] = 1)
      /\ (stage[p] = "multiplexer" => Turn(p) = fid[p] /\ Turn(p) # 0)
  BY <1>1, <1>3 DEF Turn
<1>5. io[p] \in {"send", "recv", "done"} /\ output_shares[p] \in Seq(Seq(Word))
  BY <1>3 DEF CircuitInv, TypeOK
<1>6. Starts(stage[p], p) = First(p)
  BY <1>3, CheckedIs DEF Starts, Rest
<1>7. (p = S => Starts(stage[p], p) = "send") /\ (p = R => Starts(stage[p], p) = "recv")
  BY <1>6 DEF First, S, R
<1>8. Len(output_shares[p]) = Turn(p) /\ DOMAIN output_shares[p] = 1..Turn(p)
  BY <1>3, <1>4, <1>5
<1> QED
  BY <1>1, <1>4, <1>5, <1>7, <1>8 DEF HasRead, HasWritten, TakesTurns

\* A sender past its second table has a receiver that is past its first one in
\* the same call, or has returned from it; a receiver that has read the hints has
\* a sender past its second table.
LEMMA Meeting ==
    CircuitInv =>
        /\ stage[S] \in Hinted =>
              Returned(R, Number(S)) \/ (Number(R) = Number(S) /\ stage[R] \in Placed)
        /\ stage[R] \in Opened =>
              Returned(S, Number(R)) \/ (Number(S) = Number(R) /\ stage[S] \in Hinted)
<1> SUFFICES ASSUME CircuitInv
             PROVE  /\ stage[S] \in Hinted =>
                          Returned(R, Number(S)) \/ (Number(R) = Number(S) /\ stage[R] \in Placed)
                    /\ stage[R] \in Opened =>
                          Returned(S, Number(R)) \/ (Number(S) = Number(R) /\ stage[S] \in Hinted)
  OBVIOUS
<1>1. Compared \subseteq Opened /\ Opened \subseteq Hinted /\ Hinted \subseteq Placed
      /\ Placed \subseteq InCall
  BY StagesAre
<1>2. ASSUME stage[S] \in Hinted
      PROVE  Returned(R, Number(S)) \/ (Number(R) = Number(S) /\ stage[R] \in Placed)
  <2>1. PICK n : n = Number(S)
    OBVIOUS
  <2>2. ThroughStash(n)
    BY <1>1, <1>2, <2>1, Through
  <2>3. n \notin DOMAIN results[S]
    BY <1>1, <1>2, <2>1, CallsNumbered, TwoParties DEF Numbered
  <2>4. n \in DOMAIN results[R] => results[R][n] # Stashed /\ results[R][n] # HintStashed
    BY <2>2, <2>3 DEF ThroughStash, CircuitInv, Ended
  <2> QED
    BY <2>1, <2>2, <2>4, ThrewIs DEF ThroughStash, Returned
<1>3. ASSUME stage[R] \in Opened
      PROVE  Returned(S, Number(R)) \/ (Number(S) = Number(R) /\ stage[S] \in Hinted)
  BY <1>1, <1>3, Through DEF ThroughHint, Returned
<1> QED
  BY <1>2, <1>3

\* Who has written has read at the receiver, and who has read has written at the
\* sender; and what is past one comparison is past those before it.
LEMMA InOneTurn ==
    CircuitInv => \A n, c :
        /\ Spoken(R, n, c) => Heard(R, n, c)
        /\ Heard(S, n, c) => Spoken(S, n, c)
BY InTurn, TwoParties DEF Spoken, Heard, TakesTurns

LEMMA EarlierHeard ==
    CircuitInv => \A p \in Party : \A n : \A c \in Int, d \in Int :
        d < c /\ Heard(p, n, c) => Past(p, n, d)
<1> SUFFICES ASSUME CircuitInv, NEW p \in Party, NEW n, NEW c \in Int, NEW d \in Int,
                    d < c, Heard(p, n, c)
             PROVE  Past(p, n, d)
  OBVIOUS
<1>1. stage[p] \in Compared => Turn(p) \in Int
  BY InTurn DEF TakesTurns
<1> QED
  BY <1>1 DEF Heard, Past

LEMMA BitsAddUp ==
    ASSUME NEW x \in Int, NEW k \in {0, 1}
    PROVE  ((x % 2) + ((x + k) % 2)) % 2 = k
OBVIOUS

LEMMA Quotients ==
    ASSUME NEW m \in Nat \ {0}, NEW a \in Int
    PROVE  /\ a \div m \in Int /\ a % m \in 0..(m - 1)
           /\ a = m * (a \div m) + (a % m)
OBVIOUS

LEMMA OneRemainder ==
    ASSUME NEW m \in Nat \ {0}, NEW q \in Int, NEW r \in 0..(m - 1), NEW t \in Int, NEW u \in 0..(m - 1),
           m * q + r = m * t + u
    PROVE  r = u
<1>1. CASE q = t
  BY <1>1
<1>2. CASE q >= t + 1
  <2>1. m * q >= m * (t + 1)
    BY <1>2
  <2>2. m * (t + 1) = m * t + m
    OBVIOUS
  <2> QED
    BY <2>1, <2>2
<1>3. CASE t >= q + 1
  <2>1. m * t >= m * (q + 1)
    BY <1>3
  <2>2. m * (q + 1) = m * q + m
    OBVIOUS
  <2> QED
    BY <2>1, <2>2
<1> QED
  BY <1>1, <1>2, <1>3

\* Whatever differs by a multiple of m leaves the same.
LEMMA SameRemainder ==
    ASSUME NEW m \in Nat \ {0}, NEW a \in Int, NEW b \in Int, NEW q \in Int, a = b + m * q
    PROVE  a % m = b % m
<1>1. /\ a \div m \in Int /\ a % m \in 0..(m - 1) /\ a = m * (a \div m) + (a % m)
      /\ b \div m \in Int /\ b % m \in 0..(m - 1) /\ b = m * (b \div m) + (b % m)
  BY Quotients
<1>2. PICK x, y, r, u : x = a \div m /\ y = b \div m /\ r = a % m /\ u = b % m
  OBVIOUS
<1>3. x \in Int /\ y \in Int /\ r \in 0..(m - 1) /\ u \in 0..(m - 1)
      /\ m * x + r = m * y + u + m * q
  BY <1>1, <1>2
<1>4. m * (y + q) = m * y + m * q /\ y + q \in Int
  BY <1>3
<1>5. m * x + r = m * (y + q) + u
  <2>1. m * x \in Int /\ m * y \in Int /\ m * q \in Int
    BY <1>3
  <2> QED
    BY <1>3, <1>4, <2>1
<1> QED
  BY ZenonT(60), <1>2, <1>3, <1>4, <1>5, OneRemainder

LEMMA RemaindersAdd ==
    ASSUME NEW m \in Nat \ {0}, NEW a \in Int, NEW b \in Int
    PROVE  ((a % m) + (b % m)) % m = (a + b) % m
<1>1. /\ a \div m \in Int /\ a % m \in 0..(m - 1) /\ a = m * (a \div m) + (a % m)
      /\ b \div m \in Int /\ b % m \in 0..(m - 1) /\ b = m * (b \div m) + (b % m)
  BY Quotients
<1>2. PICK x, y, r, u : x = a \div m /\ y = b \div m /\ r = a % m /\ u = b % m
  OBVIOUS
<1>3. x \in Int /\ y \in Int /\ r \in Int /\ u \in Int /\ a = m * x + r /\ b = m * y + u
  BY <1>1, <1>2
<1>4. m * (x + y) = m * x + m * y /\ m * x \in Int /\ m * y \in Int /\ x + y \in Int
  BY <1>3
<1>5. PICK s, t, q : s = a + b /\ t = r + u /\ q = x + y
  OBVIOUS
<1>6. s \in Int /\ t \in Int /\ q \in Int /\ s = t + m * q
  BY <1>3, <1>4, <1>5
<1>7. s % m = t % m
  BY <1>6, SameRemainder
<1>8. (a + b) % m = s % m /\ ((a % m) + (b % m)) % m = t % m
  BY <1>2, <1>5
<1> QED
  BY <1>7, <1>8

\* A word is its own remainder.
LEMMA WordRemains ==
    ASSUME NEW w \in Word
    PROVE  w % Modulus = w
<1>1. Modulus \in Nat \ {0} /\ w \in 0..(Modulus - 1)
  BY CircuitBoundsAssumption DEF Word
<1>2. w % Modulus \in 0..(Modulus - 1) /\ w \div Modulus \in Int
      /\ w = Modulus * (w \div Modulus) + (w % Modulus)
  BY <1>1, Quotients
<1>3. Modulus * 0 + w = Modulus * (w \div Modulus) + (w % Modulus)
  BY <1>1, <1>2
<1> QED
  BY <1>1, <1>2, <1>3, OneRemainder

\* What is left of a feature, together with its content, and a random number of
\* times the random share, make the feature.
LEMMA SharesAddUp ==
    ASSUME NEW feature \in Word, NEW content \in Int, NEW random \in Int
    PROVE  ((random % Modulus)
             + (((((feature - content) % Modulus) + content) - random) % Modulus)) % Modulus
              = feature
<1>1. Modulus \in Nat \ {0} /\ feature \in Int
  BY CircuitBoundsAssumption DEF Word
<1>2. PICK h, k, m : h = (feature - content) % m /\ k = (h + content) - random /\ m = Modulus
  OBVIOUS
<1>3. feature - content \in Int /\ m \in Nat \ {0}
  BY <1>1, <1>2
<1>4. h \in Int /\ k \in Int /\ (feature - content) \div m \in Int
      /\ feature - content = m * ((feature - content) \div m) + h
  BY <1>1, <1>2, <1>3, Quotients
<1>5. ((random % m) + (k % m)) % m = (random + k) % m
  BY <1>1, <1>3, <1>4, RemaindersAdd
<1>6. PICK q : q = (feature - content) \div m
  OBVIOUS
<1>7. q \in Int /\ feature - content = m * q + h
  BY <1>4, <1>6
<1>8. PICK s : s = random + k
  OBVIOUS
<1>9. s \in Int /\ feature = s + m * q
  <2>1. m * q \in Int
    BY <1>3, <1>7
  <2>2. k = (h + content) - random
    BY <1>2
  <2> QED
    BY <1>1, <1>4, <1>7, <1>8, <2>1, <2>2
<1>10. feature % m = s % m
  BY <1>1, <1>3, <1>7, <1>9, SameRemainder
<1>11. feature % m = feature
  BY <1>2, WordRemains
<1> QED
  BY <1>2, <1>5, <1>8, <1>10, <1>11

\* Without a feature, the two random numbers cancel.
LEMMA SharesCancel ==
    ASSUME NEW random \in Int
    PROVE  ((random % Modulus) + ((0 - random) % Modulus)) % Modulus = 0
<1>1. Modulus \in Nat \ {0} /\ 0 \in Word /\ 0 - random \in Int
  BY CircuitBoundsAssumption DEF Word
<1>2. ((random % Modulus) + ((0 - random) % Modulus)) % Modulus = (random + (0 - random)) % Modulus
  BY <1>1, RemaindersAdd
<1>3. random + (0 - random) = 0 /\ 0 % Modulus = 0
  BY <1>1, WordRemains
<1> QED
  BY <1>2, <1>3

-----------------------------------------------------------------------------
(* Columns.                                                                *)

\* A feature is a word, that of the one place its key has.
LEMMA FeatureIs ==
    ASSUME CircuitInv, NEW n \in DOMAIN calls[S], NEW f \in 1..Features(n),
           NEW j \in DOMAIN calls[S][n].keys
    PROVE  /\ FeatureAt(n, f, calls[S][n].keys[j]) = calls[S][n].features[f][j]
           /\ calls[S][n].features[f][j] \in Word
<1>1. calls[S][n] \in Calls[S]
  BY Numbers, TwoParties DEF CircuitInv
<1>2. PICK call \in Calls[S] : call = calls[S][n]
  BY <1>1
<1>3. /\ call.keys \in Seq(Keys) /\ Len(call.features) \in Nat
      /\ \A i, k \in DOMAIN call.keys : call.keys[i] = call.keys[k] => i = k
      /\ call.features \in Seq([DOMAIN call.keys -> Word])
  BY CallIs, TwoParties
<1>4. f \in DOMAIN call.features /\ j \in DOMAIN call.keys
  BY <1>2, <1>3 DEF Features
<1>5. call.features[f] \in [DOMAIN call.keys -> Word]
  BY <1>3, <1>4, ElementOfSeq
<1>6. (CHOOSE i \in DOMAIN call.keys : call.keys[i] = call.keys[j]) = j
  BY <1>3, <1>4
<1>7. FeatureAt(n, f, call.keys[j]) = call.features[f][j]
  BY <1>2, <1>6 DEF FeatureAt
<1> QED
  BY <1>2, <1>4, <1>5, <1>7

\* Where a hint is opened, the sender has the key.
LEMMA OpenedKeys ==
    ASSUME CircuitInv, stage[R] \in Opened, NEW o \in opened, NEW n, n = Number(R)
    PROVE  /\ o[1] \in DOMAIN cuckoo_table /\ o[1] \in DOMAIN calls[R][n].keys
           /\ KeyOf(o) = calls[R][n].keys[o[1]]
           /\ cuckoo_table[o[1]].mask.key = KeyOf(o) /\ cuckoo_table[o[1]].mask \in MasksOf(n)
           /\ \E j \in DOMAIN calls[S][n].keys : calls[S][n].keys[j] = KeyOf(o)
<1>1. stage[R] \in Placed /\ TableOf(n) /\ cuckoo_table[o[1]].mask \in MasksOf(n)
  BY StagesAre DEF CircuitInv, ReceiverLocals
<1>2. o[1] \in DOMAIN cuckoo_table
  BY DEF CircuitInv, TypeOK
<1>3. o[1] \in DOMAIN calls[R][n].keys
      /\ \E f \in 1..params[R].num_of_fun :
           cuckoo_table[o[1]].mask = Mask(Stream(Drawn(R, n) + 1), f, calls[R][n].keys[o[1]])
  BY <1>1, <1>2 DEF TableOf
<1>4. KeyOf(o) = calls[R][n].keys[o[1]]
  BY DEF KeyOf, Current
<1>5. cuckoo_table[o[1]].mask.key = KeyOf(o)
  BY <1>3, <1>4 DEF Mask
<1>6. PICK mask : mask = cuckoo_table[o[1]].mask
  OBVIOUS
<1>7. mask.key \in Range(calls[S][n].keys)
  <2>1. PICK key \in Range(calls[S][n].keys), f \in 1..params[S].num_of_fun :
           mask = Mask(Stream(Drawn(S, n) + 1), f, key)
    BY <1>1, <1>6 DEF MasksOf
  <2> QED
    BY <2>1 DEF Mask
<1>8. \E j \in DOMAIN calls[S][n].keys : calls[S][n].keys[j] = mask.key
  BY <1>7 DEF Range
<1> QED
  BY <1>1, <1>2, <1>3, <1>4, <1>5, <1>6, <1>8

\* The columns a party has had in this call, and the one it is at.
LEMMA ColumnIs ==
    CircuitInv => \A p \in Party : stage[p] \in Compared =>
        /\ \A c \in 0..(Turn(p) - 1) :
              Column(p, Number(p), c) = output_shares[p][c + 1]
        /\ stage[p] = "equal" => Column(p, Number(p), 0) = Equal(p)
        /\ stage[p] = "multiplexer" => Column(p, Number(p), Turn(p)) = Multiplexer(p)
<1> SUFFICES ASSUME CircuitInv, NEW p \in Party, stage[p] \in Compared
             PROVE  /\ \A c \in 0..(Turn(p) - 1) :
                          Column(p, Number(p), c) = output_shares[p][c + 1]
                    /\ stage[p] = "equal" => Column(p, Number(p), 0) = Equal(p)
                    /\ stage[p] = "multiplexer" => Column(p, Number(p), Turn(p)) = Multiplexer(p)
  OBVIOUS
<1>1. PICK n, t : n = Number(p) /\ t = Turn(p)
  OBVIOUS
<1>2. n \notin DOMAIN results[p] /\ t \in Nat /\ DOMAIN output_shares[p] = 1..t
      /\ (stage[p] = "equal" => t = 0)
  BY <1>1, InTurn DEF TakesTurns
<1>3. ASSUME NEW c \in 0..(t - 1)
      PROVE  Column(p, n, c) = output_shares[p][c + 1]
  <2>1. c + 1 \in 1..t
    BY <1>2
  <2> QED
    BY <1>2, <2>1 DEF Column
<1>4. t + 1 \notin DOMAIN output_shares[p]
  BY <1>2
<1>5. stage[p] = "equal" => Column(p, n, 0) = Equal(p)
  BY <1>2, <1>4 DEF Column
<1>6. stage[p] = "multiplexer" => Column(p, n, t) = Multiplexer(p)
  BY <1>2, <1>4 DEF Column
<1> QED
  BY <1>1, <1>3, <1>5, <1>6

\* The two are in the same comparison, and the receiver has read.
InStep ==
    /\ stage[R] \in Compared /\ stage[S] = stage[R] /\ fid[S] = fid[R]
    /\ Number(S) = Number(R) /\ HasWritten(S) /\ HasRead(R) /\ remote[R] = sent[S]

\* Then the bits of the two add up to whether the receiver has opened a hint.
LEMMA BitsFit ==
    ASSUME CircuitInv, InStep, stage[R] = "equal", NEW n, n = Number(R), NEW b \in 1..BinsOf(n)
    PROVE  Added(n, 0, b) = Held(n, 0, b)
<1>1. stage[R] \in Compared /\ stage[S] \in Compared /\ stage[S] = "equal"
      /\ n = Number(S) /\ n = Number(R)
  BY DEF InStep
<1>2. Bins(S) = BinsOf(n) /\ Bins(R) = BinsOf(n) /\ params[S] = params[R]
  BY <1>1, BinsAgree, StagesAre, TwoParties
<1>3. PICK fun \in Nat : fun = params[R].num_of_fun_hint
  BY <1>1, ComparedSizes, TwoParties
<1>4. PICK bit \in {0, 1} : bit = remote[R] /\ bit = sent[S]
  BY <1>1 DEF InStep, CircuitInv, ReceiverLocals
<1>5. Equal(S)[b] = (fun * bit + 0) % 2
  <2>1. Equal(S) = [x \in 1..Bins(S) |-> (fun * bit + 0) % 2]
    BY <1>2, <1>3, <1>4 DEF Equal, S
  <2> QED
    BY <1>2, <2>1
<1>6. Equal(R)[b] = (fun * bit + Cardinality(OpenedIn(b))) % 2
  <2>1. Equal(R) = [x \in 1..Bins(R) |-> (fun * bit + Cardinality(OpenedIn(x))) % 2]
    BY <1>3, <1>4 DEF Equal, R
  <2> QED
    BY <1>2, <2>1
<1>7. /\ OpenedIn(b) = {} => Cardinality(OpenedIn(b)) = 0
      /\ OpenedIn(b) # {} => Cardinality(OpenedIn(b)) = 1
  <2>1. OpenedIn(b) = {} => Cardinality(OpenedIn(b)) = 0
    BY FS_EmptySet
  <2>2. ASSUME NEW o, OpenedIn(b) = {o} PROVE Cardinality(OpenedIn(b)) = 1
    <3>1. Cardinality({o}) = 1
      BY FS_Singleton
    <3> QED
      BY <2>2, <3>1
  <2> QED
    BY <1>1, <2>1, <2>2, OneInBin
<1>8. Held(n, 0, b) = Cardinality(OpenedIn(b)) /\ Cardinality(OpenedIn(b)) \in {0, 1}
  BY <1>7 DEF Held
<1>9. Column(S, n, 0) = Equal(S) /\ Column(R, n, 0) = Equal(R)
  BY <1>1, ColumnIs, TwoParties
<1>10. PICK x, k : x = fun * bit /\ k = Cardinality(OpenedIn(b))
  OBVIOUS
<1>11. ((x % 2) + ((x + k) % 2)) % 2 = k
  <2>1. x \in Int /\ k \in {0, 1}
    BY <1>4, <1>8, <1>10
  <2> QED
    BY <2>1, BitsAddUp
<1>12. Equal(S)[b] = x % 2 /\ Equal(R)[b] = (x + k) % 2
  <2>1. x \in Int /\ x + 0 = x
    BY <1>4, <1>10
  <2> QED
    BY <1>5, <1>6, <1>10, <2>1
<1>13. Added(n, 0, b) = ((x % 2) + ((x + k) % 2)) % 2
  BY <1>9, <1>12 DEF Added
<1> QED
  BY <1>8, <1>10, <1>11, <1>13

\* And the shares of a feature, to the feature where a hint is opened.
LEMMA FeaturesFit ==
    ASSUME CircuitInv, ContentSent, HintsHeld, InStep, stage[R] = "multiplexer",
           NEW n, n = Number(R), NEW f, f = fid[R], NEW b \in 1..BinsOf(n)
    PROVE  Added(n, f, b) = Held(n, f, b)
<1>1. stage[R] \in Compared /\ stage[S] \in Compared /\ stage[S] = "multiplexer"
      /\ n = Number(S) /\ n = Number(R) /\ f = fid[S]
      /\ Turn(S) = f /\ Turn(R) = f
  BY DEF InStep, Turn
<1>2. Bins(S) = BinsOf(n) /\ Bins(R) = BinsOf(n) /\ params[S] = params[R]
  BY <1>1, BinsAgree, StagesAre, TwoParties
<1>3. PICK fun \in Nat : fun = params[R].num_of_fun_hint
  BY <1>1, ComparedSizes, TwoParties
<1>4. n \in DOMAIN calls[S] /\ Features(n) \in Nat /\ f \in 1..Features(n)
  BY <1>1, InTurn, TwoParties DEF TakesTurns
<1>5. PICK input, share : input = remote[R].input /\ share = remote[R].share
                          /\ input = sent[S].input /\ share = sent[S].share
  BY DEF InStep
<1>6. input \in Word /\ share \in Word
  <2>1. remote[R] \in [input : Randoms, share : Randoms]
    BY DEF InStep, CircuitInv, ReceiverLocals
  <2> QED
    BY <1>5, <2>1, WordType
<1>7. input = contents[f]
  BY <1>1, <1>5 DEF ContentSent, InStep
<1>8. PICK random : random = fun * share
  OBVIOUS
<1>9. random \in Int /\ input \in Int
  BY <1>3, <1>6, <1>8, WordType
<1>10. Column(S, n, f) = Multiplexer(S) /\ Column(R, n, f) = Multiplexer(R)
  BY <1>1, ColumnIs, TwoParties
<1>11. Multiplexer(S)[b] = random % Modulus
       /\ Multiplexer(R)[b] = (Total(OpenedIn(b)) - random) % Modulus
  BY <1>2, <1>3, <1>5, <1>8, MultiplexerIs
<1>12. f # 0
  BY <1>4
<1>13. Added(n, f, b) = ((random % Modulus) + ((Total(OpenedIn(b)) - random) % Modulus)) % Modulus
  BY <1>10, <1>11, <1>12 DEF Added
<1>14. CASE OpenedIn(b) = {}
  <2>1. Total(OpenedIn(b)) = 0 /\ Held(n, f, b) = 0
    BY <1>14, TotalOfNone DEF Held
  <2> QED
    BY <1>9, <1>13, <2>1, SharesCancel
<1>15. ASSUME NEW o \in opened, OpenedIn(b) = {o}
       PROVE  Added(n, f, b) = Held(n, f, b)
  <2>1. stage[R] \in Opened /\ stage[S] \in Hinted
    BY <1>1, StagesAre
  <2>2. PICK feature : feature = FeatureAt(n, f, KeyOf(o))
    OBVIOUS
  <2>3. feature \in Word
    <3>1. PICK j \in DOMAIN calls[S][n].keys : calls[S][n].keys[j] = KeyOf(o)
      BY <1>1, <2>1, OpenedKeys
    <3> QED
      BY <1>4, <2>2, <3>1, FeatureIs
  <2>4. f \in DOMAIN hint_features
    <3>1. Len(hint_features) = Features(n) /\ hint_features \in Seq(Range(hint_features))
      BY <1>1 DEF CircuitInv, ReceiverLocals, AreSequences
    <3> QED
      BY <1>4, <3>1
  <2>5. hint_features[f][o] = (feature - input) % Modulus
    BY <1>1, <1>7, <2>1, <2>2, <2>4 DEF HintsHeld, Hidden
  <2>6. (hint_features[f][o] + input) + 0 = hint_features[f][o] + input
    <3>1. feature - input \in Int
      BY <1>9, <2>3, WordType
    <3>2. hint_features[f][o] \in Int
      BY <2>5, <3>1, RemainderType, WordType
    <3> QED
      BY <1>9, <3>2
  <2>7. Total(OpenedIn(b)) = ((feature - input) % Modulus) + input
    BY <1>5, <1>15, <2>5, <2>6, TotalOfOne
  <2>8. Held(n, f, b) = feature
    <3>1. OpenedIn(b) # {} /\ (CHOOSE x \in OpenedIn(b) : TRUE) = o
      BY <1>15
    <3> QED
      BY <1>12, <2>2, <3>1 DEF Held
  <2> QED
    BY <1>9, <1>13, <2>3, <2>7, <2>8, SharesAddUp
<1> QED
  BY <1>1, <1>14, <1>15, OneInBin

LEMMA TurnFits ==
    CircuitInv /\ ContentSent /\ HintsHeld /\ InStep =>
        \A b \in 1..BinsOf(Number(R)) :
            Added(Number(R), Turn(R), b) = Held(Number(R), Turn(R), b)
<1> SUFFICES ASSUME CircuitInv, ContentSent, HintsHeld, InStep, NEW b \in 1..BinsOf(Number(R))
             PROVE  Added(Number(R), Turn(R), b) = Held(Number(R), Turn(R), b)
  OBVIOUS
<1>1. stage[R] = "equal" \/ stage[R] = "multiplexer"
  BY DEF InStep, Compared
<1> QED
  BY <1>1, BitsFit, FeaturesFit DEF Turn

-----------------------------------------------------------------------------
(* Rows of the join.                                                       *)

\* w is s and then t.
After(T, s, t, w) ==
    /\ w \in Seq(T) /\ Len(w) = Len(s) + Len(t)
    /\ \A i \in 1..Len(s) : w[i] = s[i]
    /\ \A i \in 1..Len(t) : w[Len(s) + i] = t[i]

LEMMA Joining ==
    ASSUME NEW T, NEW s \in Seq(T), NEW t \in Seq(T)
    PROVE  After(T, s, t, s \o t)
<1> DEFINE w == s \o t
<1>1. PICK l \in Nat, k \in Nat : l = Len(s) /\ k = Len(t)
  BY LenProperties
<1>2. /\ w \in Seq(T) /\ Len(w) = l + k
      /\ \A i \in 1..(l + k) : w[i] = IF i <= l THEN s[i] ELSE t[i - l]
  BY <1>1, ConcatProperties
<1> HIDE DEF w
<1>3. ASSUME NEW i \in 1..l
      PROVE  w[i] = s[i]
  <2>1. i \in 1..(l + k) /\ i <= l
    OBVIOUS
  <2> QED
    BY <1>2, <2>1
<1>4. ASSUME NEW i \in 1..k
      PROVE  w[l + i] = t[i]
  <2>1. PICK d : d = l + i
    OBVIOUS
  <2>2. d \in 1..(l + k) /\ ~(d <= l) /\ d - l = i
    BY <2>1
  <2>3. w[d] = t[d - l]
    BY <1>2, <2>2
  <2> QED
    BY <2>1, <2>2, <2>3
<1>5. After(T, s, t, w)
  BY <1>1, <1>2, <1>3, <1>4 DEF After
<1> QED
  BY <1>5 DEF w

\* row is a bit and two pieces of features.
Pieces(x, l, k, u, v, row) ==
    /\ row \in [1..(1 + l + k) -> Word] /\ row[1] = x
    /\ \A c \in 1..l : row[c + 1] = u[c]
    /\ \A c \in 1..k : row[1 + l + c] = v[c]

LEMMA RowParts ==
    ASSUME NEW x \in Word, NEW l \in Nat, NEW k \in Nat,
           NEW u \in [1..l -> Word], NEW v \in [1..k -> Word]
    PROVE  Pieces(x, l, k, u, v, <<x>> \o u \o v)
<1>0. PICK row : row = <<x>> \o u \o v
  OBVIOUS
<1>1. u \in Seq(Word) /\ v \in Seq(Word) /\ Len(u) = l /\ Len(v) = k
  OBVIOUS
<1>2. PICK w : w = <<x>>
  OBVIOUS
<1>3. w \in Seq(Word) /\ Len(w) = 1 /\ w[1] = x
  BY <1>2
<1>4. PICK t : t = w \o u
  OBVIOUS
<1>5. /\ t \in Seq(Word) /\ Len(t) = 1 + l
      /\ \A i \in 1..1 : t[i] = w[i]
      /\ \A i \in 1..l : t[1 + i] = u[i]
  <2>1. After(Word, w, u, w \o u)
    BY <1>1, <1>3, Joining, Zenon
  <2>2. After(Word, w, u, t)
    BY <1>4, <2>1, Zenon
  <2> QED
    BY <1>1, <1>3, <2>2 DEF After
<1>6. PICK m \in Nat : m = 1 + l
  OBVIOUS
<1>7. row = t \o v
  BY <1>0, <1>2, <1>4
<1>8. /\ row \in Seq(Word) /\ Len(row) = m + k
      /\ \A i \in 1..m : row[i] = t[i]
      /\ \A i \in 1..k : row[m + i] = v[i]
  <2>1. After(Word, t, v, t \o v)
    BY <1>1, <1>5, Joining, Zenon
  <2>2. After(Word, t, v, row)
    BY <1>7, <2>1, Zenon
  <2> QED
    BY <1>1, <1>5, <1>6, <2>2 DEF After
<1>9. row \in [1..(m + k) -> Word]
  <2>1. row \in [1..Len(row) -> Word]
    BY <1>8, LenProperties
  <2> QED
    BY <1>8, <2>1
<1>10. row[1] = x
  <2>1. 1 \in 1..m /\ 1 \in 1..1
    BY <1>6
  <2> QED
    BY <1>3, <1>5, <1>8, <2>1
<1>11. ASSUME NEW c \in 1..l
       PROVE  row[c + 1] = u[c]
  <2>1. PICK d : d = c + 1 /\ d = 1 + c
    OBVIOUS
  <2>2. d \in 1..m
    BY <1>6, <2>1
  <2> QED
    BY <1>5, <1>8, <2>1, <2>2
<1>12. Pieces(x, l, k, u, v, row)
  BY <1>6, <1>8, <1>9, <1>10, <1>11 DEF Pieces
<1> QED
  BY <1>0, <1>12, Zenon

\* Where the sender has a key of the receiver's.
Places(n, key) == {j \in DOMAIN calls[S][n].keys : calls[S][n].keys[j] = key}

\* The row of the receiver's i-th key, cell by cell.
IsRow(n, i, row) ==
    LET key == calls[R][n].keys[i] IN
    /\ row \in [1..Width(n) -> Word]
    /\ row[1] = IF Places(n, key) # {} THEN 1 ELSE 0
    /\ \A c \in 1..Features(n) :
          row[c + 1] = IF Places(n, key) # {} THEN FeatureAt(n, c, key) ELSE 0
    /\ \A c \in 1..Len(calls[R][n].features) :
          row[1 + Features(n) + c] = calls[R][n].features[c][i]

LEMMA RowIs ==
    ASSUME CircuitInv, NEW n \in DOMAIN calls[S], n \in DOMAIN calls[R],
           NEW i \in DOMAIN calls[R][n].keys
    PROVE  IsRow(n, i, Ideal!RowOf(calls[S][n], calls[R][n], i))
<1>0. PICK row, key : row = Ideal!RowOf(calls[S][n], calls[R][n], i)
                      /\ key = calls[R][n].keys[i]
  OBVIOUS
<1>1. PICK sender \in Calls[S], receiver \in Calls[R] :
        sender = calls[S][n] /\ receiver = calls[R][n]
  BY Numbers, TwoParties DEF CircuitInv
<1>2. /\ Len(sender.features) \in Nat /\ sender.features \in Seq([DOMAIN sender.keys -> Word])
      /\ Len(receiver.features) \in Nat
      /\ receiver.features \in Seq([DOMAIN receiver.keys -> Word])
  BY CallIs, TwoParties
<1>3. PICK l \in Nat, k \in Nat : l = Len(sender.features) /\ k = Len(receiver.features)
  BY <1>2
<1>4. l = Features(n) /\ Width(n) = 1 + l + k /\ k = Len(calls[R][n].features)
  BY <1>1, <1>3 DEF Features, Width
<1>5. DOMAIN sender.features = 1..l /\ DOMAIN receiver.features = 1..k
  BY <1>2, <1>3
<1>6. PICK at : /\ at = {j \in DOMAIN sender.keys : sender.keys[j] = receiver.keys[i]}
                /\ row = <<IF at # {} THEN 1 ELSE 0>>
                            \o (IF at # {} THEN Ideal!FeaturesOf(sender, CHOOSE j \in at : TRUE)
                                ELSE [c \in DOMAIN sender.features |-> 0])
                            \o Ideal!FeaturesOf(receiver, i)
  <2> DEFINE A == {j \in DOMAIN sender.keys : sender.keys[j] = receiver.keys[i]}
  <2>1. row = Ideal!RowOf(sender, receiver, i)
    BY <1>0, <1>1
  <2>2. Ideal!RowOf(sender, receiver, i)
          = <<IF A # {} THEN 1 ELSE 0>>
              \o (IF A # {} THEN Ideal!FeaturesOf(sender, CHOOSE j \in A : TRUE)
                  ELSE [c \in DOMAIN sender.features |-> 0])
              \o Ideal!FeaturesOf(receiver, i)
    BY ZenonT(60) DEF Ideal!RowOf
  <2> QED
    BY <2>1, <2>2, Zenon
<1>7. at = Places(n, key)
  BY Zenon, <1>0, <1>1, <1>6 DEF Places
<1>8. 0 \in Word /\ 1 \in Word
  BY CircuitBoundsAssumption DEF Word
<1>9. PICK x, u, v :
        /\ x = IF at # {} THEN 1 ELSE 0
        /\ u = IF at # {} THEN Ideal!FeaturesOf(sender, CHOOSE j \in at : TRUE)
               ELSE [c \in DOMAIN sender.features |-> 0]
        /\ v = Ideal!FeaturesOf(receiver, i)
        /\ row = <<x>> \o u \o v
  BY <1>6, Zenon
<1>10. u = IF at # {} THEN Ideal!FeaturesOf(sender, CHOOSE j \in at : TRUE)
           ELSE [c \in DOMAIN sender.features |-> 0]
  BY <1>9, Zenon
<1>11. v = Ideal!FeaturesOf(receiver, i) /\ x = IF at # {} THEN 1 ELSE 0
  BY <1>9, Zenon
<1>12. row = <<x>> \o u \o v
  BY <1>9, Zenon
<1>13. u \in [1..l -> Word]
       /\ \A c \in 1..l : u[c] = IF at # {} THEN FeatureAt(n, c, key) ELSE 0
  <2>1. CASE at = {}
    BY <1>5, <1>8, <1>10, <2>1
  <2>2. CASE at # {}
    <3>1. PICK j \in at : j = CHOOSE y \in at : TRUE
      BY SMTT(60), <2>2
    <3>2. j \in DOMAIN sender.keys /\ sender.keys[j] = key
      BY Zenon, <1>0, <1>1, <1>6, <3>1
    <3>3. \A c \in 1..l : /\ FeatureAt(n, c, key) = sender.features[c][j]
                          /\ sender.features[c][j] \in Word
      BY <1>1, <1>4, <3>2, FeatureIs
    <3>4. u = [c \in 1..l |-> sender.features[c][j]]
      BY <1>5, <1>10, <2>2, <3>1 DEF Ideal!FeaturesOf
    <3> QED
      BY <2>2, <3>3, <3>4
  <2> QED
    BY <2>1, <2>2
<1>14. v \in [1..k -> Word] /\ \A c \in 1..k : v[c] = receiver.features[c][i]
  <2>1. v = [c \in 1..k |-> receiver.features[c][i]]
    BY <1>5, <1>11 DEF Ideal!FeaturesOf
  <2>2. ASSUME NEW c \in 1..k PROVE receiver.features[c][i] \in Word
    <3>1. receiver.features[c] \in [DOMAIN receiver.keys -> Word]
      BY <1>2, <1>5, ElementOfSeq
    <3> QED
      BY <1>1, <3>1
  <2> QED
    BY <2>1, <2>2
<1>15. x \in Word
  BY <1>8, <1>11
<1>16. /\ row \in [1..(1 + l + k) -> Word] /\ row[1] = x
       /\ \A c \in 1..l : row[c + 1] = u[c]
       /\ \A c \in 1..k : row[1 + l + c] = v[c]
  <2>1. x \in Word /\ u \in [1..l -> Word] /\ v \in [1..k -> Word]
    BY <1>13, <1>14, <1>15
  <2>2. Pieces(x, l, k, u, v, <<x>> \o u \o v)
    BY <2>1, RowParts, Zenon
  <2>3. Pieces(x, l, k, u, v, row)
    BY ZenonT(60), <1>12, <2>2
  <2> QED
    BY <2>3 DEF Pieces
<1>17. IsRow(n, i, row)
  BY SMTT(60), <1>0, <1>1, <1>4, <1>7, <1>11, <1>13, <1>14, <1>16 DEF IsRow
<1> QED
  BY <1>0, <1>17

\* The bins of the receiver's keys, in this call.
BinOfKey == [i \in DOMAIN Current(R).keys |-> cuckoo_table[i].bin]

\* As long as no second table has failed, what the bins hold is the join.
LEMMA HeldIsJoin ==
    ASSUME CircuitInv, AllOpened, stage[R] \in Compared, NEW n, n = Number(R), Clean(n),
           NEW b \in 1..BinsOf(n), NEW row, row = JoinRow(n, BinOfKey, b)
    PROVE  /\ \A c \in 0..Features(n) : Held(n, c, b) = row[c + 1]
           /\ \A c \in 1..Len(calls[R][n].features) :
                 ReceiverFeatures(R)[c][b] = row[1 + Features(n) + c]
<1>1. stage[R] \in Placed /\ stage[R] \in Opened /\ stage[R] \in InCall
  BY StagesAre
<1>2. /\ n \in DOMAIN calls[S] /\ n \in DOMAIN calls[R] /\ Features(n) \in Nat
      /\ Current(R) = calls[R][n]
  BY InTurn, TwoParties DEF Current, TakesTurns
<1>3. TableOf(n)
  BY <1>1 DEF CircuitInv, ReceiverLocals
<1>4. /\ DOMAIN cuckoo_table = DOMAIN calls[R][n].keys
      /\ \A i, j \in DOMAIN cuckoo_table : cuckoo_table[i].bin = cuckoo_table[j].bin => i = j
  BY <1>3 DEF TableOf
<1>5. DOMAIN BinOfKey = DOMAIN cuckoo_table
      /\ \A i \in DOMAIN cuckoo_table : BinOfKey[i] = cuckoo_table[i].bin
  BY <1>2, <1>4 DEF BinOfKey
<1>6. PICK k : k = Len(calls[R][n].features)
  OBVIOUS
<1>7. Bins(R) = BinsOf(n) /\ FeatureSize(R, R) = k /\ k \in Nat
  BY <1>1, <1>2, <1>6, BinsAgree, ComparedSizes, StagesAre, TwoParties
<1>8. ReceiverFeatures(R) = [c \in 1..k |-> [x \in 1..Bins(R) |->
          IF {i \in DOMAIN cuckoo_table : cuckoo_table[i].bin = x} = {} THEN 0
          ELSE calls[R][n].features[c][CHOOSE i \in {j \in DOMAIN cuckoo_table : cuckoo_table[j].bin = x} : TRUE]]]
  BY <1>2, <1>7 DEF ReceiverFeatures, R
<1>9. PICK at : at = {i \in DOMAIN cuckoo_table : cuckoo_table[i].bin = b}
  OBVIOUS
<1>10. \A c \in 1..k : ReceiverFeatures(R)[c][b] =
           IF at = {} THEN 0 ELSE calls[R][n].features[c][CHOOSE i \in at : TRUE]
  BY <1>7, <1>8, <1>9
<1>11. b \in Range(BinOfKey) <=> at # {}
  BY <1>5, <1>9 DEF Range
<1>12. CASE at = {}
  <2>1. row = [c \in 1..Width(n) |-> 0]
    BY <1>11, <1>12 DEF JoinRow
  <2>2. Width(n) = 1 + Features(n) + k
    BY <1>6 DEF Width
  <2>3. OpenedIn(b) = {}
    <3>1. \A o \in opened : o[1] \in DOMAIN cuckoo_table
      BY DEF CircuitInv, TypeOK
    <3> QED
      BY <1>9, <1>12, <3>1 DEF OpenedIn
  <2>4. \A c \in 0..Features(n) : Held(n, c, b) = 0
    BY <2>3 DEF Held
  <2> QED
    BY SMTT(60), <1>2, <1>6, <1>7, <1>10, <1>12, <2>1, <2>2, <2>4
<1>13. CASE at # {}
  <2>1. PICK i \in at : i = CHOOSE x \in at : TRUE
    BY <1>13
  <2>2. i \in DOMAIN cuckoo_table /\ cuckoo_table[i].bin = b /\ i \in DOMAIN calls[R][n].keys
    BY <1>4, <1>9, <2>1
  <2>3. \A j \in DOMAIN cuckoo_table : cuckoo_table[j].bin = b => j = i
    BY <1>4, <2>2
  <2>4. (CHOOSE x \in DOMAIN calls[R][n].keys : BinOfKey[x] = b) = i
    BY <1>4, <1>5, <2>2, <2>3
  <2>5. row = Ideal!RowOf(calls[S][n], calls[R][n], i)
    BY <1>11, <1>13, <2>4 DEF JoinRow
  <2>6. PICK key : key = calls[R][n].keys[i]
    OBVIOUS
  <2>7. /\ row[1] = IF Places(n, key) # {} THEN 1 ELSE 0
        /\ \A c \in 1..Features(n) :
              row[c + 1] = IF Places(n, key) # {} THEN FeatureAt(n, c, key) ELSE 0
        /\ \A c \in 1..k : row[1 + Features(n) + c] = calls[R][n].features[c][i]
    <3>1. IsRow(n, i, Ideal!RowOf(calls[S][n], calls[R][n], i))
      BY <1>2, <2>2, RowIs
    <3>2. IsRow(n, i, row)
      BY <2>5, <3>1, Zenon
    <3> QED
      BY <1>6, <2>6, <3>2 DEF IsRow
  <2>8. \A c \in 1..k : ReceiverFeatures(R)[c][b] = row[1 + Features(n) + c]
    BY <1>10, <1>13, <2>1, <2>7
  <2>9. CASE OpenedIn(b) = {}
    <3>1. Places(n, key) = {}
      <4>1. \A o \in opened : o[1] # i
        BY <2>2, <2>9 DEF OpenedIn
      <4>2. calls[R][n].keys[i] \notin Range(calls[S][n].keys)
        BY <1>1, <1>2, <2>2, <4>1 DEF AllOpened
      <4> QED
        BY <2>6, <4>2 DEF Places, Range
    <3>2. \A c \in 0..Features(n) : Held(n, c, b) = 0
      BY <2>9 DEF Held
    <3>3. \A c \in 0..Features(n) : row[c + 1] = 0
      <4> TAKE c \in 0..Features(n)
      <4>1. c = 0 \/ c \in 1..Features(n)
        BY <1>2
      <4> QED
        BY <2>7, <3>1, <4>1
    <3> QED
      BY SMTT(60), <1>6, <2>8, <3>2, <3>3
  <2>10. ASSUME NEW o \in opened, OpenedIn(b) = {o}
         PROVE  \A c \in 0..Features(n) : Held(n, c, b) = row[c + 1]
    <3>1. o \in OpenedIn(b) /\ OpenedIn(b) # {} /\ (CHOOSE x \in OpenedIn(b) : TRUE) = o
      BY <2>10
    <3>2. cuckoo_table[o[1]].bin = b
      BY <3>1 DEF OpenedIn
    <3>3. /\ o[1] \in DOMAIN cuckoo_table /\ KeyOf(o) = calls[R][n].keys[o[1]]
          /\ \E j \in DOMAIN calls[S][n].keys : calls[S][n].keys[j] = KeyOf(o)
      BY <1>1, OpenedKeys
    <3>4. o[1] = i /\ KeyOf(o) = key
      BY <2>3, <2>6, <3>2, <3>3
    <3>5. Places(n, key) # {}
      BY <3>3, <3>4 DEF Places
    <3> TAKE c \in 0..Features(n)
    <3>6. Held(n, c, b) = IF c = 0 THEN 1 ELSE FeatureAt(n, c, key)
      BY <3>1, <3>4 DEF Held
    <3>7. c = 0 \/ c \in 1..Features(n)
      BY <1>2
    <3> QED
      BY <1>2, <2>7, <3>5, <3>6, <3>7
  <2> QED
    BY <1>6, <2>8, <2>9, <2>10, OneInBin
<1> QED
  BY <1>12, <1>13

\* The columns of the receiver's features.
LEMMA LastColumns ==
    ASSUME CircuitInv, NEW p \in Party, stage[p] \in Compared, NEW n, n = Number(p)
    PROVE  /\ ReceiverFeatures(p) \in Seq(Seq(Word))
           /\ DOMAIN ReceiverFeatures(p) = 1..Len(calls[R][n].features)
           /\ \A c \in 1..Len(calls[R][n].features) :
                 /\ DOMAIN ReceiverFeatures(p)[c] = 1..BinsOf(n)
                 /\ p = S => \A b \in 1..BinsOf(n) : ReceiverFeatures(p)[c][b] = 0
<1>1. Bins(p) = BinsOf(n) /\ FeatureSize(p, R) = Len(calls[R][n].features)
  BY BinsAgree, StagesAre
<1>2. ReceiverFeatures(p) \in Seq(Seq(Word))
  BY ReceiverFeaturesType
<1>3. PICK k, m : k = Len(calls[R][n].features) /\ m = BinsOf(n)
  OBVIOUS
<1>4. /\ DOMAIN ReceiverFeatures(p) = 1..k
      /\ \A c \in 1..k : DOMAIN ReceiverFeatures(p)[c] = 1..m
  BY <1>1, <1>3 DEF ReceiverFeatures, R
<1>5. p = S => \A c \in 1..k : \A b \in 1..m : ReceiverFeatures(p)[c][b] = 0
  BY <1>1, <1>3 DEF ReceiverFeatures, R, S
<1> QED
  BY <1>2, <1>3, <1>4, <1>5

-----------------------------------------------------------------------------
(* What the shares of a call that both have returned from make.            *)

LEMMA SharesMakeJoin ==
    ASSUME CircuitInv, SharesInv, NEW n \in 1..MaxCalls, Finished(n), Clean(n)
    PROVE  SharesOfJoin(n)
<1>1. Returned(S, n) /\ Returned(R, n)
  BY TwoParties DEF Finished, Returned
<1>2. n \in DOMAIN results[S] /\ n \in DOMAIN results[R]
  BY <1>1 DEF Returned
<1>3. n \in DOMAIN calls[S] /\ n \in DOMAIN calls[R]
  BY <1>2, CallsNumbered, TwoParties DEF Numbered
<1>4. PICK mine, theirs : mine = results[S][n].columns /\ theirs = results[R][n].columns
  OBVIOUS
<1>5. PICK sender \in Calls[S], receiver \in Calls[R] :
        sender = calls[S][n] /\ receiver = calls[R][n]
  BY <1>3, Numbers, TwoParties DEF CircuitInv
<1>6. PICK l \in Nat, k \in Nat : l = Len(sender.features) /\ k = Len(receiver.features)
  BY CallIs, TwoParties
<1>7. PICK width \in Nat : width = 1 + l + k
  OBVIOUS
<1>8. Width(n) = width /\ Features(n) = l
  BY <1>5, <1>6, <1>7 DEF Width, Features
<1>9. Joined(n) /\ SenderDone(n)
  BY <1>2 DEF SharesInv
<1>10. PICK bins : bins = BinsOf(n)
  OBVIOUS
<1>11. /\ DOMAIN mine = 1..width /\ DOMAIN theirs = 1..width
       /\ \A c \in 1..width : DOMAIN mine[c] = 1..bins /\ DOMAIN theirs[c] = 1..bins
  BY <1>1, <1>4, <1>8, <1>9, <1>10 DEF Joined, SenderDone, WellShaped
<1>12. Ideal!SameShape(mine, theirs)
  BY <1>11 DEF Ideal!SameShape
<1>13. PICK bin \in Injection(DOMAIN receiver.keys, 1..bins) : \A b \in 1..bins :
          /\ \A c \in 0..l : Added(n, c, b) = JoinRow(n, bin, b)[c + 1]
          /\ \A c \in (2 + l)..width : theirs[c][b] = JoinRow(n, bin, b)[c]
  <2>1. PICK bin \in Injection(DOMAIN calls[R][n].keys, 1..BinsOf(n)) : \A b \in 1..BinsOf(n) :
           /\ \A c \in 0..Features(n) : Added(n, c, b) = JoinRow(n, bin, b)[c + 1]
           /\ \A c \in (2 + Features(n))..Width(n) :
                 results[R][n].columns[c][b] = JoinRow(n, bin, b)[c]
    BY <1>1, <1>9 DEF Joined
  <2>2. bin \in Injection(DOMAIN receiver.keys, 1..bins)
    BY <1>5, <1>10
  <2>3. \A b \in 1..bins :
          /\ \A c \in 0..l : Added(n, c, b) = JoinRow(n, bin, b)[c + 1]
          /\ \A c \in (2 + l)..width : theirs[c][b] = JoinRow(n, bin, b)[c]
    BY <1>4, <1>8, <1>10, <2>1
  <2> QED
    BY <2>2, <2>3
<1>14. \A c \in (2 + l)..width : \A b \in 1..bins : mine[c][b] = 0
  BY <1>1, <1>4, <1>8, <1>9, <1>10 DEF SenderDone
<1>15. PICK table : table = Ideal!Combine(mine, theirs)
  OBVIOUS
<1>16. table = [c \in 1..width |-> [b \in 1..bins |->
                  (mine[c][b] + theirs[c][b]) % (IF c = 1 THEN 2 ELSE Modulus)]]
  <2>1. table = [c \in DOMAIN mine |-> [b \in DOMAIN mine[c] |->
                  (mine[c][b] + theirs[c][b]) % (IF c = 1 THEN 2 ELSE Modulus)]]
    BY <1>15 DEF Ideal!Combine
  <2> QED
    BY <1>11, <2>1
<1>17. 1 \in 1..width
  BY <1>7
<1>18. DOMAIN table = 1..width /\ DOMAIN table[1] = 1..bins
  BY <1>16, <1>17
<1>19. ASSUME NEW b \in 1..bins
       PROVE  [c \in 1..width |-> table[c][b]] = JoinRow(n, bin, b)
  <2>1. PICK row : row = JoinRow(n, bin, b)
    OBVIOUS
  <2>2. row \in [1..width -> Word]
    <3>1. CASE b \in Range(bin)
      <4>1. PICK i : i = CHOOSE j \in DOMAIN calls[R][n].keys : bin[j] = b
        OBVIOUS
      <4>2. i \in DOMAIN calls[R][n].keys
        <5>1. DOMAIN bin = DOMAIN calls[R][n].keys
          BY <1>5 DEF Injection
        <5>2. \E j \in DOMAIN calls[R][n].keys : bin[j] = b
          BY <3>1, <5>1 DEF Range
        <5> QED
          BY <4>1, <5>2
      <4>3. IsRow(n, i, Ideal!RowOf(calls[S][n], calls[R][n], i))
        BY <1>3, <4>2, RowIs
      <4>4. row = Ideal!RowOf(calls[S][n], calls[R][n], i)
        BY <2>1, <3>1, <4>1 DEF JoinRow
      <4>5. IsRow(n, i, row)
        BY <4>3, <4>4, Zenon
      <4> QED
        BY <1>8, <4>5 DEF IsRow
    <3>2. CASE b \notin Range(bin)
      <4>1. 0 \in Word
        BY CircuitBoundsAssumption DEF Word
      <4> QED
        BY <1>8, <2>1, <3>2, <4>1 DEF JoinRow
    <3> QED
      BY <3>1, <3>2
  <2>3. ASSUME NEW c \in 1..(l + 1)
        PROVE  table[c][b] = row[c]
    <3>1. PICK d \in 0..l : d = c - 1 /\ c = d + 1
      OBVIOUS
    <3>2. c \in 1..width /\ (c = 1 <=> d = 0)
      BY <1>7, <3>1
    <3>3. Added(n, d, b) = row[c]
      BY <1>13, <2>1, <3>1
    <3>4. Added(n, d, b) = (mine[c][b] + theirs[c][b]) % (IF d = 0 THEN 2 ELSE Modulus)
      BY <1>2, <1>4, <3>1 DEF Added, Column
    <3>5. table[c][b] = (mine[c][b] + theirs[c][b]) % (IF c = 1 THEN 2 ELSE Modulus)
      BY <1>16, <3>2
    <3>6. (IF d = 0 THEN 2 ELSE Modulus) = IF c = 1 THEN 2 ELSE Modulus
      BY <3>2
    <3> QED
      BY <3>3, <3>4, <3>5, <3>6
  <2>4. ASSUME NEW c \in (2 + l)..width
        PROVE  table[c][b] = row[c]
    <3>1. c \in 1..width /\ c # 1
      BY <1>7
    <3>2. theirs[c][b] = row[c] /\ mine[c][b] = 0
      BY <1>13, <1>14, <2>1
    <3>3. table[c][b] = (mine[c][b] + theirs[c][b]) % (IF c = 1 THEN 2 ELSE Modulus)
      BY <1>16, <3>1
    <3>4. (IF c = 1 THEN 2 ELSE Modulus) = Modulus
      BY <3>1
    <3>5. PICK w \in Word : w = row[c]
      BY <2>2, <3>1
    <3>6. 0 + w = w
      BY WordType
    <3>7. w % Modulus = w
      BY WordRemains
    <3> QED
      BY <3>2, <3>3, <3>4, <3>5, <3>6, <3>7
  <2>5. \A c \in 1..width : table[c][b] = row[c]
    <3> TAKE c \in 1..width
    <3>1. c \in 1..(l + 1) \/ c \in (2 + l)..width
      BY <1>7
    <3> QED
      BY <2>3, <2>4, <3>1
  <2> QED
    BY <2>1, <2>2, <2>5
<1>20. DOMAIN receiver.keys = DOMAIN calls[R][n].keys
  BY <1>5
<1>21. ASSUME NEW b \in 1..bins
       PROVE  LET row == [c \in DOMAIN table |-> table[c][b]] IN
              IF b \in Range(bin)
              THEN row = Ideal!RowOf(sender, receiver,
                                     CHOOSE i \in DOMAIN receiver.keys : bin[i] = b)
              ELSE row = [c \in DOMAIN table |-> 0]
  <2>1. PICK row : row = [c \in DOMAIN table |-> table[c][b]]
    OBVIOUS
  <2>2. row = JoinRow(n, bin, b)
    BY <1>18, <1>19, <2>1
  <2>3. b \in Range(bin) =>
           row = Ideal!RowOf(sender, receiver, CHOOSE i \in DOMAIN receiver.keys : bin[i] = b)
    BY <1>5, <2>2 DEF JoinRow
  <2>4. b \notin Range(bin) => row = [c \in DOMAIN table |-> 0]
    BY <1>8, <1>18, <2>2 DEF JoinRow
  <2> QED
    BY <2>1, <2>3, <2>4
<1>22. Ideal!IsJoin(table, sender, receiver)
  <2>1. DOMAIN table = 1..(1 + Len(sender.features) + Len(receiver.features))
    BY <1>6, <1>7, <1>18
  <2>2. bin \in Injection(DOMAIN receiver.keys, DOMAIN table[1])
    BY <1>18
  <2>3. \A b \in DOMAIN table[1] :
          LET row == [c \in DOMAIN table |-> table[c][b]] IN
          IF b \in Range(bin)
          THEN row = Ideal!RowOf(sender, receiver,
                                 CHOOSE i \in DOMAIN receiver.keys : bin[i] = b)
          ELSE row = [c \in DOMAIN table |-> 0]
    BY <1>18, <1>21, Zenon
  <2>4. \E f \in Injection(DOMAIN receiver.keys, DOMAIN table[1]) :
          \A b \in DOMAIN table[1] :
             LET row == [c \in DOMAIN table |-> table[c][b]] IN
             IF b \in Range(f)
             THEN row = Ideal!RowOf(sender, receiver,
                                    CHOOSE i \in DOMAIN receiver.keys : f[i] = b)
             ELSE row = [c \in DOMAIN table |-> 0]
    BY <2>2, <2>3, Zenon
  <2>5. /\ \A s, t : Ideal!Injection(s, t) = Injection(s, t)
        /\ \A f : Ideal!Range(f) = Range(f)
    BY Zenon DEF Injection, IsInjective, Range, Ideal!Injection, Ideal!IsInjective, Ideal!Range
  <2> QED
    BY <2>1, <2>4, <2>5, Zenon DEF Ideal!IsJoin
<1> QED
  BY <1>4, <1>5, <1>12, <1>15, <1>22 DEF SharesOfJoin, S, R

LEMMA SharesFollow == CircuitInv /\ SharesInv => SharesCorrect
BY SharesMakeJoin DEF SharesCorrect, Clean, S

-----------------------------------------------------------------------------
(* What lasts over a step.                                                 *)

\* p moves; calls and results are only added, calls between calls.
Goes(p) ==
    /\ Others(p)
    /\ \A n \in DOMAIN calls[p] : n \in DOMAIN calls'[p] /\ calls'[p][n] = calls[p][n]
    /\ \A n \in DOMAIN results[p] :
          n \in DOMAIN results'[p] /\ results'[p][n] = results[p][n]
    /\ calls'[p] = calls[p] \/ stage[p] = "idle"

LEMMA RecordsLast ==
    ASSUME NEW p \in Party, Goes(p), NEW r \in Party
    PROVE  /\ \A n \in DOMAIN calls[r] : n \in DOMAIN calls'[r] /\ calls'[r][n] = calls[r][n]
           /\ \A n \in DOMAIN results[r] :
                 n \in DOMAIN results'[r] /\ results'[r][n] = results[r][n]
           /\ params' = params
<1>1. CASE r = p
  BY <1>1 DEF Goes, Others
<1>2. CASE r = Peer(p)
  BY <1>2 DEF Goes, Others
<1> QED
  BY <1>1, <1>2, TwoParties

LEMMA FailuresLast ==
    ASSUME NEW p \in Party, Goes(p), NEW r \in Party, NEW table, NEW n,
           \A k \in 1..n : k \in DOMAIN results[r]
    PROVE  Failures(r, table, n)' = Failures(r, table, n)
<1>1. \A k \in 1..n : results'[r][k] = results[r][k]
  BY RecordsLast
<1>2. {k \in 1..n : results'[r][k] = [threw |-> table]}
        = {k \in 1..n : results[r][k] = [threw |-> table]}
  BY <1>1
<1> QED
  BY <1>2 DEF Failures

\* What a call is about is settled when it is made.
LEMMA CallsLastly ==
    ASSUME CircuitInv, NEW p \in Party, Goes(p), NEW n
    PROVE  /\ n \in DOMAIN calls[S] =>
                 /\ Features(n)' = Features(n) /\ MasksOf(n)' = MasksOf(n)
                 /\ \A f, key : FeatureAt(n, f, key)' = FeatureAt(n, f, key)
                 /\ Clean(n)' <=> Clean(n)
           /\ n \in DOMAIN calls[R] => BinsOf(n)' = BinsOf(n)
           /\ n \in DOMAIN calls[S] /\ n \in DOMAIN calls[R] =>
                 /\ Width(n)' = Width(n)
                 /\ \A bin, b : JoinRow(n, bin, b)' = JoinRow(n, bin, b)
<1>1. params' = params
  BY DEF Goes, Others
<1>2. ASSUME n \in DOMAIN calls[S]
      PROVE  /\ Features(n)' = Features(n) /\ MasksOf(n)' = MasksOf(n)
             /\ \A f, key : FeatureAt(n, f, key)' = FeatureAt(n, f, key)
             /\ Clean(n)' <=> Clean(n)
  <2>1. calls'[S][n] = calls[S][n]
    BY <1>2, RecordsLast, TwoParties
  <2>2. \A k \in 1..(n - 1) : k \in DOMAIN results[S]
    BY <1>2, EarlierEnded, TwoParties
  <2>3. \A table : Failures(S, table, n - 1)' = Failures(S, table, n - 1)
    BY <2>2, FailuresLast, TwoParties
  <2>4. Features(n)' = Features(n) /\ Drawn(S, n)' = Drawn(S, n)
    BY <2>1, <2>3 DEF Features, Drawn
  <2>5. MasksOf(n)' = MasksOf(n)
    BY <1>1, <2>1, <2>4 DEF MasksOf
  <2>6. \A f, key : FeatureAt(n, f, key)' = FeatureAt(n, f, key)
    BY <2>1 DEF FeatureAt
  <2>7. Clean(n)' <=> Clean(n)
    BY <2>3 DEF Clean
  <2> QED
    BY <2>4, <2>5, <2>6, <2>7
<1>3. ASSUME n \in DOMAIN calls[R]
      PROVE  BinsOf(n)' = BinsOf(n)
  <2>1. calls'[R][n] = calls[R][n]
    BY <1>3, RecordsLast, TwoParties
  <2> QED
    BY <1>1, <2>1 DEF BinsOf
<1>4. ASSUME n \in DOMAIN calls[S], n \in DOMAIN calls[R]
      PROVE  /\ Width(n)' = Width(n)
             /\ \A bin, b : JoinRow(n, bin, b)' = JoinRow(n, bin, b)
  <2>1. calls'[R][n] = calls[R][n] /\ calls'[S][n] = calls[S][n]
    BY <1>4, RecordsLast, TwoParties
  <2>2. Width(n)' = Width(n)
    BY <1>2, <1>4, <2>1 DEF Width
  <2>3. ASSUME NEW bin, NEW b
        PROVE  JoinRow(n, bin, b)' = JoinRow(n, bin, b)
    BY <2>1, <2>2 DEF JoinRow, Ideal!RowOf, Ideal!FeaturesOf
  <2> QED
    BY <2>2, <2>3
<1> QED
  BY <1>2, <1>3, <1>4

-----------------------------------------------------------------------------
(* Columns over a step.                                                    *)

LEMMA EqualIs ==
    /\ Equal(S) = [b \in 1..Bins(S) |-> (params[S].num_of_fun_hint * sent[S] + 0) % 2]
    /\ Equal(R) = [b \in 1..Bins(R) |->
          (params[R].num_of_fun_hint * remote[R] + Cardinality(OpenedIn(b))) % 2]
BY DEF Equal, S, R

TotalOf(features, content, T) ==
    LET whole(o) == features[o] + content IN MapThenSumSet(whole, T)

LEMMA TotalIs == \A T : Total(T) = TotalOf(hint_features[fid[R]], remote[R].input, T)
BY Zenon DEF Total, TotalOf

\* The columns of a party that keeps what it has computed them from.
LEMMA SameColumn ==
    ASSUME NEW q \in Party, stage'[q] = stage[q], fid'[q] = fid[q], peer_size'[q] = peer_size[q],
           calls'[q] = calls[q], results'[q] = results[q], output_shares'[q] = output_shares[q],
           params' = params, q = S => sent'[S] = sent[S],
           q = R => remote'[R] = remote[R] /\ UNCHANGED <<cuckoo_table, opened, hint_features>>,
           NEW n, NEW c
    PROVE  Column(q, n, c)' = Column(q, n, c)
<1>1. Bins(q)' = Bins(q)
  BY DEF Bins, DataSize, Current, Number
<1>2. /\ Equal(S) = [b \in 1..Bins(S) |-> (params[S].num_of_fun_hint * sent[S] + 0) % 2]
       /\ Equal(R) = [b \in 1..Bins(R) |->
             (params[R].num_of_fun_hint * remote[R] + Cardinality(OpenedIn(b))) % 2]
  BY EqualIs
<1>3. (/\ Equal(S) = [b \in 1..Bins(S) |-> (params[S].num_of_fun_hint * sent[S] + 0) % 2]
       /\ Equal(R) = [b \in 1..Bins(R) |->
             (params[R].num_of_fun_hint * remote[R] + Cardinality(OpenedIn(b))) % 2])'
  BY EqualIs, PTL
<1>4. /\ Multiplexer(S) = [b \in 1..Bins(S) |->
             (params[S].num_of_fun_hint * sent[S].share) % Modulus]
       /\ Multiplexer(R) = [b \in 1..Bins(R) |->
             (Total(OpenedIn(b)) - params[R].num_of_fun_hint * remote[R].share) % Modulus]
  BY MultiplexerIs
<1>5. (/\ Multiplexer(S) = [b \in 1..Bins(S) |->
             (params[S].num_of_fun_hint * sent[S].share) % Modulus]
       /\ Multiplexer(R) = [b \in 1..Bins(R) |->
             (Total(OpenedIn(b)) - params[R].num_of_fun_hint * remote[R].share) % Modulus])'
  BY MultiplexerIs, PTL
<1>6. Equal(q)' = Equal(q) /\ Multiplexer(q)' = Multiplexer(q)
  <2>1. CASE q = S
    <3>1. Bins(S)' = Bins(S) /\ sent'[S] = sent[S]
      BY <1>1, <2>1
    <3>2. Equal(S)' = Equal(S)
      BY <1>2, <1>3, <3>1
    <3>3. Multiplexer(S)' = Multiplexer(S)
      BY <1>4, <1>5, <3>1
    <3> QED
      BY <2>1, <3>2, <3>3
  <2>2. CASE q = R
    <3>1. \A b : OpenedIn(b)' = OpenedIn(b)
      BY <2>2 DEF OpenedIn
    <3>2. \A T : Total(T)' = Total(T)
      <4>1. (\A T : Total(T) = TotalOf(hint_features[fid[R]], remote[R].input, T))'
        BY TotalIs, PTL
      <4> QED
        BY <2>2, <4>1, TotalIs
    <3>3. \A b : Total(OpenedIn(b))' = Total(OpenedIn(b))
      BY <3>1, <3>2
    <3>4. Bins(R)' = Bins(R) /\ remote'[R] = remote[R]
      BY <1>1, <2>2
    <3>5. Equal(R)' = Equal(R)
      BY <1>2, <1>3, <3>1, <3>4
    <3>6. Multiplexer(R)' = Multiplexer(R)
      BY <1>4, <1>5, <3>3, <3>4
    <3> QED
      BY <2>2, <3>5, <3>6
  <2> QED
    BY <2>1, <2>2, TwoParties
<1> QED
  BY <1>6 DEF Column

\* The party that does not move keeps its columns.
LEMMA OtherColumns ==
    ASSUME NEW p \in Party, Others(p), NEW q, q = Peer(p), NEW n, NEW c
    PROVE  Column(q, n, c)' = Column(q, n, c)
BY SameColumn, TwoParties DEF Others

\* Nor is what the bins hold, but for a step that changes what is opened.
LEMMA HeldStays ==
    ASSUME CircuitInv, NEW p \in Party, Goes(p), UNCHANGED <<cuckoo_table, opened>>,
           calls'[R] = calls[R], NEW n \in DOMAIN calls[S], NEW c, NEW b
    PROVE  Held(n, c, b)' = Held(n, c, b)
<1>1. OpenedIn(b)' = OpenedIn(b) /\ \A o : KeyOf(o)' = KeyOf(o)
  BY DEF OpenedIn, KeyOf, Current, Number
<1>2. \A f, key : FeatureAt(n, f, key)' = FeatureAt(n, f, key)
  BY CallsLastly
<1> QED
  BY <1>1, <1>2 DEF Held

-----------------------------------------------------------------------------
(* Steps outside of comparisons.                                           *)

\* p is in no comparison, and at most arrives at the first of a call.
Quiet(p) ==
    /\ Goes(p) /\ stage[p] \notin Compared
    /\ stage'[p] \in Compared => stage'[p] = "equal" /\ io'[p] = Starts("equal", p)
    /\ \A n \in DOMAIN results'[p] : n \in DOMAIN results[p] \/ Threw(results'[p][n])
    /\ stage[p] \in Opened => stage'[p] \in Opened
    /\ p = S /\ stage[S] \in Hinted =>
          \A f \in DOMAIN contents : f \in DOMAIN contents' /\ contents'[f] = contents[f]

LEMMA QuietReturns ==
    ASSUME CircuitInv, NEW p \in Party, Quiet(p), NEW q \in Party, NEW n
    PROVE  Returned(q, n)' <=> Returned(q, n)
<1>1. CASE q = p
  <2>1. \A x : Threw(x)' <=> Threw(x)'
    OBVIOUS
  <2>2. \A k \in DOMAIN results[p] : k \in DOMAIN results'[p] /\ results'[p][k] = results[p][k]
    BY DEF Quiet, Goes
  <2>3. \A k \in DOMAIN results'[p] : k \in DOMAIN results[p] \/ Threw(results'[p][k])
    BY DEF Quiet
  <2> QED
    BY <1>1, <2>2, <2>3 DEF Returned
<1>2. CASE q # p
  <2>1. q = Peer(p)
    BY <1>2, TwoParties
  <2>2. results'[q] = results[q]
    BY <2>1 DEF Quiet, Goes, Others
  <2> QED
    BY <2>2 DEF Returned
<1> QED
  BY <1>1, <1>2

\* Nothing is heard or said.
LEMMA QuietTurns ==
    ASSUME CircuitInv, NEW p \in Party, Quiet(p), NEW q \in Party, NEW n, NEW c \in Nat
    PROVE  /\ Past(q, n, c)' <=> Past(q, n, c)
           /\ Heard(q, n, c)' <=> Heard(q, n, c)
           /\ Spoken(q, n, c)' <=> Spoken(q, n, c)
<1>1. Returned(q, n)' <=> Returned(q, n)
  BY QuietReturns
<1>2. CASE q = p
  <2>1. stage[q] \notin Compared
    BY <1>2 DEF Quiet
  <2>2. stage'[q] \in Compared => Turn(q)' = 0 /\ ~HasRead(q)' /\ ~HasWritten(q)'
    <3>1. SUFFICES ASSUME stage'[q] \in Compared
                   PROVE  Turn(q)' = 0 /\ ~HasRead(q)' /\ ~HasWritten(q)'
      OBVIOUS
    <3>2. stage'[q] = "equal" /\ io'[q] = Starts("equal", q)
      BY <1>2, <3>1 DEF Quiet
    <3>3. Starts("equal", q) = First(q) /\ First(q) \in {"send", "recv"}
      BY CheckedIs DEF Starts, Rest, First
    <3> QED
      BY <3>2, <3>3 DEF Turn, HasRead, HasWritten
  <2> QED
    BY <1>1, <2>1, <2>2 DEF Past, Heard, Spoken
<1>3. CASE q # p
  <2>1. q = Peer(p)
    BY <1>3, TwoParties
  <2>2. stage'[q] = stage[q] /\ fid'[q] = fid[q] /\ io'[q] = io[q] /\ calls'[q] = calls[q]
    BY <2>1 DEF Quiet, Goes, Others
  <2>3. Number(q)' = Number(q) /\ Turn(q)' = Turn(q) /\ HasRead(q)' = HasRead(q)
        /\ HasWritten(q)' = HasWritten(q)
    BY <2>2 DEF Number, Turn, HasRead, HasWritten
  <2> QED
    BY <1>1, <2>2, <2>3 DEF Past, Heard, Spoken
<1> QED
  BY <1>2, <1>3

-----------------------------------------------------------------------------
(* What has been said over a step.                                         *)

LEMMA HeardInCall ==
    CircuitInv => \A p \in Party : \A n, c :
        Heard(p, n, c) \/ Spoken(p, n, c) => n \in DOMAIN calls[S] /\ n \in DOMAIN calls[R]
BY CallsNumbered, InTurn, TwoParties DEF Heard, Spoken, Past, Returned, Numbered, TakesTurns

\* Nothing is heard or said in a step.
TurnsStay ==
    \A q \in Party : \A n : \A c \in Nat : (n \in DOMAIN calls[S] => c <= Features(n)) =>
        /\ Heard(q, n, c)' <=> Heard(q, n, c)
        /\ Spoken(q, n, c)' <=> Spoken(q, n, c)

\* What has been written or read stays in its column.
ColumnsStay ==
    /\ \A n : \A c \in Nat : Spoken(S, n, c) => Column(S, n, c)' = Column(S, n, c)
    /\ \A n : \A c \in Nat : Heard(R, n, c) => Column(R, n, c)' = Column(R, n, c)

LEMMA AnsweredStays ==
    ASSUME CircuitInv, NEW p \in Party, Goes(p), TurnsStay, NEW q \in Party, Answered(q)
    PROVE  Answered(q)'
<1>1. SUFFICES ASSUME NEW n \in DOMAIN calls'[S], NEW c \in 0..Features(n)', Heard(q, n, c)'
               PROVE  Spoken(Peer(q), n, c)'
  BY DEF Answered
<1>2. c \in Nat /\ (n \in DOMAIN calls[S] => c \in 0..Features(n))
  BY <1>1, CallsLastly
<1>3. n \in DOMAIN calls[S] => c <= Features(n)
  BY <1>2
<1>4. Heard(q, n, c)
  BY <1>1, <1>2, <1>3 DEF TurnsStay
<1>5. n \in DOMAIN calls[S]
  BY <1>4, HeardInCall
<1>6. Spoken(Peer(q), n, c)
  BY <1>2, <1>4, <1>5 DEF Answered
<1> QED
  BY <1>2, <1>3, <1>6, TwoParties DEF TurnsStay

\* The channels lose their first message at most.
Drained ==
    \A q \in Party : \E k \in {0, 1} : \A i \in DOMAIN chan'[q] :
        i \in Nat /\ i + k \in DOMAIN chan[q] /\ chan'[q][i] = chan[q][i + k]

LEMMA Unchanged == ASSUME CircuitInv, chan' = chan PROVE Drained
<1>1. \A q \in Party : \A i \in DOMAIN chan[q] : i \in Nat /\ i + 0 = i
  BY Numbers DEF CircuitInv
<1> QED
  BY <1>1 DEF Drained

LEMMA Taken ==
    ASSUME CircuitInv, NEW p \in Party, NEW width, Take(p, width)
    PROVE  /\ Drained
           /\ 1 \in DOMAIN chan[p] /\ Head(chan[p]) = chan[p][1]
           /\ \A i \in DOMAIN chan'[p] : i + 1 \in DOMAIN chan[p] /\ 1 < i + 1
                                         /\ chan'[p][i] = chan[p][i + 1]
           /\ \A q \in Party \ {p} : chan'[q] = chan[q]
<1>1. DOMAIN chan = Party /\ chan[p] \in Seq(Range(chan[p]))
  BY DEF CircuitInv, AreSequences
<1>2. chan[p] # <<>> /\ chan'[p] = Tail(chan[p]) /\ \A q \in Party \ {p} : chan'[q] = chan[q]
  BY <1>1 DEF Take
<1>3. PICK s : s = chan[p]
  OBVIOUS
<1>4. PICK T : T = Range(chan[p])
  OBVIOUS
<1>5. s \in Seq(T) /\ s # <<>>
  BY <1>1, <1>2, <1>3, <1>4
<1>6. 1 \in DOMAIN s /\ Head(s) = s[1]
      /\ \A i \in DOMAIN Tail(s) : i \in Nat /\ i + 1 \in DOMAIN s /\ 1 < i + 1
                                   /\ Tail(s)[i] = s[i + 1]
  BY <1>5
<1>7. \A i \in DOMAIN chan'[p] : i \in Nat /\ i + 1 \in DOMAIN chan[p] /\ 1 < i + 1
                                 /\ chan'[p][i] = chan[p][i + 1]
  BY <1>2, <1>3, <1>6
<1>8. \A q \in Party : \A i \in DOMAIN chan[q] : i \in Nat /\ i + 0 = i
  BY Numbers DEF CircuitInv
<1>9. Drained
  <2>1. ASSUME NEW q \in Party
        PROVE  \E k \in {0, 1} : \A i \in DOMAIN chan'[q] :
                  i \in Nat /\ i + k \in DOMAIN chan[q] /\ chan'[q][i] = chan[q][i + k]
    BY <1>2, <1>7, <1>8
  <2> QED
    BY <2>1 DEF Drained
<1> QED
  BY <1>2, <1>3, <1>6, <1>7, <1>9

LEMMA DrainedOrder ==
    ASSUME CircuitInv, Drained, NEW q \in Party, LastInCall(q)
    PROVE  LastInCall(q)'
<1>1. PICK k \in {0, 1} : \A i \in DOMAIN chan'[q] :
         i \in Nat /\ i + k \in DOMAIN chan[q] /\ chan'[q][i] = chan[q][i + k]
  BY DEF Drained
<1>2. \A i, j \in DOMAIN chan'[q] : i < j => i + k < j + k
  BY <1>1
<1> QED
  BY <1>1, <1>2 DEF LastInCall

LEMMA Posted ==
    ASSUME CircuitInv, NEW p \in Party, NEW width, NEW value, Post(p, width, value),
           NEW m, m = [is |-> stage[p], fid |-> fid[p], width |-> width, value |-> value],
           NEW q, q = Peer(p)
    PROVE  /\ chan'[p] = chan[p] /\ \A i \in DOMAIN chan[q] : i \in Nat
           /\ \A i \in DOMAIN chan'[q] :
                 /\ i \in Nat
                 /\ \/ i \in DOMAIN chan[q] /\ chan'[q][i] = chan[q][i]
                    \/ chan'[q][i] = m /\ \A j \in DOMAIN chan'[q] : j <= i
<1>1. DOMAIN chan = Party /\ chan[q] \in Seq(Range(chan[q])) /\ q \in Party /\ p # q
  BY TwoParties DEF CircuitInv, AreSequences
<1>2. chan'[q] = Append(chan[q], m) /\ chan'[p] = chan[p]
  BY <1>1 DEF Post
<1>3. PICK s : s = chan[q]
  OBVIOUS
<1>4. PICK T : T = Range(chan[q])
  OBVIOUS
<1>5. s \in Seq(T)
  BY <1>1, <1>3, <1>4
<1>6. Len(s) \in Nat /\ DOMAIN s = 1..Len(s)
  BY <1>5
<1>7. DOMAIN Append(s, m) = 1..(Len(s) + 1) /\ Append(s, m)[Len(s) + 1] = m
      /\ \A i \in 1..Len(s) : Append(s, m)[i] = s[i]
  BY <1>5
<1>8. \A i \in 1..(Len(s) + 1) : i \in 1..Len(s) \/ i = Len(s) + 1
  BY <1>6
<1> QED
  BY <1>2, <1>3, <1>6, <1>7, <1>8

LEMMA PostedOrder ==
    ASSUME CircuitInv, NEW p \in Party, NEW width, NEW value, Post(p, width, value),
           NEW m, m = [is |-> stage[p], fid |-> fid[p], width |-> width, value |-> value],
           \A r \in Party : LastInCall(r),
           m.is \in Opened => \A i \in DOMAIN chan[Peer(p)] : chan[Peer(p)][i].is \notin Compared
    PROVE  \A r \in Party : LastInCall(r)'
<1>1. PICK q : q = Peer(p)
  OBVIOUS
<1>2. chan'[p] = chan[p] /\ LastInCall(p) /\ LastInCall(q) /\ \A i \in DOMAIN chan[q] : i \in Nat
  BY <1>1, Posted, TwoParties
<1>3. LastInCall(p)'
  BY <1>2 DEF LastInCall
<1>4. \A i \in DOMAIN chan'[q] :
         /\ i \in Nat
         /\ \/ i \in DOMAIN chan[q] /\ chan'[q][i] = chan[q][i]
            \/ chan'[q][i] = m /\ \A j \in DOMAIN chan'[q] : j <= i
  BY <1>1, Posted
<1>5. ASSUME NEW i \in DOMAIN chan'[q], NEW j \in DOMAIN chan'[q], i < j,
             chan'[q][i].is \in Compared
      PROVE  chan'[q][j].is \notin Opened
  <2>1. i \in Nat /\ j \in Nat
    BY <1>4
  <2>2. i \in DOMAIN chan[q] /\ chan'[q][i] = chan[q][i]
    <3>1. ~(j <= i)
      BY <1>5, <2>1
    <3> QED
      BY <1>4, <3>1
  <2>3. CASE j \in DOMAIN chan[q] /\ chan'[q][j] = chan[q][j]
    BY <1>2, <1>5, <2>2, <2>3 DEF LastInCall
  <2>4. CASE chan'[q][j] = m
    BY <1>1, <1>5, <2>2, <2>4
  <2> QED
    BY <1>4, <2>3, <2>4
<1>6. LastInCall(q)'
  BY <1>5 DEF LastInCall
<1> QED
  BY <1>1, <1>3, <1>6, TwoParties

LEMMA TurnsHold ==
    ASSUME \A q \in Party : Answered(q)' /\ LastInCall(q)',
           \A m : (\E i \in DOMAIN chan'[R] : m = chan'[R][i]) => ToReceiver(m)',
           \A m : (\E i \in DOMAIN chan'[S] : m = chan'[S][i]) => ToSender(m)'
    PROVE  Turns'
<1>1. ASSUME NEW i \in DOMAIN chan'[R]
      PROVE  ToReceiver(chan[R][i])'
  <2>1. PICK m : m = chan'[R][i]
    OBVIOUS
  <2>2. ToReceiver(m)'
    BY <1>1, <2>1
  <2> QED
    BY <2>1, <2>2 DEF ToReceiver, Waiting
<1>2. ASSUME NEW i \in DOMAIN chan'[S]
      PROVE  ToSender(chan[S][i])'
  <2>1. PICK m : m = chan'[S][i]
    OBVIOUS
  <2>2. ToSender(m)'
    BY <1>2, <2>1
  <2> QED
    BY <2>1, <2>2 DEF ToSender, Waiting
<1> QED
  BY <1>1, <1>2 DEF Turns

-----------------------------------------------------------------------------
(* Steps in which nothing is heard or said.                                *)

Smooth(p) ==
    /\ Goes(p) /\ TurnsStay /\ ColumnsStay
    /\ p = S /\ stage[S] \in Compared => io[S] # "recv"
    /\ p = S /\ stage[S] \in Opened /\ ~Heard(R, Number(S), 0) =>
          /\ stage'[S] \in Opened
          /\ \A f \in DOMAIN contents : f \in DOMAIN contents' /\ contents'[f] = contents[f]

\* A receiver that has not returned from the call of a sender past its second
\* table makes no other.
LEMMA ReceiverStays ==
    ASSUME CircuitInv, NEW p \in Party, Goes(p), stage[S] \in Hinted, Number(R) = Number(S),
           NEW c \in Int, ~Heard(R, Number(S), c)
    PROVE  Number(R)' = Number(R)
<1>1. Hinted \subseteq Placed /\ "idle" \notin Placed
  BY DEF Hinted, Placed, Compared
<1>2. ~Returned(R, Number(S))
  BY DEF Heard, Past
<1>3. stage[R] \in Placed
  BY <1>2, Meeting
<1>4. calls'[R] = calls[R]
  <2>1. CASE p = R
    BY <1>1, <1>3, <2>1 DEF Goes
  <2>2. CASE p = S
    BY <2>2, TwoParties DEF Goes, Others
  <2> QED
    BY <2>1, <2>2, TwoParties
<1> QED
  BY <1>4 DEF Number

LEMMA ToReceiverStays ==
    ASSUME CircuitInv, NEW p \in Party, Smooth(p), NEW m, ToReceiver(m)
    PROVE  ToReceiver(m)'
<1>1. Goes(p) /\ TurnsStay /\ params' = params
  BY DEF Smooth, Goes, Others
<1>2. Compared \subseteq Opened /\ Opened \subseteq Hinted /\ Hinted \subseteq Placed
      /\ Placed \subseteq InCall /\ "idle" \notin InCall
  BY StagesAre DEF Rest
<1>3. stage[S] \in InCall =>
         /\ Number(S)' = Number(S) /\ Number(S) \in DOMAIN calls[S]
         /\ Features(Number(S)) \in Nat
  <2>1. SUFFICES ASSUME stage[S] \in InCall
                 PROVE  /\ Number(S)' = Number(S) /\ Number(S) \in DOMAIN calls[S]
                        /\ Features(Number(S)) \in Nat
    OBVIOUS
  <2>2. calls'[S] = calls[S]
    <3>1. CASE p = S
      BY <1>1, <1>2, <2>1, <3>1 DEF Goes
    <3>2. CASE p = R
      BY <1>1, <3>2, TwoParties DEF Goes, Others
    <3> QED
      BY <3>1, <3>2, TwoParties
  <2>3. Number(S) \in DOMAIN calls[S]
    BY <2>1, CallsNumbered, TwoParties DEF Numbered
  <2> QED
    BY <2>2, <2>3, FeaturesType DEF Number, CircuitInv
<1>4. ASSUME m.is \in Compared
      PROVE  /\ Waiting(m)' /\ m.value = sent'[S]
             /\ Number(R)' = Number(S)' /\ ~Heard(R, Number(S), Turn(S))'
  <2>1. /\ Waiting(m) /\ m.value = sent[S] /\ Number(R) = Number(S)
        /\ ~Heard(R, Number(S), Turn(S))
    BY <1>4 DEF ToReceiver
  <2>2. stage[S] \in Compared /\ io[S] = "recv"
    BY <1>4, <2>1 DEF Waiting
  <2>3. p = R /\ Peer(p) = S
    BY <2>2, TwoParties DEF Smooth
  <2>4. stage'[S] = stage[S] /\ fid'[S] = fid[S] /\ io'[S] = io[S] /\ sent'[S] = sent[S]
        /\ Number(S)' = Number(S)
    BY <1>1, <2>3 DEF Goes, Others, Number
  <2>5. Turn(S)' = Turn(S) /\ Waiting(m)' /\ m.value = sent'[S]
    BY <2>1, <2>4 DEF Turn, Waiting
  <2>6. Turn(S) \in 0..Features(Number(S)) /\ Number(S) \in DOMAIN calls[S]
        /\ Features(Number(S)) \in Nat
    BY <2>2, InTurn, TwoParties DEF TakesTurns
  <2>7. Turn(S) \in Nat /\ Turn(S) <= Features(Number(S)) /\ Turn(S) \in Int
    BY <2>6
  <2>8. Number(R)' = Number(R)
    BY <1>1, <1>2, <2>1, <2>2, <2>7, ReceiverStays
  <2>9. ~Heard(R, Number(S), Turn(S))'
    <3>1. PICK n : n = Number(S)
      OBVIOUS
    <3>2. PICK c : c = Turn(S)
      OBVIOUS
    <3>3. ~Heard(R, n, c)'
      BY <1>1, <2>1, <2>7, <3>1, <3>2, TwoParties DEF TurnsStay
    <3> QED
      BY <2>4, <2>5, <3>1, <3>2, <3>3 DEF Heard, Past, Returned
  <2> QED
    BY <2>1, <2>4, <2>5, <2>8, <2>9
<1>5. ASSUME m.is = "feature_hint"
      PROVE  /\ Number(R)' = Number(S)' /\ stage'[S] \in Opened /\ ~Heard(R, Number(S), 0)'
             /\ m.fid \in DOMAIN contents' /\ m.value = HintsFor(Number(S), m.fid)'
  <2>1. /\ Number(R) = Number(S) /\ stage[S] \in Opened /\ ~Heard(R, Number(S), 0)
        /\ m.fid \in DOMAIN contents /\ m.value = HintsFor(Number(S), m.fid)
    BY <1>5 DEF ToReceiver
  <2>2. /\ Number(S)' = Number(S) /\ Number(S) \in DOMAIN calls[S]
        /\ Features(Number(S)) \in Nat
    BY <1>2, <1>3, <2>1
  <2>3. 0 \in Int /\ 0 \in Nat /\ 0 <= Features(Number(S))
    BY <2>2
  <2>4. Number(R)' = Number(R)
    BY <1>1, <1>2, <2>1, <2>3, ReceiverStays
  <2>5. PICK n : n = Number(S)
    OBVIOUS
  <2>6. ~Heard(R, n, 0)'
    BY <1>1, <2>1, <2>3, <2>5, TwoParties DEF TurnsStay
  <2>7. ~Heard(R, Number(S), 0)'
    BY <2>2, <2>5, <2>6 DEF Heard, Past, Returned
  <2>8. stage'[S] \in Opened /\ m.fid \in DOMAIN contents' /\ contents'[m.fid] = contents[m.fid]
    <3>1. CASE p = S
      BY <2>1, <3>1 DEF Smooth
    <3>2. CASE p = R
      BY <1>1, <2>1, <3>2, TwoParties DEF Goes, Others
    <3> QED
      BY <3>1, <3>2, TwoParties
  <2>9. HintsFor(n, m.fid)' = HintsFor(n, m.fid)
    <3>1. MasksOf(n)' = MasksOf(n) /\ \A f, key : FeatureAt(n, f, key)' = FeatureAt(n, f, key)
      BY <1>1, <2>2, <2>5, CallsLastly
    <3> QED
      BY <2>8, <3>1 DEF HintsFor, Hidden
  <2>10. HintsFor(Number(S), m.fid)' = HintsFor(n, m.fid)'
    BY <2>2, <2>5 DEF HintsFor, MasksOf, FeatureAt, Drawn, Failures
  <2> QED
    BY <2>1, <2>2, <2>4, <2>5, <2>7, <2>8, <2>9, <2>10
<1> QED
  BY <1>4, <1>5 DEF ToReceiver

LEMMA ToSenderStays ==
    ASSUME CircuitInv, NEW p \in Party, Smooth(p), NEW m, ToSender(m)
    PROVE  ToSender(m)'
<1>1. SUFFICES ASSUME m.is \in Compared
               PROVE  Waiting(m)' /\ Spoken(R, Number(S), Turn(S))'
  BY DEF ToSender
<1>2. Waiting(m) /\ Spoken(R, Number(S), Turn(S))
  BY <1>1 DEF ToSender
<1>3. stage[S] \in Compared /\ io[S] = "recv"
  BY <1>1, <1>2 DEF Waiting
<1>4. p = R /\ Peer(p) = S
  BY <1>3, TwoParties DEF Smooth
<1>5. stage'[S] = stage[S] /\ fid'[S] = fid[S] /\ io'[S] = io[S] /\ Number(S)' = Number(S)
  BY <1>4 DEF Smooth, Goes, Others, Number
<1>6. Turn(S)' = Turn(S) /\ Waiting(m)'
  BY <1>2, <1>5 DEF Turn, Waiting
<1>7. Turn(S) \in 0..Features(Number(S)) /\ Number(S) \in DOMAIN calls[S]
      /\ Features(Number(S)) \in Nat
  BY <1>3, InTurn, TwoParties DEF TakesTurns
<1>8. Turn(S) \in Nat /\ Turn(S) <= Features(Number(S))
  BY <1>7
<1>9. PICK n : n = Number(S)
  OBVIOUS
<1>10. PICK c : c = Turn(S)
  OBVIOUS
<1>11. Spoken(R, n, c)'
  BY <1>2, <1>8, <1>9, <1>10, TwoParties DEF Smooth, TurnsStay
<1>12. Spoken(R, Number(S), Turn(S))'
  BY <1>5, <1>6, <1>9, <1>10, <1>11 DEF Spoken, Past, Returned
<1> QED
  BY <1>6, <1>12

\* Such a step reads what the next step does not depend on, or writes what may be
\* written.
Sends(p) ==
    \E width, value : \E m :
        /\ Post(p, width, value)
        /\ m = [is |-> stage[p], fid |-> fid[p], width |-> width, value |-> value]
        /\ m.is \notin Compared
        /\ p = R => m.is \notin Opened
        /\ p = S => stage[S] \notin Compared /\ ToReceiver(m)'

Uses(p) == chan' = chan \/ (\E width : Take(p, width)) \/ Sends(p)

LEMMA SmoothTurns ==
    ASSUME CircuitInv, NEW p \in Party, Smooth(p), Turns, Uses(p)
    PROVE  Turns'
<1>1. \A q \in Party : Answered(q)'
  BY AnsweredStays DEF Smooth, Turns
<1>2. /\ \A i \in DOMAIN chan[R] : \A m : m = chan[R][i] => ToReceiver(m)'
      /\ \A i \in DOMAIN chan[S] : \A m : m = chan[S][i] => ToSender(m)'
  <2>1. ASSUME NEW i \in DOMAIN chan[R], NEW m, m = chan[R][i]
        PROVE  ToReceiver(m)'
    BY <2>1, ToReceiverStays DEF Turns
  <2>2. ASSUME NEW i \in DOMAIN chan[S], NEW m, m = chan[S][i]
        PROVE  ToSender(m)'
    BY <2>2, ToSenderStays DEF Turns
  <2> QED
    BY <2>1, <2>2
<1>3. CASE Drained
  <2>1. \A q \in Party : \A i \in DOMAIN chan'[q] :
           \E j \in DOMAIN chan[q] : chan'[q][i] = chan[q][j]
    BY <1>3 DEF Drained
  <2>2. \A q \in Party : LastInCall(q)'
    BY <1>3, DrainedOrder DEF Turns
  <2>3. \A m : (\E i \in DOMAIN chan'[R] : m = chan'[R][i]) => ToReceiver(m)'
    BY <1>2, <2>1, TwoParties
  <2>4. \A m : (\E i \in DOMAIN chan'[S] : m = chan'[S][i]) => ToSender(m)'
    BY <1>2, <2>1, TwoParties
  <2> QED
    BY <1>1, <2>2, <2>3, <2>4, TurnsHold
<1>4. CASE Sends(p)
  <2>1. PICK width, value, m :
           /\ Post(p, width, value)
           /\ m = [is |-> stage[p], fid |-> fid[p], width |-> width, value |-> value]
           /\ m.is \notin Compared
           /\ p = R => m.is \notin Opened
           /\ p = S => stage[S] \notin Compared /\ ToReceiver(m)'
    BY <1>4, Zenon DEF Sends
  <2>2. PICK q : q = Peer(p)
    OBVIOUS
  <2>3. /\ chan'[p] = chan[p]
        /\ \A i \in DOMAIN chan'[q] :
              (i \in DOMAIN chan[q] /\ chan'[q][i] = chan[q][i]) \/ chan'[q][i] = m
    BY <2>1, <2>2, Posted
  <2>4. m.is \in Opened => \A i \in DOMAIN chan[Peer(p)] : chan[Peer(p)][i].is \notin Compared
    <3>1. SUFFICES ASSUME p = S, NEW i \in DOMAIN chan[R], chan[R][i].is \in Compared
                   PROVE  FALSE
      BY <2>1, TwoParties
    <3>2. Waiting(chan[R][i])
      BY <3>1 DEF Turns, ToReceiver
    <3> QED
      BY <2>1, <3>1, <3>2 DEF Waiting
  <2>5. \A r \in Party : LastInCall(r)'
    BY <2>1, <2>4, PostedOrder DEF Turns
  <2>6. \A x : (\E i \in DOMAIN chan'[R] : x = chan'[R][i]) => ToReceiver(x)'
    <3>1. SUFFICES ASSUME NEW x, NEW i \in DOMAIN chan'[R], x = chan'[R][i]
                   PROVE  ToReceiver(x)'
      OBVIOUS
    <3>2. CASE p = R
      BY <1>2, <2>3, <3>1, <3>2
    <3>3. CASE p = S /\ i \in DOMAIN chan[R] /\ chan'[R][i] = chan[R][i]
      BY <1>2, <3>1, <3>3
    <3>4. CASE p = S /\ chan'[R][i] = m
      <4>1. x = m
        BY <3>1, <3>4
      <4> QED
        BY <2>1, <3>4, <4>1
    <3> QED
      BY <2>2, <2>3, <3>1, <3>2, <3>3, <3>4, TwoParties
  <2>7. \A x : (\E i \in DOMAIN chan'[S] : x = chan'[S][i]) => ToSender(x)'
    <3>1. SUFFICES ASSUME NEW x, NEW i \in DOMAIN chan'[S], x = chan'[S][i]
                   PROVE  ToSender(x)'
      OBVIOUS
    <3>2. CASE p = S
      BY <1>2, <2>3, <3>1, <3>2
    <3>3. CASE p = R /\ i \in DOMAIN chan[S] /\ chan'[S][i] = chan[S][i]
      BY <1>2, <3>1, <3>3
    <3>4. CASE p = R /\ chan'[S][i] = m
      <4>1. x.is \notin Compared
        BY <2>1, <3>1, <3>4
      <4> QED
        BY <4>1 DEF ToSender
    <3> QED
      BY <2>2, <2>3, <3>1, <3>2, <3>3, <3>4, TwoParties
  <2> QED
    BY <1>1, <2>5, <2>6, <2>7, TurnsHold
<1> QED
  BY <1>3, <1>4, Unchanged, Taken DEF Uses

-----------------------------------------------------------------------------
(* What has been shared over a step.                                       *)

LEMMA OtherTurns ==
    ASSUME NEW p \in Party, Goes(p), NEW q, q = Peer(p), NEW n, NEW c
    PROVE  /\ Returned(q, n)' <=> Returned(q, n)
           /\ Past(q, n, c)' <=> Past(q, n, c)
           /\ Heard(q, n, c)' <=> Heard(q, n, c)
           /\ Spoken(q, n, c)' <=> Spoken(q, n, c)
<1>1. stage'[q] = stage[q] /\ fid'[q] = fid[q] /\ io'[q] = io[q] /\ calls'[q] = calls[q]
      /\ results'[q] = results[q]
  BY DEF Goes, Others
<1>2. Number(q)' = Number(q) /\ Turn(q)' = Turn(q) /\ HasRead(q)' = HasRead(q)
      /\ HasWritten(q)' = HasWritten(q)
  BY <1>1 DEF Number, Turn, HasRead, HasWritten
<1>3. Returned(q, n)' <=> Returned(q, n)
  BY <1>1 DEF Returned
<1> QED
  BY <1>1, <1>2, <1>3 DEF Past, Heard, Spoken

LEMMA AddedStays ==
    ASSUME CircuitInv, NEW p \in Party, Goes(p), ColumnsStay, Answered(R),
           NEW n \in DOMAIN calls[S], NEW c \in 0..Features(n), Heard(R, n, c), NEW b
    PROVE  Added(n, c, b)' = Added(n, c, b)
<1>1. Features(n) \in Nat
  BY FeaturesType DEF CircuitInv
<1>2. c \in Nat
  BY <1>1
<1>3. Spoken(S, n, c)
  BY TwoParties DEF Answered
<1>4. Column(S, n, c)' = Column(S, n, c) /\ Column(R, n, c)' = Column(R, n, c)
  BY <1>2, <1>3 DEF ColumnsStay
<1> QED
  BY <1>4 DEF Added

\* What a call has come to stays.
LEMMA JoinedStays ==
    ASSUME CircuitInv, NEW p \in Party, Goes(p), ColumnsStay, Answered(R),
           NEW n \in DOMAIN results[R], Joined(n)
    PROVE  Joined(n)'
<1>1. results'[R][n] = results[R][n] /\ n \in DOMAIN calls[S] /\ n \in DOMAIN calls[R]
      /\ calls'[R][n] = calls[R][n]
  BY RecordsLast, CallsNumbered, TwoParties DEF Numbered
<1>2. /\ Features(n)' = Features(n) /\ BinsOf(n)' = BinsOf(n) /\ Width(n)' = Width(n)
      /\ (Clean(n)' <=> Clean(n)) /\ \A bin, b : JoinRow(n, bin, b)' = JoinRow(n, bin, b)
  BY <1>1, CallsLastly
<1>3. SUFFICES ASSUME Returned(R, n)'
               PROVE  /\ WellShaped(R, n)'
                      /\ Clean(n)' =>
                         \E bin \in Injection(DOMAIN calls'[R][n].keys, 1..BinsOf(n)') :
                         \A b \in 1..BinsOf(n)' :
                            /\ \A c \in 0..Features(n)' : Added(n, c, b)' = JoinRow(n, bin, b)'[c + 1]
                            /\ \A c \in (2 + Features(n)')..Width(n)' :
                                  results'[R][n].columns[c][b] = JoinRow(n, bin, b)'[c]
  BY DEF Joined
<1>4. Returned(R, n)
  BY <1>1, <1>3 DEF Returned
<1>5. WellShaped(R, n)'
  BY <1>1, <1>2, <1>4 DEF Joined, WellShaped
<1>6. \A c : Heard(R, n, c)
  BY <1>4 DEF Heard, Past
<1>7. \A c \in 0..Features(n) : \A b : Added(n, c, b)' = Added(n, c, b)
  BY <1>1, <1>6, AddedStays
<1>8. ASSUME Clean(n)'
      PROVE  \E bin \in Injection(DOMAIN calls'[R][n].keys, 1..BinsOf(n)') :
               \A b \in 1..BinsOf(n)' :
                  /\ \A c \in 0..Features(n)' : Added(n, c, b)' = JoinRow(n, bin, b)'[c + 1]
                  /\ \A c \in (2 + Features(n)')..Width(n)' :
                        results'[R][n].columns[c][b] = JoinRow(n, bin, b)'[c]
  <2>1. PICK bin \in Injection(DOMAIN calls[R][n].keys, 1..BinsOf(n)) :
               \A b \in 1..BinsOf(n) :
                  /\ \A c \in 0..Features(n) : Added(n, c, b) = JoinRow(n, bin, b)[c + 1]
                  /\ \A c \in (2 + Features(n))..Width(n) :
                        results[R][n].columns[c][b] = JoinRow(n, bin, b)[c]
    BY <1>2, <1>4, <1>8 DEF Joined
  <2>2. bin \in Injection(DOMAIN calls'[R][n].keys, 1..BinsOf(n)')
    BY <1>1, <1>2, <2>1
  <2>3. \A b : JoinRow(n, bin, b)' = JoinRow(n, bin, b)
    BY <1>2
  <2>4. \A b \in 1..BinsOf(n) :
           /\ \A c \in 0..Features(n) : Added(n, c, b)' = JoinRow(n, bin, b)'[c + 1]
           /\ \A c \in (2 + Features(n))..Width(n) :
                 results'[R][n].columns[c][b] = JoinRow(n, bin, b)'[c]
    BY <1>1, <1>7, <2>1, <2>3
  <2> QED
    BY <1>2, <2>2, <2>4
<1> QED
  BY <1>5, <1>8

LEMMA SenderDoneStays ==
    ASSUME CircuitInv, NEW p \in Party, Goes(p), NEW n \in DOMAIN results[S], SenderDone(n)
    PROVE  SenderDone(n)'
<1>1. results'[S][n] = results[S][n] /\ n \in DOMAIN calls[S] /\ n \in DOMAIN calls[R]
  BY RecordsLast, CallsNumbered, TwoParties DEF Numbered
<1>2. Features(n)' = Features(n) /\ BinsOf(n)' = BinsOf(n) /\ Width(n)' = Width(n)
  BY <1>1, CallsLastly
<1>3. Returned(S, n)' => Returned(S, n)
  BY <1>1 DEF Returned
<1>4. WellShaped(S, n)' <=> WellShaped(S, n)
  BY <1>1, <1>2 DEF WellShaped
<1> QED
  BY <1>1, <1>2, <1>3, <1>4 DEF SenderDone

LEMMA FitsIs ==
    (\A k : k = Number(R) /\ stage[R] \in Compared =>
        \A c \in 0..Features(k) : Heard(R, k, c) =>
            \A b \in 1..BinsOf(k) : Added(k, c, b) = Held(k, c, b)) => Fits
BY DEF Fits

LEMMA FitsHold ==
    ASSUME CircuitInv, NEW p \in Party, Goes(p), ColumnsStay, Answered(R), Fits,
           stage[R] \in Compared, calls'[R] = calls[R], UNCHANGED <<cuckoo_table, opened>>,
           NEW n, n = Number(R),
           \A c \in 0..Features(n) : Heard(R, n, c)' =>
              Heard(R, n, c) \/ \A b \in 1..BinsOf(n) : Added(n, c, b)' = Held(n, c, b)'
    PROVE  Fits'
<1>1. ((\A k : k = Number(R) /\ stage[R] \in Compared =>
           \A c \in 0..Features(k) : Heard(R, k, c) =>
               \A b \in 1..BinsOf(k) : Added(k, c, b) = Held(k, c, b)) => Fits)'
  BY FitsIs, PTL
<1>2. n \in DOMAIN calls[S] /\ n \in DOMAIN calls[R] /\ Number(R)' = n
  BY InTurn, TwoParties DEF Number, TakesTurns
<1>3. Features(n)' = Features(n) /\ BinsOf(n)' = BinsOf(n)
  BY <1>2, CallsLastly
<1>4. ASSUME NEW c \in 0..Features(n), Heard(R, n, c), NEW b \in 1..BinsOf(n)
      PROVE  Added(n, c, b)' = Held(n, c, b)'
  <2>1. Added(n, c, b)' = Added(n, c, b)
    BY <1>2, <1>4, AddedStays
  <2>2. Held(n, c, b)' = Held(n, c, b)
    BY <1>2, HeldStays
  <2>3. Added(n, c, b) = Held(n, c, b)
    BY <1>4 DEF Fits
  <2> QED
    BY <2>1, <2>2, <2>3
<1>5. \A k : k = Number(R)' /\ stage'[R] \in Compared =>
          \A c \in 0..Features(k)' : Heard(R, k, c)' =>
              \A b \in 1..BinsOf(k)' : Added(k, c, b)' = Held(k, c, b)'
  BY <1>2, <1>3, <1>4
<1> QED
  BY <1>1, <1>5

LEMMA ShapedIs ==
    (\A q \in Party : \A n : n = Number(q) =>
        \A k \in DOMAIN output_shares[q] : DOMAIN output_shares[q][k] = 1..BinsOf(n)) => Shaped
BY DEF Shaped

LEMMA ShapedHolds ==
    ASSUME CircuitInv, NEW p \in Party, Goes(p), Shaped,
           \A n : n = Number(p)' =>
              \A k \in DOMAIN output_shares'[p] : DOMAIN output_shares'[p][k] = 1..BinsOf(n)'
    PROVE  Shaped'
<1>1. ((\A q \in Party : \A n : n = Number(q) =>
           \A k \in DOMAIN output_shares[q] : DOMAIN output_shares[q][k] = 1..BinsOf(n)) => Shaped)'
  BY ShapedIs, PTL
<1>2. ASSUME NEW q \in Party, q # p, NEW n, n = Number(q)', NEW k \in DOMAIN output_shares'[q]
      PROVE  DOMAIN output_shares'[q][k] = 1..BinsOf(n)'
  <2>1. q = Peer(p)
    BY <1>2, TwoParties
  <2>2. output_shares'[q] = output_shares[q] /\ calls'[q] = calls[q]
    BY <2>1 DEF Goes, Others
  <2>3. n = Number(q)
    BY <1>2, <2>2 DEF Number
  <2>4. DOMAIN output_shares[q][k] = 1..BinsOf(n)
    BY <1>2, <2>2, <2>3 DEF Shaped
  <2>5. stage[q] = "multiplexer"
    <3>1. output_shares[q] # <<>>
      BY <1>2, <2>2
    <3> QED
      BY <3>1, NoColumns
  <2>6. n \in DOMAIN calls[R]
    BY <2>3, <2>5, InTurn DEF Compared, TakesTurns
  <2>7. BinsOf(n)' = BinsOf(n)
    BY <2>6, CallsLastly
  <2> QED
    BY <2>2, <2>4, <2>7
<1>3. \A q \in Party : \A n : n = Number(q)' =>
          \A k \in DOMAIN output_shares'[q] : DOMAIN output_shares'[q][k] = 1..BinsOf(n)'
  BY <1>2
<1> QED
  BY <1>1, <1>3

LEMMA HintsHeldIf ==
    (\A k : k = Number(S) /\ k = Number(R) /\ stage[R] \in Opened /\ stage[S] \in Hinted =>
        \A f \in DOMAIN hint_features :
           /\ f \in DOMAIN contents
           /\ \A o \in opened :
                 hint_features[f][o] = Hidden(FeatureAt(k, f, KeyOf(o)), contents[f]))
    => HintsHeld
BY DEF HintsHeld

LEMMA HintsHeldHolds ==
    ASSUME CircuitInv, CircuitInv', NEW p \in Party, Goes(p), HintsHeld,
           p = S /\ stage[S] \in Hinted /\ stage'[S] \in Hinted =>
               \A f \in DOMAIN contents : f \in DOMAIN contents' /\ contents'[f] = contents[f],
           p = R /\ stage'[R] \in Opened =>
               /\ stage[R] \in Opened /\ calls'[R] = calls[R]
               /\ UNCHANGED <<opened, hint_features>>
    PROVE  HintsHeld'
<1>1. ((\A k : k = Number(S) /\ k = Number(R) /\ stage[R] \in Opened /\ stage[S] \in Hinted =>
          \A f \in DOMAIN hint_features :
             /\ f \in DOMAIN contents
             /\ \A o \in opened :
                   hint_features[f][o] = Hidden(FeatureAt(k, f, KeyOf(o)), contents[f]))
       => HintsHeld)'
  BY HintsHeldIf, PTL
<1>2. Opened \subseteq Hinted /\ Hinted \subseteq InCall
  BY StagesAre
<1>3. (CircuitInv => \A x \in Party : Numbered(x))'
  BY CallsNumbered, PTL
<1>4. ASSUME NEW k, k = Number(S)', k = Number(R)', stage'[R] \in Opened, stage'[S] \in Hinted,
             NEW f \in DOMAIN hint_features'
      PROVE  /\ f \in DOMAIN contents'
             /\ \A o \in opened' :
                   hint_features'[f][o] = Hidden(FeatureAt(k, f, KeyOf(o)), contents[f])'
  <2>1. /\ stage[R] \in Opened /\ stage[S] \in Hinted /\ k = Number(S) /\ k = Number(R)
        /\ calls'[R] = calls[R] /\ UNCHANGED <<opened, hint_features>>
        /\ \A g \in DOMAIN contents : g \in DOMAIN contents' /\ contents'[g] = contents[g]
    <3>1. CASE p = R
      <4>1. stage'[S] = stage[S] /\ calls'[S] = calls[S] /\ contents' = contents
        BY <3>1, TwoParties DEF Goes, Others
      <4> QED
        BY <1>4, <3>1, <4>1 DEF Number
    <3>2. CASE p = S
      <4>1. /\ stage'[R] = stage[R] /\ calls'[R] = calls[R]
            /\ UNCHANGED <<opened, hint_features>>
        BY <3>2, TwoParties DEF Goes, Others
      <4>2. Number(R) = k /\ stage[R] \in Opened
        BY <1>4, <4>1 DEF Number
      <4>3. k \notin DOMAIN results'[S]
        BY ZenonT(60), <1>2, <1>3, <1>4, TwoParties DEF Numbered
      <4>4. k \notin DOMAIN results[S]
        BY <3>2, <4>3 DEF Goes
      <4>5. ~Returned(S, k)
        BY <4>4 DEF Returned
      <4>6. Number(S) = k /\ stage[S] \in Hinted
        BY <4>2, <4>5, Meeting
      <4> QED
        BY <1>4, <3>2, <4>1, <4>2, <4>6
    <3> QED
      BY <3>1, <3>2, TwoParties
  <2>2. /\ f \in DOMAIN contents
        /\ \A o \in opened :
              hint_features[f][o] = Hidden(FeatureAt(k, f, KeyOf(o)), contents[f])
    BY <1>4, <2>1 DEF HintsHeld
  <2>3. k \in DOMAIN calls[S]
    BY <1>2, <2>1, CallsNumbered, TwoParties DEF Numbered
  <2>4. \A g, key : FeatureAt(k, g, key)' = FeatureAt(k, g, key)
    BY <2>3, CallsLastly
  <2>5. \A o : KeyOf(o)' = KeyOf(o)
    BY <2>1 DEF KeyOf, Current, Number
  <2>6. contents'[f] = contents[f] /\ f \in DOMAIN contents'
    BY <2>1, <2>2
  <2> QED
    BY <2>1, <2>2, <2>4, <2>5, <2>6 DEF Hidden
<1> QED
  BY <1>1, <1>4

LEMMA AllOpenedIf ==
    (\A k : k = Number(R) /\ stage[R] \in Opened /\ Clean(k) =>
        \A i \in DOMAIN calls[R][k].keys :
            calls[R][k].keys[i] \in Range(calls[S][k].keys) => \E o \in opened : o[1] = i)
    => AllOpened
BY DEF AllOpened, Current

LEMMA AllOpenedHolds ==
    ASSUME CircuitInv, NEW p \in Party, Goes(p), AllOpened,
           p = R /\ stage'[R] \in Opened =>
               stage[R] \in Opened /\ calls'[R] = calls[R] /\ opened' = opened
    PROVE  AllOpened'
<1>1. ((\A k : k = Number(R) /\ stage[R] \in Opened /\ Clean(k) =>
          \A i \in DOMAIN calls[R][k].keys :
              calls[R][k].keys[i] \in Range(calls[S][k].keys) => \E o \in opened : o[1] = i)
       => AllOpened)'
  BY AllOpenedIf, PTL
<1>2. ASSUME NEW k, k = Number(R)', stage'[R] \in Opened, Clean(k)',
             NEW i \in DOMAIN calls'[R][k].keys,
             calls'[R][k].keys[i] \in Range(calls'[S][k].keys)
      PROVE  \E o \in opened' : o[1] = i
  <2>1. stage[R] \in Opened /\ calls'[R] = calls[R] /\ opened' = opened
    <3>1. CASE p = R
      BY <1>2, <3>1
    <3>2. CASE p = S
      BY <1>2, <3>2, TwoParties DEF Goes, Others
    <3> QED
      BY <3>1, <3>2, TwoParties
  <2>2. k = Number(R)
    BY <1>2, <2>1 DEF Number
  <2>3. stage[R] \in InCall /\ stage[R] \notin Sizes
    BY <2>1, StagesAre
  <2>4. k \in DOMAIN calls[S]
    BY <2>2, <2>3, BothCalled, TwoParties
  <2>5. calls'[S][k] = calls[S][k] /\ (Clean(k)' <=> Clean(k))
    BY <2>4, CallsLastly, RecordsLast, TwoParties
  <2>6. calls'[R][k] = calls[R][k] /\ i \in DOMAIN Current(R).keys
        /\ Current(R).keys[i] \in Range(calls[S][k].keys)
    BY <1>2, <2>1, <2>2, <2>5 DEF Current
  <2>7. \E o \in opened : o[1] = i
    BY <1>2, <2>1, <2>2, <2>5, <2>6 DEF AllOpened
  <2> QED
    BY <2>1, <2>7
<1> QED
  BY <1>1, <1>2

LEMMA ContentStays ==
    ASSUME Goes(R), ContentSent
    PROVE  ContentSent'
<1>1. /\ stage'[S] = stage[S] /\ io'[S] = io[S] /\ fid'[S] = fid[S] /\ sent'[S] = sent[S]
      /\ contents' = contents
  BY TwoParties DEF Goes, Others
<1>2. HasWritten(S)' <=> HasWritten(S)
  BY <1>1 DEF HasWritten
<1> QED
  BY <1>1, <1>2 DEF ContentSent

-----------------------------------------------------------------------------
(* Steps outside of comparisons keep the invariant.                        *)

LEMMA QuietColumns ==
    ASSUME CircuitInv, NEW p \in Party, Quiet(p)
    PROVE  ColumnsStay
<1>1. Goes(p) /\ stage[p] \notin Compared /\ Others(p)
  BY DEF Quiet, Goes
<1>2. ASSUME NEW n, NEW c, Heard(p, n, c) \/ Spoken(p, n, c)
      PROVE  Column(p, n, c)' = Column(p, n, c)
  <2>1. n \in DOMAIN results[p]
    BY <1>1, <1>2 DEF Heard, Spoken, Past, Returned
  <2>2. n \in DOMAIN results'[p] /\ results'[p][n] = results[p][n]
    BY <1>1, <2>1 DEF Goes
  <2> QED
    BY <2>1, <2>2 DEF Column
<1>3. ASSUME NEW n, NEW c
      PROVE  Column(Peer(p), n, c)' = Column(Peer(p), n, c)
  BY <1>1, OtherColumns
<1> QED
  BY <1>2, <1>3, TwoParties DEF ColumnsStay

LEMMA QuietIsSmooth ==
    ASSUME CircuitInv, NEW p \in Party, Quiet(p)
    PROVE  Smooth(p)
<1>1. TurnsStay
  BY QuietTurns DEF TurnsStay
<1>2. Goes(p) /\ stage[p] \notin Compared /\ (stage[p] \in Opened => stage'[p] \in Opened)
      /\ (p = S /\ stage[S] \in Hinted =>
            \A f \in DOMAIN contents : f \in DOMAIN contents' /\ contents'[f] = contents[f])
  BY DEF Quiet
<1>3. Opened \subseteq Hinted
  BY StagesAre
<1> QED
  BY <1>1, <1>2, <1>3, QuietColumns DEF Smooth

\* What the invariant comes to after a step in which nothing is heard or said.
LEMMA SmoothKeeps ==
    ASSUME CircuitInv, CircuitInv', SharesInv, NEW p \in Party, Smooth(p), Uses(p),
           Fits', HintsHeld', AllOpened', ContentSent', Shaped',
           \A n \in DOMAIN results'[R] : n \in DOMAIN results[R] \/ Joined(n)',
           \A n \in DOMAIN results'[S] : n \in DOMAIN results[S] \/ SenderDone(n)'
    PROVE  SharesInv'
<1>1. Turns'
  BY SmoothTurns DEF SharesInv
<1>2. Goes(p) /\ ColumnsStay /\ Answered(R)
  BY TwoParties DEF Smooth, SharesInv, Turns
<1>3. \A n \in DOMAIN results'[R] : Joined(n)'
  BY <1>2, JoinedStays DEF SharesInv
<1>4. \A n \in DOMAIN results'[S] : SenderDone(n)'
  BY <1>2, SenderDoneStays DEF SharesInv
<1> QED
  BY <1>1, <1>3, <1>4 DEF SharesInv

LEMMA QuietKeeps ==
    ASSUME CircuitInv, CircuitInv', SharesInv, NEW p \in Party, Quiet(p), Uses(p),
           p = R /\ stage'[R] \in Opened => HintsHeld' /\ AllOpened'
    PROVE  SharesInv'
<1>1. Smooth(p) /\ Goes(p) /\ ColumnsStay /\ TurnsStay /\ Others(p)
  BY QuietIsSmooth DEF Smooth, Goes
<1>2. Turns /\ ContentSent /\ HintsHeld /\ AllOpened /\ Shaped /\ Fits /\ Answered(R)
  BY TwoParties DEF SharesInv, Turns
<1>3. stage[p] \notin Compared /\ (stage'[p] \in Compared => stage'[p] = "equal")
      /\ \A n \in DOMAIN results'[p] : n \in DOMAIN results[p] \/ Threw(results'[p][n])
  BY DEF Quiet
<1>4. Fits'
  <2>1. CASE p = S
    <3>1. calls'[R] = calls[R] /\ stage'[R] = stage[R] /\ UNCHANGED <<cuckoo_table, opened>>
      BY <1>1, <2>1, TwoParties DEF Others
    <3>2. CASE stage[R] \notin Compared
      BY <3>1, <3>2 DEF Fits
    <3>3. CASE stage[R] \in Compared
      <4>1. PICK n : n = Number(R)
        OBVIOUS
      <4>2. \A c : Heard(R, n, c)' => Heard(R, n, c)
        BY <1>1, <2>1, OtherTurns, TwoParties
      <4> QED
        BY <1>1, <1>2, <3>1, <3>3, <4>1, <4>2, FitsHold
    <3> QED
      BY <3>2, <3>3
  <2>2. CASE p = R
    <3>1. ((\A k : k = Number(R) /\ stage[R] \in Compared =>
           \A c \in 0..Features(k) : Heard(R, k, c) =>
               \A b \in 1..BinsOf(k) : Added(k, c, b) = Held(k, c, b)) => Fits)'
      BY FitsIs, PTL
    <3>2. ASSUME NEW k, k = Number(R)', stage'[R] \in Compared, NEW c \in 0..Features(k)',
                 Heard(R, k, c)'
          PROVE  FALSE
      <4>1. (CircuitInv => \A x \in Party : TakesTurns(x))'
        BY InTurn, PTL
      <4>2. k \notin DOMAIN results'[R]
        BY <3>2, <4>1, TwoParties DEF TakesTurns
      <4>3. c \in Nat
        OBVIOUS
      <4>4. Heard(R, k, c)
        BY <3>2, <4>3, QuietTurns, TwoParties
      <4>5. k \in DOMAIN results[R]
        BY <1>3, <2>2, <4>4 DEF Heard, Past, Returned
      <4> QED
        BY <1>1, <2>2, <4>2, <4>5 DEF Goes
    <3> QED
      BY <3>1, <3>2
  <2> QED
    BY <2>1, <2>2, TwoParties
<1>5. HintsHeld'
  <2>1. p = S /\ stage[S] \in Hinted =>
          \A f \in DOMAIN contents : f \in DOMAIN contents' /\ contents'[f] = contents[f]
    BY DEF Quiet
  <2> QED
    BY <1>1, <1>2, <2>1, HintsHeldHolds, TwoParties
<1>6. AllOpened'
  BY <1>1, <1>2, AllOpenedHolds, TwoParties
<1>7. ContentSent'
  <2>1. CASE p = R
    BY <1>1, <1>2, <2>1, ContentStays
  <2>2. CASE p = S
    <3>1. stage'[S] # "multiplexer"
      BY <1>3, <2>2 DEF Compared
    <3> QED
      BY <3>1 DEF ContentSent
  <2> QED
    BY <2>1, <2>2, TwoParties
<1>8. Shaped'
  <2>1. Control(p)'
    BY DEF CircuitInv
  <2>2. stage'[p] # "multiplexer"
    BY <1>3 DEF Compared
  <2>3. output_shares'[p] = <<>>
    BY <2>1, <2>2 DEF Control
  <2> QED
    BY <1>1, <1>2, <2>3, ShapedHolds
<1>9. \A n \in DOMAIN results'[R] : n \in DOMAIN results[R] \/ Joined(n)'
  <2>1. ASSUME NEW n \in DOMAIN results'[R], n \notin DOMAIN results[R]
        PROVE  Joined(n)'
    <3>1. p = R
      BY <1>1, <2>1, TwoParties DEF Others
    <3>2. ~Returned(R, n)'
      BY <1>3, <2>1, <3>1 DEF Returned
    <3> QED
      BY <3>2 DEF Joined
  <2> QED
    BY <2>1
<1>10. \A n \in DOMAIN results'[S] : n \in DOMAIN results[S] \/ SenderDone(n)'
  <2>1. ASSUME NEW n \in DOMAIN results'[S], n \notin DOMAIN results[S]
        PROVE  SenderDone(n)'
    <3>1. p = S
      BY <1>1, <2>1, TwoParties DEF Others
    <3>2. ~Returned(S, n)'
      BY <1>3, <2>1, <3>1 DEF Returned
    <3> QED
      BY <3>2 DEF SenderDone
  <2> QED
    BY <2>1
<1> QED
  BY <1>1, <1>4, <1>5, <1>6, <1>7, <1>8, <1>9, <1>10, SmoothKeeps
=============================================================================
