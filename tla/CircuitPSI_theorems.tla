------------------------- MODULE CircuitPSI_theorems -------------------------
(***************************************************************************)
(* What holds of CircuitPSI: its invariant and what the runs check of it;  *)
(* since every step keeps what the columns of the two parties add up to,   *)
(* that the shares are those of the join; and that, with the columns left  *)
(* out, every step is one of JoinIdeal or changes nothing in it.            *)
(***************************************************************************)
EXTENDS CircuitPSI_steps

-----------------------------------------------------------------------------
(* What follows from the order of messages.                                *)

\* Each channel holds the messages between its two ends, each party knows what it
\* has been told, and finished calls have ended alike.
THEOREM CircuitInvariant == Spec => []CircuitInv
<1>1. Init => CircuitInv
  BY InitHolds
<1>2. CircuitInv /\ [Next]_vars => CircuitInv'
  BY NextHolds
<1> QED
  BY <1>1, <1>2, PTL DEF Spec

\* Every variable has the type its C++ counterpart gives it; no sum or difference
\* of features leaves the words, and a hint is opened by one hint function.
THEOREM TypeCorrect == Spec => []TypeOK
<1>1. CircuitInv => TypeOK
  BY DEF CircuitInv
<1> QED
  BY <1>1, CircuitInvariant, PTL

\* What a read asks for is what comes next in the channel, and as long.
LEMMA ReadsFit == ASSUME CircuitInv PROVE WireSync
<1>1. ASSUME NEW p \in Party, io[p] = "recv", chan[p] # <<>>,
             NEW m, m = Head(chan[p])
      PROVE  /\ m.is = stage[p] /\ m.fid = fid[p]
             /\ stage[p] = "ot" => m.width.number = Bins(p)
             /\ stage[p] \in {"hint", "feature_hint"} => m.width.number = HintBins(p)
  <2>1. AreSequences /\ InOrder(p)
    BY DEF CircuitInv
  <2>2. PICK k \in 0..MaxCalls : Carries(p, Last(p, p), k, m)
    BY <1>1, <2>1, HeadFollows
  <2>3. PICK n : n = Number(p)
    OBVIOUS
  <2>4. k = n /\ m.is = stage[p] /\ m.fid = fid[p]
    BY <1>1, <2>2, <2>3, FoundMessage
  <2>5. Says(p, n, m)
    BY <2>2, <2>4 DEF Carries
  <2>6. ASSUME stage[p] = "ot"
        PROVE  m.width.number = Bins(p)
    <3>1. m.width.number = BinsOf(n)
      BY <2>4, <2>5, <2>6 DEF Says
    <3> QED
      BY <2>3, <2>6, <3>1, BinsAgree, SomeStages
  <2>7. ASSUME stage[p] \in {"hint", "feature_hint"}
        PROVE  m.width.number = HintBins(p)
    <3>1. m.width.number = HintBinsOf(n)
      BY <2>4, <2>5, <2>7 DEF Says, Words
    <3> QED
      BY <2>3, <2>7, <3>1, BinsAgree, SomeStages
  <2> QED
    BY <2>4, <2>6, <2>7
<1> QED
  BY <1>1 DEF WireSync

THEOREM WiresInSync == Spec => []WireSync
BY CircuitInvariant, ReadsFit, PTL

\* Two parties that have ended a call have ended it alike.
LEMMA EndedAlike ==
    ASSUME CircuitInv, NEW n \in DOMAIN results[S], n \in DOMAIN results[R]
    PROVE  /\ \A table \in {"stash", "hint_stash"} :
                 results[S][n] = [threw |-> table] <=> results[R][n] = [threw |-> table]
           /\ Threw(results[S][n]) <=> Threw(results[R][n])
<1>1. Ended
  BY DEF CircuitInv
<1>2. results[S][n] = Stashed <=> results[R][n] = Stashed
  BY <1>1 DEF Ended, ThroughStash
<1>3. results[R][n] = HintStashed => results[S][n] = HintStashed
  BY <1>1 DEF Ended
<1>4. ~Threw(results[R][n]) => ~Threw(results[S][n])
  BY <1>1 DEF Ended, ThroughHint
<1> QED
  BY <1>2, <1>3, <1>4, ThrewIs DEF Stashed, HintStashed

\* Between two calls the channels are empty, and the common streams are where the
\* failures of the second table have left them.
LEMMA ReadyBetween == ASSUME CircuitInv PROVE ReadyForNext
<1>1. ASSUME \A p \in Party : stage[p] = "idle", NEW n, n = Number(S), n = Number(R)
      PROVE  /\ \A p \in Party : chan[p] = <<>>
             /\ common_prng[S].seed = common_prng[R].seed
             /\ common_prng[S].draws = common_prng[R].draws + Failures(S, "hint_stash", n)
  <2>1. /\ "idle" \notin InCall /\ "idle" \notin TwoWay
        /\ "idle" \notin Range(Checked) \cup {"seed", "threw"}
        /\ "idle" \notin {"feature_hint", "multiplexer"}
    BY StagesAre, TwoWayStages, CheckedIs DEF Rest
  <2>2. \A p \in Party : /\ n \in Nat /\ DOMAIN calls[p] = 1..n /\ DOMAIN results[p] = 1..n
                         /\ n = Number(p)
    BY <1>1, <2>1, CallNumber, TwoParties
  <2>3. ASSUME NEW p \in Party
        PROVE  chan[p] = <<>>
    <3>1. SUFFICES ASSUME chan[p] # <<>> PROVE FALSE
      OBVIOUS
    <3>2. PICK k, m : Carries(p, Last(p, p), k, m)
      BY <3>1, HeadFollows DEF CircuitInv
    <3>3. Last(p, p) = LastOf(p, p, n)
      BY <1>1, <2>1, <2>2, AtStart, PreviousIs
    <3>4. n = 0 \/ n \in DOMAIN results[p]
      BY <2>2
    <3>5. k = n + 1 /\ m.is \in {"receiver_data", "sender_data"}
      BY <2>2, <3>2, <3>3, <3>4, AfterCall
    <3>6. k \in DOMAIN calls[Peer(p)]
      BY <3>2, <3>5, InitStages DEF Carries, Says
    <3> QED
      BY <2>2, <3>5, <3>6, TwoParties
  <2>4. ASSUME NEW p \in Party
        PROVE  common_prng[p] = [seed |-> {1, 2}, draws |-> Drawn(p, n + 1)]
    <3>1. Control(p)
      BY DEF CircuitInv
    <3> QED
      BY Zenon, <1>1, <2>1, <2>2, <3>1 DEF Control, Draws
  <2>5. \A table \in {"stash", "hint_stash"} : Failures(S, table, n) = Failures(R, table, n)
    <3>1. ASSUME NEW table \in {"stash", "hint_stash"}
          PROVE  {k \in 1..n : results[S][k] = [threw |-> table]}
                   = {k \in 1..n : results[R][k] = [threw |-> table]}
      BY <2>2, <3>1, EndedAlike, TwoParties
    <3> QED
      BY <3>1 DEF Failures
  <2>6. PICK stash, hint_stash \in Nat :
           /\ stash = Failures(S, "stash", n) /\ stash = Failures(R, "stash", n)
           /\ hint_stash = Failures(S, "hint_stash", n)
           /\ hint_stash = Failures(R, "hint_stash", n)
    BY <2>2, <2>5, FailuresType, TwoParties
  <2>7. PICK k : k = n + 1 /\ k - 1 = n
    BY <2>2, TwoParties
  <2>8. Drawn(S, k) = 2 * n - stash /\ Drawn(R, k) = 2 * n - stash - hint_stash
    <3>1. Drawn(S, k) = 2 * n - stash
      <4>1. Drawn(S, k) = 2 * (k - 1) - Failures(S, "stash", k - 1) - 0
        BY TwoParties DEF Drawn
      <4> QED
        BY <2>2, <2>6, <2>7, <4>1, TwoParties
    <3>2. Drawn(R, k) = 2 * n - stash - hint_stash
      <4>1. Drawn(R, k) = 2 * (k - 1) - Failures(R, "stash", k - 1)
                             - Failures(R, "hint_stash", k - 1)
        BY DEF Drawn
      <4> QED
        BY <2>2, <2>6, <2>7, <4>1, TwoParties
    <3> QED
      BY <3>1, <3>2
  <2>9. /\ common_prng[S] = [seed |-> {1, 2}, draws |-> Drawn(S, k)]
        /\ common_prng[R] = [seed |-> {1, 2}, draws |-> Drawn(R, k)]
    <3>1. S \in Party /\ R \in Party
      BY TwoParties
    <3> QED
      BY <2>4, <2>7, <3>1
  <2>10. common_prng[S].draws = common_prng[R].draws + hint_stash
    <3>1. /\ common_prng[S].draws = Drawn(S, k) /\ common_prng[R].draws = Drawn(R, k)
      BY <2>9
    <3> QED
      BY <2>2, <2>8, <3>1, TwoParties
  <2>11. common_prng[S].seed = common_prng[R].seed
    BY <2>9
  <2> QED
    BY <2>3, <2>6, <2>10, <2>11
<1> QED
  BY <1>1 DEF ReadyForNext, S, R

THEOREM ReadyAgain == Spec => []ReadyForNext
BY CircuitInvariant, ReadyBetween, PTL

LEMMA ThrowsAlike == ASSUME CircuitInv PROVE ThrowAgreement
<1>1. ASSUME NEW p \in Party, stage[p] = "threw", NEW q, q = Peer(p)
      PROVE  \/ stage[q] = "threw"
             \/ stage[q] \in Range(Checked) /\ params[p][stage[q]] # params[q][stage[q]]
  <2>1. Knows(p) /\ Knows(q) /\ q \in Party /\ p = Peer(q)
    BY <1>1, TwoParties DEF CircuitInv
  <2>2. PICK k \in DOMAIN Checked : Differ(k) /\ Reached(q, k)
    BY <1>1, <2>1 DEF Knows
  <2>3. params[p][Checked[k]] # params[q][Checked[k]]
    BY <1>1, <2>2, TwoParties DEF Differ
  <2>4. stage[q] \in {Checked[j] : j \in 1..k} \cup {"threw"}
    BY <2>1, <2>3 DEF Knows
  <2>5. stage[q] # "threw" => stage[q] = Checked[k]
    <3>1. k \in 1..4
      BY CheckedIs
    <3>2. \A j \in 1..k : j = k \/ j \in 1..(k - 1)
      BY <3>1
    <3> QED
      BY <2>2, <2>4, <3>2 DEF Reached
  <2> QED
    BY <2>3, <2>5, CheckedIs
<1>2. ASSUME NEW n \in DOMAIN results[S] \cap DOMAIN results[R]
      PROVE  results[S][n] = results[R][n] \/ Finished(n)
  <2>1. /\ \A table \in {"stash", "hint_stash"} :
              results[S][n] = [threw |-> table] <=> results[R][n] = [threw |-> table]
        /\ Threw(results[S][n]) <=> Threw(results[R][n])
    BY EndedAlike
  <2>2. CASE Threw(results[S][n])
    BY <2>1, <2>2, ThrewIs DEF Stashed, HintStashed
  <2>3. CASE ~Threw(results[S][n])
    BY <2>1, <2>3, TwoParties DEF Finished
  <2> QED
    BY <2>2, <2>3
<1> QED
  BY <1>1, <1>2 DEF ThrowAgreement, S, R

THEOREM ThrowsAgree == Spec => []ThrowAgreement
BY CircuitInvariant, ThrowsAlike, PTL

-----------------------------------------------------------------------------
(* Every step outside of comparisons but those with hints.                 *)

LEMMA OthersStay ==
    ASSUME CircuitInv, NEW p \in Party, NEW s \in Stages, NEW f \in Nat \ {0}, EnterAt(p, s, f),
           UNCHANGED <<params, calls, results, sent, remote, output_shares>>,
           \A q \in Party \ {p} :
              /\ peer_size'[q] = peer_size[q] /\ common_prng'[q] = common_prng[q]
              /\ stash_size'[q] = stash_size[q],
           p = S => UNCHANGED <<cuckoo_table, opened, hint_features>>,
           p = R => UNCHANGED <<hint_table, contents>>
    PROVE  Others(p)
<1>1. Peer(p) \in Party \ {p}
  BY TwoParties
<1> QED
  BY <1>1, Entered DEF Others

LEMMA SendsPlainly ==
    ASSUME NEW p \in Party, NEW width, NEW value, Post(p, width, value), stage[p] \notin Opened
    PROVE  Uses(p)
<1>1. PICK m : m = [is |-> stage[p], fid |-> fid[p], width |-> width, value |-> value]
  BY Zenon
<1>2. m.is = stage[p] /\ m.is \notin Opened /\ m.is \notin Compared /\ m.is # "feature_hint"
  BY <1>1 DEF Opened
<1>3. ToReceiver(m)'
  BY <1>2 DEF ToReceiver
<1>4. stage[p] \notin Compared
  BY <1>2
<1> QED
  BY <1>1, <1>2, <1>3, <1>4, Zenon DEF Sends, Uses

\* A step the shares do not depend on.
Slight(p) == Quiet(p) /\ Uses(p) /\ (p = R => stage'[R] \notin Opened)

LEMMA Moves ==
    ASSUME CircuitInv, NEW p \in Party, NEW s \in Stages, NEW f \in Nat \ {0}, EnterAt(p, s, f),
           Others(p), UNCHANGED <<calls, results, contents>>, stage[p] \notin Opened,
           p = R => s \notin Opened, s \in Compared => s = "equal", Uses(p)
    PROVE  Slight(p)
<1>1. stage'[p] = s /\ io'[p] = Starts(s, p)
  BY Entered
<1>2. stage[p] \notin Compared
  BY StagesAre
<1> QED
  BY <1>1, <1>2 DEF Slight, Quiet, Goes

LEMMA Throws ==
    ASSUME CircuitInv, NEW p \in Party, NEW result \in {Stashed, HintStashed}, End(p, result),
           UNCHANGED <<params, calls, sent, remote, peer_size, common_prng>>,
           stage[p] \in InCall, stage[p] \notin Hinted, Uses(p)
    PROVE  Slight(p)
<1>1. "idle" \in Stages /\ "idle" \notin Opened /\ "idle" \notin Compared /\ 1 \in Nat \ {0}
      /\ stage[p] \notin Opened /\ stage[p] \notin Compared /\ Peer(p) \in Party \ {p}
  BY StagesAre, TwoParties DEF Rest, Opened, Compared
<1>2. /\ EnterAt(p, "idle", 1) /\ results'[p] = Append(results[p], result)
      /\ \A q \in Party \ {p} : /\ results'[q] = results[q]
                                /\ stash_size'[q] = stash_size[q]
                                /\ output_shares'[q] = output_shares[q]
      /\ p = S => UNCHANGED <<cuckoo_table, opened, hint_features>>
      /\ p = R => UNCHANGED <<hint_table, contents>>
  BY EndedLocals
<1>3. /\ stage'[p] = "idle"
      /\ \A q \in Party \ {p} : stage'[q] = stage[q] /\ io'[q] = io[q] /\ fid'[q] = fid[q]
  BY <1>1, <1>2, Entered
<1>4. Others(p)
  BY <1>1, <1>2, <1>3 DEF Others
<1>5. /\ DOMAIN results'[p] = 1..Number(p) /\ results'[p][Number(p)] = result
      /\ DOMAIN results[p] = 1..(Number(p) - 1) /\ Number(p) \in Nat \ {0}
      /\ \A k \in DOMAIN results[p] : results'[p][k] = results[p][k]
  BY ZenonT(60), <1>2, ResultAdded
<1>6. \A n \in DOMAIN results[p] : n \in DOMAIN results'[p] /\ results'[p][n] = results[p][n]
  BY <1>5
<1>7. \A n \in DOMAIN results'[p] : n \in DOMAIN results[p] \/ Threw(results'[p][n])
  <2>1. \A n \in 1..Number(p) : n \in 1..(Number(p) - 1) \/ n = Number(p)
    BY <1>5
  <2>2. Threw(result)
    BY ThrewIs
  <2> QED
    BY <1>5, <2>1, <2>2
<1>8. Goes(p)
  BY <1>4, <1>6 DEF Goes
<1> QED
  BY <1>1, <1>3, <1>7, <1>8 DEF Slight, Quiet

LEMMA SetupSlight ==
    ASSUME CircuitInv, NEW p \in Party, CheckParam(p) \/ CreateCommonPrng(p) \/ FinishInit(p)
    PROVE  Slight(p)
<1>1. /\ UNCHANGED <<params, calls, results, sent, remote, peer_size, locals, chan>>
      /\ \A q \in Party \ {p} : common_prng'[q] = common_prng[q]
  <2>1. DOMAIN common_prng = Party
    BY DEF CircuitInv, TypeOK
  <2> QED
    BY <2>1 DEF CheckParam, CreateCommonPrng, FinishInit, values
<1>2. UNCHANGED <<cuckoo_table, hint_table, stash_size, contents, opened, hint_features,
                  output_shares>>
  BY <1>1 DEF locals, tables
<1>3. PICK s \in {"threw", "epsilon", "epsilon_hint", "num_of_fun", "num_of_fun_hint", "seed",
                  "base_ot", "mpc", "idle"} : EnterAt(p, s, 1) /\ stage[p] \in InInit
  <2>1. CASE CheckParam(p)
    <3>1. PICK k \in DOMAIN Checked :
             /\ stage[p] = Checked[k]
             /\ EnterAt(p, IF params[p][Checked[k]] # remote[p] THEN "threw"
                           ELSE IF k < Len(Checked) THEN Checked[k + 1] ELSE "seed", 1)
      BY <2>1 DEF CheckParam, At, Enter
    <3>2. k \in {1, 2, 3, 4}
      BY <3>1, CheckedIs
    <3> QED
      BY <3>1, <3>2, CheckedIs, InitStages
  <2>2. CASE CreateCommonPrng(p) \/ FinishInit(p)
    BY <2>2, InitStages DEF CreateCommonPrng, FinishInit, At, Enter
  <2> QED
    BY <2>1, <2>2
<1>4. /\ s \in Stages /\ s \notin Opened /\ s \notin Compared /\ 1 \in Nat \ {0}
      /\ stage[p] \notin Opened
  BY <1>3, StagesAre, InitStages DEF Rest, Opened, Compared
<1>5. Others(p)
  BY <1>1, <1>2, <1>3, <1>4, OthersStay
<1> QED
  BY <1>1, <1>2, <1>3, <1>4, <1>5, Moves DEF Uses

LEMMA HalfSlight ==
    ASSUME CircuitInv, NEW p \in Party, SendValue(p) \/ RecvValue(p), stage[p] \notin Compared
    PROVE  Slight(p)
<1>1. /\ stage[p] \in TwoWay /\ io[p] \in {"send", "recv"} /\ Half(p)
      /\ UNCHANGED <<params, calls, results, peer_size, common_prng, locals>>
      /\ \A q \in Party \ {p} : sent'[q] = sent[q] /\ remote'[q] = remote[q]
      /\ (\E width, value : Post(p, width, value)) \/ (\E width : Take(p, width))
  <2>1. DOMAIN sent = Party /\ DOMAIN remote = Party
    BY DEF CircuitInv, AreSequences
  <2>2. CASE SendValue(p)
    BY <2>1, <2>2 DEF SendValue
  <2>3. CASE RecvValue(p)
    BY <2>1, <2>3 DEF RecvValue
  <2> QED
    BY <2>2, <2>3
<1>2. UNCHANGED <<cuckoo_table, hint_table, stash_size, contents, opened, hint_features,
                  output_shares>>
  BY <1>1 DEF locals, tables
<1>3. /\ stage' = stage /\ fid' = fid /\ \A q \in Party \ {p} : io'[q] = io[q]
  BY <1>1, HalfWrites, HalfReads
<1>4. Peer(p) \in Party \ {p} /\ stage[p] \notin Opened
  BY <1>1, TwoParties, TwoWayStages
<1>5. Goes(p)
  BY <1>1, <1>2, <1>3, <1>4 DEF Goes, Others
<1>6. Uses(p)
  BY <1>1, <1>4, SendsPlainly DEF Uses
<1> QED
  BY <1>1, <1>2, <1>3, <1>4, <1>5, <1>6 DEF Slight, Quiet

LEMMA SizesSlight ==
    ASSUME CircuitInv, NEW p \in Party, SendSize(p) \/ RecvSize(p)
    PROVE  Slight(p)
<1>1. PICK t : t = AfterSize(stage[p])
  OBVIOUS
<1>2. /\ stage[p] \in Sizes /\ EnterAt(p, t, 1)
      /\ UNCHANGED <<params, calls, results, sent, remote, common_prng, locals>>
      /\ \A q \in Party \ {p} : peer_size'[q] = peer_size[q]
      /\ (\E width, value : Post(p, width, value)) \/ (\E width : Take(p, width))
  <2>1. DOMAIN peer_size = Party
    BY DEF CircuitInv, TypeOK
  <2>2. CASE SendSize(p)
    BY <1>1, <2>1, <2>2 DEF SendSize, Enter, values
  <2>3. CASE RecvSize(p)
    BY <1>1, <2>1, <2>3 DEF RecvSize, Enter
  <2> QED
    BY <2>2, <2>3
<1>3. UNCHANGED <<cuckoo_table, hint_table, stash_size, contents, opened, hint_features,
                  output_shares>>
  BY <1>2 DEF locals, tables
<1>4. /\ t \in Stages /\ t \notin Opened /\ t \notin Compared /\ 1 \in Nat \ {0}
      /\ stage[p] \notin Opened
  BY <1>1, <1>2, SizeStages, StagesAre DEF Opened, Compared
<1>5. Others(p)
  BY <1>2, <1>3, <1>4, OthersStay
<1>6. Uses(p)
  BY <1>2, <1>4, SendsPlainly DEF Uses
<1> QED
  BY <1>2, <1>3, <1>4, <1>5, <1>6, Moves

LEMMA ProcessSlight ==
    ASSUME CircuitInv, NEW p \in Party, Process(p)
    PROVE  Slight(p)
<1>1. /\ stage[p] = "idle" /\ EnterAt(p, "receiver_data", 1)
      /\ UNCHANGED <<params, results, sent, remote, peer_size, common_prng, locals, chan>>
  BY DEF Process, Enter, values
<1>2. UNCHANGED <<cuckoo_table, hint_table, stash_size, contents, opened, hint_features,
                  output_shares>>
  BY <1>1 DEF locals, tables
<1>3. PICK call \in Calls[p] : calls' = [calls EXCEPT ![p] = Append(@, call)]
  BY Zenon DEF Process
<1>4. /\ "receiver_data" \in Stages /\ "receiver_data" \notin Opened /\ 1 \in Nat \ {0}
      /\ "receiver_data" \notin Compared /\ "idle" \notin Opened /\ "idle" \notin Compared
      /\ "idle" \notin Hinted
  BY SizeStages, StagesAre DEF Opened, Compared, Hinted
<1>5. /\ stage'[p] = "receiver_data"
      /\ \A q \in Party \ {p} :
            stage'[q] = stage[q] /\ io'[q] = io[q] /\ fid'[q] = fid[q]
  BY <1>1, <1>4, Entered
<1>6. /\ \A q \in Party \ {p} : calls'[q] = calls[q]
      /\ \A n \in DOMAIN calls[p] : n \in DOMAIN calls'[p] /\ calls'[p][n] = calls[p][n]
  <2>1. DOMAIN calls = Party /\ calls[p] \in Seq(Calls[p])
    BY DEF CircuitInv, AreSequences
  <2>2. calls'[p] = Append(calls[p], call)
    BY <1>3, <2>1
  <2> QED
    BY <1>3, <2>1, <2>2
<1>7. Peer(p) \in Party \ {p}
  BY TwoParties
<1>8. Others(p)
  BY <1>1, <1>2, <1>5, <1>6, <1>7 DEF Others
<1>9. Goes(p)
  BY <1>1, <1>6, <1>8 DEF Goes
<1>10. Quiet(p)
  BY <1>1, <1>4, <1>5, <1>9 DEF Quiet
<1> QED
  BY <1>1, <1>4, <1>5, <1>10 DEF Slight, Uses

\* A step of a call up to the hints.
LEMMA PlainSlight ==
    ASSUME CircuitInv, NEW p \in Party, NEW s \in Stages, EnterAt(p, s, 1),
           UNCHANGED <<params, calls, results, sent, remote, peer_size, contents, opened,
                       hint_features, output_shares>>,
           \A q \in Party \ {p} :
              common_prng'[q] = common_prng[q] /\ stash_size'[q] = stash_size[q],
           p = S => cuckoo_table' = cuckoo_table, p = R => hint_table' = hint_table,
           stage[p] \notin Opened, p = R => s \notin Opened,
           s \in Compared => s = "equal",
           chan' = chan \/ (\E width : Take(p, width)) \/ (\E width, value : Post(p, width, value))
    PROVE  Slight(p)
<1>1. 1 \in Nat \ {0}
  OBVIOUS
<1>2. Others(p)
  BY <1>1, OthersStay
<1>3. Uses(p)
  BY SendsPlainly DEF Uses
<1> QED
  BY <1>1, <1>2, <1>3, Moves

LEMMA HashSlight ==
    ASSUME CircuitInv, NEW p \in Party,
           \/ p = S /\ (SimpleHash \/ HintHash)
           \/ p = R /\ CuckooHash
    PROVE  Slight(p)
<1>1. DOMAIN stash_size = Party
  BY DEF CircuitInv, TypeOK
<1>2. /\ stage[p] \in {"hash", "hint_hash"} /\ Draw(p) /\ chan' = chan
      /\ UNCHANGED <<params, calls, results, sent, remote, peer_size, contents, opened,
                     hint_features, output_shares>>
      /\ p = S => cuckoo_table' = cuckoo_table
      /\ p = R => hint_table' = hint_table
      /\ \A q \in Party \ {p} : stash_size'[q] = stash_size[q]
  <2>1. CASE p = S /\ SimpleHash
    BY <2>1, TwoParties DEF SimpleHash, S, values, locals, tables
  <2>2. CASE p = S /\ HintHash
    BY <1>1, <2>2, TwoParties DEF HintHash, S, values
  <2>3. CASE p = R /\ CuckooHash
    BY <1>1, <2>3, TwoParties DEF CuckooHash, R, values
  <2> QED
    BY <2>1, <2>2, <2>3
<1>3. PICK s \in {"stash", "hint_stash"} : EnterAt(p, s, 1)
  BY DEF SimpleHash, HintHash, CuckooHash, Enter, S, R
<1>4. s \in Stages /\ s \notin Opened /\ s \notin Compared /\ stage[p] \notin Opened
  BY <1>2, <1>3, SomeStages DEF Opened, Compared
<1>5. \A q \in Party \ {p} : common_prng'[q] = common_prng[q]
  BY <1>2, DrawType DEF CircuitInv
<1> QED
  BY <1>2, <1>3, <1>4, <1>5, PlainSlight

LEMMA TransferSlight ==
    ASSUME CircuitInv, NEW p \in Party,
           \/ p = S /\ (OtSend \/ SendHint)
           \/ p = R /\ OtReceive
    PROVE  Slight(p)
<1>1. /\ stage[p] \in {"ot", "hint"}
      /\ UNCHANGED <<params, calls, results, sent, remote, peer_size, common_prng, locals>>
      /\ (\E width : Take(p, width)) \/ (\E width, value : Post(p, width, value))
      /\ \E s \in {"hint_hash", "hint_stash", "feature_hint", "equal"} :
            EnterAt(p, s, 1) /\ (p = R => s = "hint_stash")
  <2>1. CASE p = S /\ OtSend
    BY <2>1, TwoParties DEF OtSend, At, Enter, S, values
  <2>2. CASE p = S /\ SendHint
    BY <2>2, TwoParties DEF SendHint, At, Enter, S, values
  <2>3. CASE p = R /\ OtReceive
    BY <2>3, TwoParties DEF OtReceive, At, Enter, R, values
  <2> QED
    BY <2>1, <2>2, <2>3
<1>2. UNCHANGED <<cuckoo_table, hint_table, stash_size, contents, opened, hint_features,
                  output_shares>>
  BY <1>1 DEF locals, tables
<1>3. PICK s \in {"hint_hash", "hint_stash", "feature_hint", "equal"} :
          EnterAt(p, s, 1) /\ (p = R => s = "hint_stash")
  BY <1>1
<1>4. s \in Stages /\ (p = R => s \notin Opened) /\ (s \in Compared => s = "equal")
      /\ stage[p] \notin Opened
  BY <1>1, <1>3, SomeStages, HintStages DEF Compared
<1> QED
  BY <1>1, <1>2, <1>3, <1>4, PlainSlight

LEMMA StashSlight ==
    ASSUME CircuitInv, NEW p \in Party,
           \/ p = S /\ (RecvStashSize \/ SendHintStashSize)
           \/ p = R /\ (SendStashSize \/ RecvHintStashSize)
    PROVE  Slight(p)
<1>1. /\ stage[p] \in {"stash", "hint_stash"}
      /\ UNCHANGED <<params, calls, sent, remote, peer_size, common_prng>>
      /\ (\E width : Take(p, width)) \/ (\E width, value : Post(p, width, value))
      /\ \/ \E result \in {Stashed, HintStashed} : End(p, result)
         \/ /\ \E s \in {"ot", "hint"} : EnterAt(p, s, 1)
            /\ UNCHANGED <<results, locals>>
  <2>1. CASE p = S /\ RecvStashSize
    BY <2>1, TwoParties DEF RecvStashSize, At, Enter, S, values, Throw, Stashed
  <2>2. CASE p = S /\ SendHintStashSize
    BY <2>2, TwoParties DEF SendHintStashSize, At, Enter, S, values, Throw, HintStashed
  <2>3. CASE p = R /\ SendStashSize
    BY <2>3, TwoParties DEF SendStashSize, At, Enter, R, values, Throw, Stashed
  <2>4. CASE p = R /\ RecvHintStashSize
    BY <2>4, TwoParties DEF RecvHintStashSize, At, Enter, R, values, Throw, HintStashed
  <2> QED
    BY <2>1, <2>2, <2>3, <2>4
<1>2. stage[p] \in InCall /\ stage[p] \notin Hinted /\ stage[p] \notin Opened
  BY <1>1, SomeStages
<1>3. CASE \E result \in {Stashed, HintStashed} : End(p, result)
  <2>1. Uses(p)
    BY <1>1, <1>2, SendsPlainly DEF Uses
  <2> QED
    BY <1>1, <1>2, <1>3, <2>1, Throws
<1>4. ASSUME NEW s \in {"ot", "hint"}, EnterAt(p, s, 1), UNCHANGED <<results, locals>>
      PROVE  Slight(p)
  <2>1. UNCHANGED <<cuckoo_table, hint_table, stash_size, contents, opened, hint_features,
                    output_shares>>
    BY <1>4 DEF locals, tables
  <2>2. s \in Stages /\ s \notin Opened /\ s \notin Compared
    BY <1>4, SomeStages
  <2> QED
    BY <1>1, <1>2, <1>4, <2>1, <2>2, PlainSlight
<1> QED
  BY <1>1, <1>3, <1>4

-----------------------------------------------------------------------------
(* Hints.                                                                  *)

LEMMA SendFeatureHintShares ==
    ASSUME CircuitInv, CircuitInv', SharesInv, SendFeatureHint
    PROVE  SharesInv'
<1>1. /\ stage[S] = "feature_hint" /\ NextFeature(S, "feature_hint", fid[S], "equal")
      /\ UNCHANGED <<params, calls, results, sent, remote, peer_size, common_prng, cuckoo_table,
                     hint_table, stash_size, opened, hint_features, output_shares>>
  BY DEF SendFeatureHint, At, S, values, tables
<1>2. /\ stage[S] \in InCall \ Sizes /\ stage[S] \notin TwoWay /\ stage[S] \in Opened
      /\ stage[S] \in Hinted /\ stage[S] \in InCall /\ stage[S] \notin Sizes
      /\ stage[S] \notin Compared
  BY <1>1, SomeStages
<1>3. PICK n : n = Number(S) /\ n = Number(S)'
  BY Zenon, <1>1 DEF Number
<1>4. /\ n \in DOMAIN calls[S] /\ n \in DOMAIN calls[R] /\ n \in Nat \ {0}
      /\ n \notin DOMAIN results[S] /\ fid[S] \in 1..Features(n)
  BY Zenon, <1>1, <1>2, <1>3, InMidCall, TwoParties
<1>5. PICK k : k = fid[S]
  OBVIOUS
<1>6. PICK s \in {"feature_hint", "equal"}, f \in Nat \ {0} : EnterAt(S, s, f)
  <2>1. /\ stage[S] = "feature_hint" /\ k = fid[S]
        /\ NextFeature(S, "feature_hint", fid[S], "equal")
    BY <1>1, <1>5
  <2>2. n = Number(S) /\ S \in Party
    BY <1>3, TwoParties
  <2>3. \E s \in {"feature_hint", "equal"}, f \in Nat \ {0} :
          /\ EnterAt(S, s, f)
          /\ s = "feature_hint" => f = k + 1 /\ f \in 1..Features(n)
          /\ s = "equal" => f = 1 /\ Features(n) = k
          /\ Previous(S, S, n, stage[S], fid[S]) = Place(n, "ot", 1)
          /\ Previous(S, S, n, s, f) = Place(n, "ot", 1)
          /\ Previous(R, S, n, s, f) = Place(n, stage[S], fid[S])
    BY <2>1, <2>2, AfterHints
  <2> QED
    BY <2>3
<1>7. /\ s \in Stages /\ s \in Opened /\ (s \in Compared => s = "equal")
  BY HintStages
<1>8. hint_table \in HintsOf(n) /\ Len(contents) = k - 1 /\ contents \in Seq(Randoms)
  BY SMTT(60), <1>1, <1>2, <1>3, <1>5 DEF CircuitInv, SenderLocals, TypeOK
<1>9. PICK content, value :
          /\ content \in Randoms
          /\ contents' = Append(contents, content)
          /\ Post(S, Words(HintBins(S)), value)
          /\ value = [mask \in MasksOf(n) |-> Hidden(FeatureAt(n, k, mask.key), content)]
  <2>1. PICK content, entries :
            /\ content \in Randoms
            /\ contents' = Append(contents, content)
            /\ Post(S, Words(HintBins(S)), entries)
            /\ entries = [mask \in DOMAIN hint_table |->
                            Hidden(Current(S).features[fid[S]][
                                     CHOOSE i \in DOMAIN Current(S).keys :
                                         Current(S).keys[i] = mask.key], content)]
    BY Zenon DEF SendFeatureHint, S
  <2>2. DOMAIN hint_table = MasksOf(n)
    BY <1>8 DEF HintsOf
  <2>3. \A key : FeatureAt(n, k, key)
                   = Current(S).features[fid[S]][CHOOSE i \in DOMAIN Current(S).keys :
                                                    Current(S).keys[i] = key]
    BY <1>3, <1>5 DEF FeatureAt, Current
  <2>4. PICK value : value = [mask \in MasksOf(n) |-> Hidden(FeatureAt(n, k, mask.key), content)]
    BY Zenon
  <2>5. entries = value
    <3>1. ASSUME NEW mask \in MasksOf(n)
          PROVE  entries[mask] = Hidden(FeatureAt(n, k, mask.key), content)
      <4>1. PICK key : key = mask.key
        OBVIOUS
      <4>2. entries[mask] = Hidden(Current(S).features[fid[S]][
                                     CHOOSE i \in DOMAIN Current(S).keys :
                                         Current(S).keys[i] = key], content)
        BY <2>1, <2>2, <3>1, <4>1
      <4>3. entries[mask] = Hidden(FeatureAt(n, k, key), content)
        BY <2>3, <4>2, Zenon
      <4> QED
        BY <4>1, <4>3
    <3>2. entries = [mask \in MasksOf(n) |-> entries[mask]]
      BY <2>1, <2>2
    <3>3. [mask \in MasksOf(n) |-> entries[mask]] = value
      BY <2>4, <3>1
    <3> QED
      BY <3>2, <3>3
  <2> QED
    BY <2>1, <2>4, <2>5
<1>10. /\ k \in DOMAIN contents' /\ contents'[k] = content
       /\ \A g \in DOMAIN contents : g \in DOMAIN contents' /\ contents'[g] = contents[g]
  <2>1. k \in Nat \ {0}
    BY <1>4, <1>5, FeaturesType DEF CircuitInv
  <2> QED
    BY <1>8, <1>9, <2>1
<1>11. Goes(S)
  <2>1. Peer(S) \in Party \ {S} /\ Peer(S) = R
    BY TwoParties
  <2>2. Others(S)
    BY <1>1, <1>6, <1>7, <2>1, Entered, TwoParties DEF Others
  <2> QED
    BY <1>1, <2>2 DEF Goes
<1>12. stage'[S] = s /\ io'[S] = Starts(s, S)
  BY <1>6, <1>7, Entered, TwoParties
<1>13. Quiet(S)
  BY <1>1, <1>2, <1>7, <1>10, <1>11, <1>12 DEF Quiet
<1>14. ~Heard(R, n, 0) /\ Number(R) = n
  <2>1. ~Spoken(S, n, 0)
    BY <1>2, <1>4 DEF Spoken, Past, Returned
  <2>2. 0 \in 0..Features(n)
    BY <1>4, FeaturesType DEF CircuitInv
  <2>3. ~Heard(R, n, 0)
    BY <1>4, <2>1, <2>2, TwoParties DEF SharesInv, Turns, Answered
  <2>4. ~Returned(R, n)
    BY <2>3 DEF Heard, Past
  <2> QED
    BY <1>2, <1>3, <2>3, <2>4, Meeting
<1>15. PICK m : m = [is |-> stage[S], fid |-> fid[S], width |-> Words(HintBins(S)),
                     value |-> value]
  BY Zenon
<1>16. m.is = "feature_hint" /\ m.fid = k /\ m.value = value
  BY <1>1, <1>5, <1>15
<1>17. ToReceiver(m)'
  <2>1. ~Heard(R, n, 0)' /\ Number(R)' = n
    <3>1. ~Heard(R, n, 0)'
      BY <1>11, <1>14, OtherTurns, TwoParties
    <3> QED
      BY <1>1, <1>14, <3>1 DEF Number
  <2>2. ~Heard(R, Number(S), 0)'
    BY <1>3, <2>1 DEF Heard, Past, Returned
  <2>3. HintsFor(n, k)' = value
    <3>1. MasksOf(n)' = MasksOf(n) /\ \A g, key : FeatureAt(n, g, key)' = FeatureAt(n, g, key)
      BY <1>4, <1>11, CallsLastly, TwoParties
    <3> QED
      BY <1>9, <1>10, <3>1 DEF HintsFor, Hidden
  <2>4. HintsFor(Number(S), m.fid)' = value
    <3>1. HintsFor(n, m.fid)' = value
      BY <1>16, <2>3
    <3>2. HintsFor(Number(S), m.fid)' = HintsFor(n, m.fid)'
      BY <1>3 DEF HintsFor, MasksOf, FeatureAt, Drawn, Failures
    <3> QED
      BY <3>1, <3>2
  <2>5. m.is \notin Compared
    BY <1>16, HintStages
  <2> QED
    BY <1>3, <1>7, <1>10, <1>12, <1>16, <2>1, <2>2, <2>4, <2>5 DEF ToReceiver
<1>18. Sends(S)
  <2>1. PICK width : width = Words(HintBins(S))
    OBVIOUS
  <2>2. /\ Post(S, width, value)
        /\ m = [is |-> stage[S], fid |-> fid[S], width |-> width, value |-> value]
        /\ m.is \notin Compared /\ stage[S] \notin Compared /\ S # R /\ ToReceiver(m)'
    BY <1>2, <1>9, <1>15, <1>16, <1>17, <2>1, HintStages, TwoParties
  <2> QED
    BY <2>2, Zenon DEF Sends
<1> QED
  BY <1>13, <1>18, QuietKeeps, TwoParties DEF Uses

\* As long as no second table has failed, the common streams are at the same place.
LEMMA SameStream ==
    ASSUME CircuitInv, NEW n \in DOMAIN calls[S], n \in DOMAIN calls[R], Clean(n)
    PROVE  Drawn(S, n) = Drawn(R, n)
<1>1. /\ n \in Nat
      /\ \A k \in 1..(n - 1) : k \in DOMAIN results[S] /\ k \in DOMAIN results[R]
  BY EarlierEnded, TwoParties
<1>2. \A table \in {"stash", "hint_stash"} :
          {k \in 1..(n - 1) : results[S][k] = [threw |-> table]}
             = {k \in 1..(n - 1) : results[R][k] = [threw |-> table]}
  BY <1>1, EndedAlike
<1>3. \A table \in {"stash", "hint_stash"} :
          Failures(S, table, n - 1) = Failures(R, table, n - 1)
  BY <1>2 DEF Failures
<1>4. Failures(S, "hint_stash", n - 1) = 0 /\ Failures(R, "hint_stash", n - 1) = 0
  BY <1>3 DEF Clean
<1>5. Failures(S, "stash", n - 1) = Failures(R, "stash", n - 1)
  BY <1>3
<1>6. n - 1 \in Int
  BY <1>1
<1>7. Failures(S, "stash", n - 1) \in Nat
  BY <1>6, FailuresType
<1> QED
  BY <1>1, <1>4, <1>5, <1>7, TwoParties DEF Drawn

LEMMA RecvHintShares ==
    ASSUME CircuitInv, CircuitInv', SharesInv, RecvHint
    PROVE  SharesInv'
<1>1. /\ stage[R] = "hint" /\ io[R] = "recv" /\ Take(R, Words(HintBins(R))) /\ Draw(R)
      /\ EnterAt(R, IF HasFeatures(R) THEN "feature_hint" ELSE "equal", 1)
      /\ UNCHANGED <<params, calls, results, sent, remote, peer_size, cuckoo_table, hint_table,
                     stash_size, contents, hint_features, output_shares>>
  BY DEF RecvHint, At, Enter, R, values, tables
<1>2. /\ stage[R] \in InCall \ Sizes /\ stage[R] \notin TwoWay /\ stage[R] \in Placed
      /\ stage[R] \in Hinted /\ stage[R] \notin Opened /\ stage[R] \in InCall
      /\ stage[R] \notin Sizes /\ stage[R] \notin Compared
  BY <1>1, SomeStages
<1>3. PICK n : n = Number(R) /\ n = Number(R)'
  BY Zenon, <1>1 DEF Number
<1>4. /\ n \in DOMAIN calls[S] /\ n \in DOMAIN calls[R] /\ n \in Nat \ {0}
  BY Zenon, <1>1, <1>2, <1>3, InMidCall, TwoParties
<1>5. PICK s \in {"feature_hint", "equal"} : EnterAt(R, s, 1)
  BY <1>1
<1>6. s \in Stages /\ s \in Opened /\ (s \in Compared => s = "equal") /\ 1 \in Nat \ {0}
  BY HintStages
<1>7. /\ common_prng'[R] = [seed |-> common_prng[R].seed, draws |-> common_prng[R].draws + 1]
      /\ \A q \in Party \ {R} : common_prng'[q] = common_prng[q]
  BY <1>1, DrawType, TwoParties DEF CircuitInv
<1>8. Goes(R) /\ stage'[R] = s /\ io'[R] = Starts(s, R)
  <2>1. Peer(R) \in Party \ {R} /\ Peer(R) = S
    BY TwoParties
  <2>2. Others(R) /\ stage'[R] = s /\ io'[R] = Starts(s, R)
    BY <1>1, <1>5, <1>6, <1>7, <2>1, Entered, TwoParties DEF Others
  <2> QED
    BY <1>1, <2>2 DEF Goes
<1>9. Quiet(R)
  BY <1>1, <1>2, <1>6, <1>8, TwoParties DEF Quiet
<1>10. TableOf(n) /\ hint_features = <<>>
  BY <1>2, <1>3 DEF CircuitInv, ReceiverLocals
<1>11. HintsHeld'
  <2>1. DOMAIN hint_features' = {}
    BY <1>1, <1>10
  <2> QED
    BY <2>1 DEF HintsHeld
<1>12. AllOpened'
  <2>1. ((\A k : k = Number(R) /\ stage[R] \in Opened /\ Clean(k) =>
            \A i \in DOMAIN calls[R][k].keys :
                calls[R][k].keys[i] \in Range(calls[S][k].keys) => \E o \in opened : o[1] = i)
         => AllOpened)'
    BY AllOpenedIf, PTL
  <2>2. ASSUME Clean(n)', NEW i \in DOMAIN calls[R][n].keys,
               calls[R][n].keys[i] \in Range(calls[S][n].keys)
        PROVE  \E o \in opened' : o[1] = i
    <3>1. Clean(n)
      BY <1>4, <1>8, <2>2, CallsLastly, TwoParties
    <3>2. PICK d \in Int : d = Drawn(S, n) /\ d = Drawn(R, n)
      <4>1. n \in Int
        BY <1>4
      <4> QED
        BY <1>4, <3>1, <4>1, SameStream, DrawnType
    <3>3. common_prng'[R] = Stream(d + 2)
      <4>1. DrawsIn(R, stage[R]) = 1
        BY <1>1, TwoParties DEF DrawsIn, Sizes, Opened, Compared
      <4>2. common_prng[R] = Stream(Drawn(R, Number(R)) + DrawsIn(R, stage[R]))
        BY Zenon, <1>2, StreamIs, TwoParties
      <4>3. common_prng[R] = Stream(d + 1)
        BY <1>3, <3>2, <4>1, <4>2
      <4>4. (d + 1) + 1 = d + 2
        OBVIOUS
      <4> QED
        BY <1>7, <4>3, <4>4 DEF Stream
    <3>4. PICK hint : /\ hint = Head(chan[R]).value
                      /\ hint.seed = Stream(d + 2) /\ hint.entries \in HintsOf(n)
      <4>1. Says(R, n, Head(chan[R])) /\ Head(chan[R]).is = "hint"
        BY Zenon, <1>1, <1>3, Found, TwoParties
      <4> QED
        BY <3>2, <4>1 DEF Says
    <3>5. i \in DOMAIN cuckoo_table /\ cuckoo_table[i].mask \in MasksOf(n)
      <4>1. PICK g \in 1..params[R].num_of_fun :
               cuckoo_table[i].mask = Mask(Stream(d + 1), g, calls[R][n].keys[i])
        BY <1>10, <2>2, <3>2 DEF TableOf
      <4>2. g \in 1..params[S].num_of_fun
        BY <1>2, BinsAgree, TwoParties
      <4>3. i \in DOMAIN cuckoo_table
        BY <1>10, <2>2 DEF TableOf
      <4> QED
        BY <2>2, <3>2, <4>1, <4>2, <4>3 DEF MasksOf
    <3>6. PICK num : num = params[R].num_of_fun_hint /\ num = params[S].num_of_fun_hint
      BY <1>2, BinsAgree, TwoParties
    <3>7. opened' = {o \in (DOMAIN cuckoo_table) \X (1..num) :
                        /\ hint.seed = common_prng'[R]
                        /\ cuckoo_table[o[1]].mask \in DOMAIN hint.entries
                        /\ hint.entries[cuckoo_table[o[1]].mask] = o[2]}
      BY <3>4, <3>6 DEF RecvHint, R
    <3>8. PICK g \in 1..num : g = hint.entries[cuckoo_table[i].mask]
      BY <3>4, <3>5, <3>6 DEF HintsOf
    <3>9. cuckoo_table[i].mask \in DOMAIN hint.entries
      BY <3>4, <3>5 DEF HintsOf
    <3>10. PICK o : o = <<i, g>>
      BY ZenonT(60)
    <3>11. o \in opened' /\ o[1] = i
      BY <3>3, <3>4, <3>5, <3>7, <3>8, <3>9, <3>10
    <3> QED
      BY Zenon, <3>11
  <2>3. \A k : k = Number(R)' /\ stage'[R] \in Opened /\ Clean(k)' =>
            \A i \in DOMAIN calls'[R][k].keys :
                calls'[R][k].keys[i] \in Range(calls'[S][k].keys) => \E o \in opened' : o[1] = i
    BY <1>1, <1>3, <2>2
  <2> QED
    BY <2>1, <2>3
<1>13. Uses(R)
  BY <1>1 DEF Uses
<1> QED
  BY <1>9, <1>11, <1>12, <1>13, QuietKeeps, TwoParties

LEMMA RecvFeatureHintShares ==
    ASSUME CircuitInv, CircuitInv', SharesInv, RecvFeatureHint
    PROVE  SharesInv'
<1>1. /\ stage[R] = "feature_hint" /\ io[R] = "recv" /\ Take(R, Words(HintBins(R)))
      /\ NextFeature(R, "feature_hint", fid[R], "equal")
      /\ UNCHANGED <<params, calls, results, sent, remote, peer_size, common_prng, cuckoo_table,
                     hint_table, stash_size, contents, opened, output_shares>>
  BY DEF RecvFeatureHint, At, R, values, tables
<1>2. /\ stage[R] \in InCall \ Sizes /\ stage[R] \notin TwoWay /\ stage[R] \in Placed
      /\ stage[R] \in Hinted /\ stage[R] \in Opened /\ stage[R] \in InCall
      /\ stage[R] \notin Sizes /\ stage[R] \notin Compared
  BY <1>1, SomeStages
<1>3. PICK n : n = Number(R) /\ n = Number(R)'
  BY Zenon, <1>1 DEF Number
<1>4. /\ n \in DOMAIN calls[S] /\ n \in DOMAIN calls[R] /\ n \in Nat \ {0}
      /\ fid[R] \in 1..Features(n)
  BY ZenonT(60), <1>1, <1>2, <1>3, InMidCall, TwoParties
<1>5. PICK at : at = fid[R]
  OBVIOUS
<1>6. PICK s \in {"feature_hint", "equal"}, g \in Nat \ {0} : EnterAt(R, s, g)
  <2>1. /\ stage[R] = "feature_hint" /\ at = fid[R]
        /\ NextFeature(R, "feature_hint", fid[R], "equal")
    BY <1>1, <1>5
  <2>2. n = Number(R) /\ R \in Party
    BY <1>3, TwoParties
  <2>3. \E s \in {"feature_hint", "equal"}, g \in Nat \ {0} :
          /\ EnterAt(R, s, g)
          /\ s = "feature_hint" => g = at + 1 /\ g \in 1..Features(n)
          /\ s = "equal" => g = 1 /\ Features(n) = at
          /\ Previous(S, R, n, stage[R], fid[R]) = Place(n, "ot", 1)
          /\ Previous(S, R, n, s, g) = Place(n, "ot", 1)
          /\ Previous(R, R, n, s, g) = Place(n, stage[R], fid[R])
    BY <2>1, <2>2, AfterHints
  <2> QED
    BY <2>3
<1>7. s \in Stages /\ s \in Opened /\ (s \in Compared => s = "equal")
  BY HintStages
<1>8. Goes(R) /\ stage'[R] = s /\ io'[R] = Starts(s, R)
  <2>1. Peer(R) \in Party \ {R} /\ Peer(R) = S
    BY TwoParties
  <2>2. Others(R) /\ stage'[R] = s /\ io'[R] = Starts(s, R)
    BY <1>1, <1>6, <1>7, <2>1, Entered, TwoParties DEF Others
  <2> QED
    BY <1>1, <2>2 DEF Goes
<1>9. Quiet(R)
  BY <1>1, <1>2, <1>7, <1>8, TwoParties DEF Quiet
<1>10. AllOpened'
  BY <1>1, <1>2, <1>8, AllOpenedHolds, TwoParties DEF SharesInv
<1>11. at \in Nat \ {0} /\ Len(hint_features) = at - 1 /\ hint_features \in Seq(Range(hint_features))
  <2>1. at \in Nat \ {0}
    BY <1>4, <1>5, FeaturesType DEF CircuitInv
  <2> QED
    BY <1>1, <1>5, <2>1 DEF CircuitInv, ReceiverLocals, AreSequences
<1>12. PICK hint :
          /\ hint = Head(chan[R]).value
          /\ Number(S) = n /\ at \in DOMAIN contents /\ hint = HintsFor(n, at)
  <2>1. 1 \in DOMAIN chan[R] /\ Head(chan[R]) = chan[R][1]
    BY <1>1, Taken, TwoParties
  <2>2. Head(chan[R]).is = "feature_hint" /\ Head(chan[R]).fid = at
    BY Zenon, <1>1, <1>5, Found, TwoParties
  <2>3. ToReceiver(Head(chan[R]))
    BY SMTT(60), <2>1 DEF SharesInv, Turns
  <2> QED
    BY <1>3, <2>2, <2>3 DEF ToReceiver
<1>13. PICK column :
          /\ hint_features' = Append(hint_features, column)
          /\ column = [o \in opened |-> hint[cuckoo_table[o[1]].mask]]
  BY <1>12 DEF RecvFeatureHint, R
<1>14. \A o \in opened : column[o] = Hidden(FeatureAt(n, at, KeyOf(o)), contents[at])
  <2>1. ASSUME NEW o \in opened
        PROVE  column[o] = Hidden(FeatureAt(n, at, KeyOf(o)), contents[at])
    <3>1. PICK mask : mask = cuckoo_table[o[1]].mask
      OBVIOUS
    <3>2. mask.key = KeyOf(o) /\ mask \in MasksOf(n)
      BY <1>2, <1>3, <2>1, <3>1, OpenedKeys
    <3>3. column[o] = hint[mask]
      BY <1>13, <2>1, <3>1
    <3>4. hint[mask] = Hidden(FeatureAt(n, at, mask.key), contents[at])
      BY <1>12, <3>2 DEF HintsFor
    <3> QED
      BY <3>2, <3>3, <3>4
  <2> QED
    BY <2>1
<1>15. /\ DOMAIN hint_features' = DOMAIN hint_features \cup {at} /\ hint_features'[at] = column
       /\ \A h \in DOMAIN hint_features : hint_features'[h] = hint_features[h]
  BY <1>11, <1>13
<1>16. HintsHeld'
  <2>1. ((\A k : k = Number(S) /\ k = Number(R) /\ stage[R] \in Opened /\ stage[S] \in Hinted =>
          \A f \in DOMAIN hint_features :
             /\ f \in DOMAIN contents
             /\ \A o \in opened :
                   hint_features[f][o] = Hidden(FeatureAt(k, f, KeyOf(o)), contents[f]))
       => HintsHeld)'
    BY HintsHeldIf, PTL
  <2>2. ASSUME stage[S] \in Hinted, NEW h \in DOMAIN hint_features'
        PROVE  /\ h \in DOMAIN contents
               /\ \A o \in opened :
                     hint_features'[h][o] = Hidden(FeatureAt(n, h, KeyOf(o)), contents[h])
    <3>1. CASE h = at
      BY <1>12, <1>14, <1>15, <3>1
    <3>2. CASE h \in DOMAIN hint_features
      <4>1. hint_features'[h] = hint_features[h]
        BY <1>15, <3>2
      <4> QED
        BY <1>2, <1>3, <1>12, <2>2, <3>2, <4>1 DEF SharesInv, HintsHeld
    <3> QED
      BY <1>15, <2>2, <3>1, <3>2
  <2>3. /\ \A h, key : FeatureAt(n, h, key)' = FeatureAt(n, h, key)
        /\ \A o : KeyOf(o)' = KeyOf(o)
        /\ stage'[S] = stage[S]
    <3>1. \A h, key : FeatureAt(n, h, key)' = FeatureAt(n, h, key)
      BY <1>4, <1>8, CallsLastly, TwoParties
    <3>2. \A o : KeyOf(o)' = KeyOf(o)
      BY <1>1 DEF KeyOf, Current, Number
    <3> QED
      BY <1>8, <3>1, <3>2, TwoParties DEF Goes, Others
  <2>4. \A x : x = Number(S)' /\ x = Number(R)' /\ stage'[R] \in Opened /\ stage'[S] \in Hinted =>
          \A h \in DOMAIN hint_features' :
             /\ h \in DOMAIN contents'
             /\ \A o \in opened' :
                   hint_features'[h][o] = Hidden(FeatureAt(x, h, KeyOf(o)), contents[h])'
    BY <1>1, <1>3, <2>2, <2>3 DEF Hidden
  <2> QED
    BY <2>1, <2>4
<1>17. Uses(R)
  BY <1>1 DEF Uses
<1> QED
  BY SMTT(60), <1>9, <1>10, <1>16, <1>17, QuietKeeps, TwoParties

-----------------------------------------------------------------------------
(* Comparisons under way.                                                  *)

\* Half a comparison: only what p has written or read changes.
Compares(p) ==
    /\ Goes(p) /\ stage[p] \in Compared /\ stage' = stage /\ fid' = fid
    /\ UNCHANGED <<params, calls, results, peer_size, cuckoo_table, contents, opened,
                   hint_features, output_shares>>
    /\ HasWritten(p) => HasWritten(p)'
    /\ HasRead(p) => HasRead(p)'
    /\ p = S /\ HasWritten(S) => sent'[S] = sent[S]
    /\ p = R /\ HasRead(R) => remote'[R] = remote[R]

LEMMA HalfCompares ==
    ASSUME CircuitInv, NEW p \in Party, SendValue(p) \/ RecvValue(p), stage[p] \in Compared
    PROVE  /\ Compares(p)
           /\ io[p] = "send" => (HasRead(p)' <=> HasRead(p)) /\ ~HasWritten(p) /\ HasWritten(p)'
           /\ io[p] = "recv" => (HasWritten(p)' <=> HasWritten(p)) /\ ~HasRead(p) /\ HasRead(p)'
           /\ IF SendValue(p) THEN io[p] = "send" ELSE io[p] = "recv"
<1>1. /\ stage[p] \in TwoWay /\ Half(p)
      /\ UNCHANGED <<params, calls, results, peer_size, common_prng, locals>>
      /\ \A q \in Party \ {p} : sent'[q] = sent[q] /\ remote'[q] = remote[q]
  <2>1. DOMAIN sent = Party /\ DOMAIN remote = Party
    BY DEF CircuitInv, AreSequences
  <2>2. CASE SendValue(p)
    BY <2>1, <2>2 DEF SendValue
  <2>3. CASE RecvValue(p)
    BY <2>1, <2>3 DEF RecvValue
  <2> QED
    BY <2>2, <2>3
<1>2. UNCHANGED <<cuckoo_table, hint_table, stash_size, contents, opened, hint_features,
                  output_shares>>
  BY <1>1 DEF locals, tables
<1>3. Peer(p) \in Party \ {p}
  BY TwoParties
<1>4. CASE SendValue(p)
  <2>1. io[p] = "send" /\ remote' = remote
    BY <1>4 DEF SendValue
  <2>2. /\ stage' = stage /\ fid' = fid /\ ~HasWritten(p) /\ HasWritten(p)'
        /\ (HasRead(p)' <=> HasRead(p)) /\ \A q \in Party \ {p} : io'[q] = io[q]
    BY <1>1, <2>1, HalfWrites
  <2>3. Goes(p)
    BY <1>1, <1>2, <1>3, <2>2 DEF Goes, Others
  <2> QED
    BY <1>1, <1>2, <1>4, <2>1, <2>2, <2>3 DEF Compares
<1>5. CASE ~SendValue(p) /\ RecvValue(p)
  <2>1. io[p] = "recv" /\ sent' = sent
    BY <1>5 DEF RecvValue
  <2>2. /\ stage' = stage /\ fid' = fid /\ ~HasRead(p) /\ HasRead(p)'
        /\ (HasWritten(p)' <=> HasWritten(p)) /\ \A q \in Party \ {p} : io'[q] = io[q]
    BY <1>1, <2>1, HalfReads
  <2>3. Goes(p)
    BY <1>1, <1>2, <1>3, <2>2 DEF Goes, Others
  <2> QED
    BY <1>1, <1>2, <1>5, <2>1, <2>2, <2>3 DEF Compares
<1> QED
  BY <1>4, <1>5

LEMMA ComparesTurns ==
    ASSUME NEW p \in Party, Compares(p), NEW q \in Party, NEW n, NEW c
    PROVE  /\ Number(q)' = Number(q) /\ Turn(q)' = Turn(q)
           /\ Returned(q, n)' <=> Returned(q, n)
           /\ Past(q, n, c)' <=> Past(q, n, c)
           /\ Heard(q, n, c) => Heard(q, n, c)'
           /\ Spoken(q, n, c) => Spoken(q, n, c)'
           /\ Heard(q, n, c)' =>
                 \/ Heard(q, n, c)
                 \/ q = p /\ n = Number(p) /\ c = Turn(p) /\ HasRead(p)' /\ ~HasRead(p)
<1>1. /\ stage' = stage /\ fid' = fid /\ calls' = calls /\ results' = results
      /\ (HasWritten(p) => HasWritten(p)') /\ (HasRead(p) => HasRead(p)')
      /\ \A x \in Party : x # p => io'[x] = io[x]
  BY TwoParties DEF Compares, Goes, Others
<1>2. Number(q)' = Number(q) /\ Turn(q)' = Turn(q) /\ (Returned(q, n)' <=> Returned(q, n))
  BY <1>1 DEF Number, Turn, Returned
<1>3. Past(q, n, c)' <=> Past(q, n, c)
  BY <1>1, <1>2 DEF Past
<1>4. /\ HasRead(q) => HasRead(q)'
      /\ HasWritten(q) => HasWritten(q)'
      /\ q # p => (HasRead(q)' <=> HasRead(q))
  BY <1>1 DEF HasRead, HasWritten
<1> QED
  BY <1>1, <1>2, <1>3, <1>4 DEF Heard, Spoken

LEMMA ComparesColumns ==
    ASSUME CircuitInv, NEW p \in Party, Compares(p)
    PROVE  ColumnsStay
<1>1. /\ stage' = stage /\ fid' = fid /\ stage[p] \in Compared
      /\ UNCHANGED <<params, calls, results, peer_size, cuckoo_table, contents, opened,
                     hint_features, output_shares>>
      /\ p = S /\ HasWritten(S) => sent'[S] = sent[S]
      /\ p = R /\ HasRead(R) => remote'[R] = remote[R]
  BY DEF Compares
<1>2. ASSUME NEW n, NEW c \in Nat,
             IF p = S THEN Spoken(p, n, c) ELSE Heard(p, n, c)
      PROVE  Column(p, n, c)' = Column(p, n, c)
  <2>1. CASE n \in DOMAIN results[p]
    BY <1>1, <2>1 DEF Column
  <2>2. CASE n \notin DOMAIN results[p] /\ c < Turn(p)
    <3>1. DOMAIN output_shares[p] = 1..Turn(p) /\ Turn(p) \in Int
      BY <1>1, InTurn DEF TakesTurns
    <3>2. c + 1 \in DOMAIN output_shares[p]
      BY <2>2, <3>1
    <3> QED
      BY <1>1, <2>2, <3>2 DEF Column
  <2>3. CASE n \notin DOMAIN results[p] /\ ~(c < Turn(p))
    <3>1. ~Past(p, n, c)
      BY <2>3 DEF Past, Returned
    <3>2. IF p = S THEN HasWritten(p) ELSE HasRead(p)
      BY <1>2, <3>1 DEF Spoken, Heard
    <3>3. (p = S => sent'[S] = sent[S]) /\ (p = R => remote'[R] = remote[R])
      BY <1>1, <3>2, TwoParties
    <3> QED
      BY <1>1, <3>3, SameColumn
  <2>4. Turn(p) \in Int
    BY <1>1, InTurn DEF TakesTurns
  <2> QED
    BY <2>1, <2>2, <2>3
<1>3. \A n, c : Column(Peer(p), n, c)' = Column(Peer(p), n, c)
  BY OtherColumns DEF Compares, Goes
<1> QED
  BY <1>2, <1>3, TwoParties DEF ColumnsStay

LEMMA ComparesAnswered ==
    ASSUME CircuitInv, NEW p \in Party, Compares(p), Turns,
           HasRead(p)' => HasRead(p) \/ Spoken(Peer(p), Number(p), Turn(p)),
           NEW q \in Party
    PROVE  Answered(q)'
<1>1. SUFFICES ASSUME NEW n \in DOMAIN calls'[S], NEW c \in 0..Features(n)', Heard(q, n, c)'
               PROVE  Spoken(Peer(q), n, c)'
  BY DEF Answered
<1>2. Answered(q) /\ Peer(q) \in Party
  BY TwoParties DEF Turns
<1>3. n \in DOMAIN calls[S] /\ c \in 0..Features(n)
  BY <1>1 DEF Compares, Features
<1>4. Spoken(Peer(q), n, c)
  <2>1. CASE Heard(q, n, c)
    BY <1>2, <1>3, <2>1 DEF Answered
  <2>2. CASE ~Heard(q, n, c)
    BY <1>1, <2>2, ComparesTurns
  <2> QED
    BY <2>1, <2>2
<1> QED
  BY <1>2, <1>4, ComparesTurns

LEMMA ComparesFits ==
    ASSUME CircuitInv, NEW p \in Party, Compares(p), SharesInv, NEW n, n = Number(R),
           NEW t, t = Turn(R),
           p = R /\ HasRead(R)' =>
              HasRead(R) \/ \A b \in 1..BinsOf(n) : Added(n, t, b)' = Held(n, t, b)'
    PROVE  Fits'
<1>1. /\ Goes(p) /\ stage' = stage /\ calls' = calls /\ UNCHANGED <<cuckoo_table, opened>>
      /\ Fits /\ Answered(R)
  BY TwoParties DEF Compares, SharesInv, Turns
<1>2. CASE stage[R] \notin Compared
  BY <1>1, <1>2 DEF Fits
<1>3. CASE stage[R] \in Compared
  <2>1. ASSUME NEW c \in 0..Features(n), Heard(R, n, c)'
        PROVE  Heard(R, n, c) \/ \A b \in 1..BinsOf(n) : Added(n, c, b)' = Held(n, c, b)'
    <3>1. \/ Heard(R, n, c)
          \/ R = p /\ c = t /\ HasRead(p)' /\ ~HasRead(p)
      BY <2>1, ComparesTurns, TwoParties
    <3> QED
      BY <3>1
  <2> QED
    BY <1>1, <1>3, <2>1, ComparesColumns, FitsHold
<1> QED
  BY <1>2, <1>3

LEMMA ComparesHints ==
    ASSUME CircuitInv, CircuitInv', NEW p \in Party, Compares(p), HintsHeld
    PROVE  HintsHeld'
<1>1. Goes(p) /\ stage' = stage /\ calls' = calls /\ UNCHANGED <<contents, opened, hint_features>>
      /\ stage[p] \in Compared
  BY DEF Compares
<1>2. stage[p] \in Opened
  BY <1>1, StagesAre
<1> QED
  BY <1>1, <1>2, HintsHeldHolds

LEMMA ComparesKeeps ==
    ASSUME CircuitInv, CircuitInv', NEW p \in Party, Compares(p), SharesInv,
           Turns', ContentSent', Fits'
    PROVE  SharesInv'
<1>1. /\ Goes(p) /\ stage' = stage /\ stage[p] \in Compared
      /\ UNCHANGED <<calls, results, opened, output_shares>>
  BY DEF Compares
<1>2. ColumnsStay /\ Answered(R) /\ AllOpened /\ Shaped
  BY ComparesColumns, TwoParties DEF SharesInv, Turns
<1>3. HintsHeld'
  BY ComparesHints DEF SharesInv
<1>4. AllOpened'
  <2>1. stage[p] \in Opened
    BY <1>1, StagesAre
  <2> QED
    BY <1>1, <1>2, <2>1, AllOpenedHolds
<1>5. Shaped'
  <2>1. ASSUME NEW n, n = Number(p)', NEW k \in DOMAIN output_shares'[p]
        PROVE  DOMAIN output_shares'[p][k] = 1..BinsOf(n)'
    <3>1. n = Number(p)
      BY <1>1, <2>1 DEF Number
    <3>2. n \in DOMAIN calls[R]
      BY <1>1, <3>1, InTurn DEF TakesTurns
    <3>3. BinsOf(n)' = BinsOf(n)
      BY <1>1, <3>2, CallsLastly
    <3> QED
      BY <1>1, <1>2, <2>1, <3>1, <3>3 DEF Shaped
  <2> QED
    BY <1>1, <1>2, <2>1, ShapedHolds
<1>6. \A n \in DOMAIN results'[R] : Joined(n)'
  BY <1>1, <1>2, JoinedStays DEF SharesInv
<1>7. \A n \in DOMAIN results'[S] : SenderDone(n)'
  BY <1>1, <1>2, SenderDoneStays DEF SharesInv
<1> QED
  BY <1>3, <1>4, <1>5, <1>6, <1>7 DEF SharesInv

\* Hints on their way are not touched by a comparison.
LEMMA ToReceiverStill ==
    ASSUME CircuitInv, NEW p \in Party, Compares(p), NEW m, ToReceiver(m), m.is \notin Compared,
           p = R => stage[S] \notin Opened \/ Heard(R, Number(S), 0) \/ (HasRead(R)' <=> HasRead(R))
    PROVE  ToReceiver(m)'
<1>1. SUFFICES ASSUME m.is = "feature_hint"
               PROVE  /\ Number(R)' = Number(S)' /\ stage'[S] \in Opened
                      /\ ~Heard(R, Number(S), 0)' /\ m.fid \in DOMAIN contents'
                      /\ m.value = HintsFor(Number(S), m.fid)'
  BY DEF ToReceiver
<1>2. /\ Number(R) = Number(S) /\ stage[S] \in Opened /\ ~Heard(R, Number(S), 0)
      /\ m.fid \in DOMAIN contents /\ m.value = HintsFor(Number(S), m.fid)
  BY <1>1 DEF ToReceiver
<1>3. stage' = stage /\ UNCHANGED <<params, calls, results, contents>>
  BY DEF Compares
<1>4. Number(S)' = Number(S) /\ Number(R)' = Number(R)
  BY <1>3 DEF Number
<1>5. ~Heard(R, Number(S), 0)'
  <2>1. PICK n : n = Number(S)
    OBVIOUS
  <2>2. ~Heard(R, n, 0)'
    BY <1>2, <2>1, ComparesTurns, TwoParties
  <2> QED
    BY <1>4, <2>1, <2>2 DEF Heard, Past, Returned
<1>6. HintsFor(Number(S), m.fid)' = HintsFor(Number(S), m.fid)
  BY <1>3, <1>4 DEF HintsFor, MasksOf, FeatureAt, Drawn, Failures, Hidden, Mask, Stream
<1> QED
  BY <1>2, <1>3, <1>4, <1>5, <1>6

LEMMA NoComparisons ==
    ASSUME CircuitInv, Turns
    PROVE  /\ io[S] # "recv" =>
                 /\ \A i \in DOMAIN chan[R] : chan[R][i].is \notin Compared
                 /\ \A i \in DOMAIN chan[S] : chan[S][i].is \notin Compared
           /\ Spoken(R, Number(S), Turn(S)) =>
                 \A i \in DOMAIN chan[R] : chan[R][i].is \notin Compared
           /\ Heard(R, Number(S), Turn(S)) =>
                 \A i \in DOMAIN chan[R] : chan[R][i].is \notin Compared
           /\ ~Spoken(R, Number(S), Turn(S)) =>
                 \A i \in DOMAIN chan[S] : chan[S][i].is \notin Compared
<1>1. \A i \in DOMAIN chan[R] : chan[R][i].is \in Compared =>
          io[S] = "recv" /\ ~Heard(R, Number(S), Turn(S))
  BY DEF Turns, ToReceiver, Waiting
<1>2. \A i \in DOMAIN chan[S] : chan[S][i].is \in Compared =>
          io[S] = "recv" /\ Spoken(R, Number(S), Turn(S))
  BY DEF Turns, ToSender, Waiting
<1>3. Spoken(R, Number(S), Turn(S)) => Heard(R, Number(S), Turn(S))
  BY InOneTurn
<1> QED
  BY <1>1, <1>2, <1>3

LEMMA SenderSpeaks ==
    ASSUME CircuitInv, CircuitInv', SharesInv, SendValue(S), stage[S] \in Compared
    PROVE  SharesInv'
<1>1. /\ Compares(S) /\ io[S] = "send" /\ ~HasWritten(S) /\ HasWritten(S)'
      /\ (HasRead(S)' <=> HasRead(S))
  BY HalfCompares, TwoParties
<1>2. Turns /\ Goes(S) /\ stage' = stage /\ fid' = fid /\ UNCHANGED <<calls, results, contents>>
  BY <1>1 DEF SharesInv, Compares
<1>3. PICK n, t : n = Number(S) /\ t = Turn(S) /\ n = Number(S)' /\ t = Turn(S)'
  BY <1>2 DEF Number, Turn
<1>4. /\ n \in DOMAIN calls[S] /\ t \in 0..Features(n) /\ t \in Nat /\ n \notin DOMAIN results[S]
      /\ ~HasRead(S)
  <2>1. TakesTurns(S) /\ stage[S] \in Compared
    BY <1>1, InTurn, TwoParties DEF Compares
  <2>2. ~HasRead(S)
    BY <1>1, <2>1 DEF TakesTurns
  <2>3. /\ n \in DOMAIN calls[S] /\ n \notin DOMAIN results[S] /\ t \in 0..Features(n)
        /\ Features(n) \in Nat
    BY <1>3, <2>1 DEF TakesTurns
  <2> QED
    BY <2>2, <2>3
<1>5. ~Heard(R, n, t) /\ Number(R) = n
  <2>1. ~Spoken(S, n, t)
    BY <1>1, <1>3, <1>4 DEF Spoken, Past, Returned
  <2>2. ~Heard(R, n, t)
    BY <1>2, <1>4, <2>1, TwoParties DEF Turns, Answered
  <2>3. ~Returned(R, n)
    BY <2>2 DEF Heard, Past
  <2>4. stage[S] \in Hinted
    BY StagesAre
  <2> QED
    BY <1>3, <2>2, <2>3, <2>4, Meeting
<1>6. PICK width, value :
          /\ Post(S, width, value) /\ sent'[S] = value
          /\ stage[S] = "multiplexer" => value.input = contents[fid[S]]
  <2>1. PICK value \in Offers(S) :
           Post(S, Size(stage[S]), value) /\ sent' = [sent EXCEPT ![S] = value]
    BY DEF SendValue
  <2>2. sent'[S] = value
    BY <2>1, TwoParties DEF CircuitInv, AreSequences
  <2>3. stage[S] = "multiplexer" => value.input = contents[fid[S]]
    <3>1. SUFFICES ASSUME stage[S] = "multiplexer"
                   PROVE  value.input = contents[fid[S]]
      OBVIOUS
    <3>2. stage[S] \notin Range(Checked) /\ stage[S] # "equal"
      BY <3>1, CheckedIs
    <3>3. value \in [input : {contents[fid[S]]}, share : Randoms]
      BY <2>1, <3>1, <3>2 DEF Offers, S
    <3> QED
      BY <3>3
  <2> QED
    BY <2>1, <2>2, <2>3
<1>7. PICK m : m = [is |-> stage[S], fid |-> fid[S], width |-> width, value |-> value]
  BY Zenon
<1>8. m.is = stage[S] /\ m.fid = fid[S] /\ m.value = value /\ m.is # "feature_hint"
  BY <1>7 DEF Compared
<1>9. ToReceiver(m)'
  <2>1. io'[S] = "recv"
    <3>1. (CircuitInv => \A x \in Party : TakesTurns(x))'
      BY InTurn, PTL
    <3> QED
      BY <1>1, <1>2, <1>4, <3>1, TwoParties DEF TakesTurns
  <2>2. ~Heard(R, n, t)' /\ Number(R)' = n
    <3>1. ~Heard(R, n, t)'
      BY <1>1, <1>5, ComparesTurns, TwoParties
    <3> QED
      BY <1>2, <1>5, <3>1 DEF Number
  <2>3. ~Heard(R, Number(S), Turn(S))'
    BY <1>3, <2>2 DEF Heard, Past, Returned
  <2> QED
    BY <1>2, <1>3, <1>6, <1>8, <2>1, <2>2, <2>3 DEF ToReceiver, Waiting
<1>10. /\ \A i \in DOMAIN chan[R] : chan[R][i].is \notin Compared
       /\ \A i \in DOMAIN chan[S] : chan[S][i].is \notin Compared
  BY <1>1, <1>2, NoComparisons
<1>11. /\ chan'[S] = chan[S]
       /\ \A i \in DOMAIN chan'[R] :
             (i \in DOMAIN chan[R] /\ chan'[R][i] = chan[R][i]) \/ chan'[R][i] = m
  <2>1. R = Peer(S) /\ S \in Party
    BY TwoParties
  <2> QED
    BY <1>6, <1>7, <2>1, Posted
<1>12. Turns'
  <2>1. \A q \in Party : Answered(q)'
    BY <1>1, <1>2, ComparesAnswered, TwoParties
  <2>2. \A q \in Party : LastInCall(q)'
    BY <1>2, <1>6, <1>7, <1>10, PostedOrder, TwoParties DEF Turns
  <2>3. \A x : (\E i \in DOMAIN chan'[R] : x = chan'[R][i]) => ToReceiver(x)'
    <3>1. ASSUME NEW x, NEW i \in DOMAIN chan[R], x = chan[R][i]
          PROVE  ToReceiver(x)'
      <4>1. ToReceiver(x) /\ x.is \notin Compared
        BY <1>2, <1>10, <3>1 DEF Turns
      <4> QED
        BY <1>1, <4>1, ToReceiverStill, TwoParties
    <3> QED
      BY <1>9, <1>11, <3>1
  <2>4. \A x : (\E i \in DOMAIN chan'[S] : x = chan'[S][i]) => ToSender(x)'
    BY <1>10, <1>11 DEF ToSender
  <2> QED
    BY <2>1, <2>2, <2>3, <2>4, TurnsHold
<1>13. ContentSent'
  BY <1>2, <1>6 DEF ContentSent
<1>14. Fits'
  BY <1>1, ComparesFits, TwoParties
<1> QED
  BY <1>1, <1>12, <1>13, <1>14, ComparesKeeps, TwoParties

LEMMA SenderHears ==
    ASSUME CircuitInv, CircuitInv', SharesInv, RecvValue(S), stage[S] \in Compared
    PROVE  SharesInv'
<1>1. /\ io[S] = "recv" /\ Take(S, Size(stage[S])) /\ sent' = sent
  BY DEF RecvValue
<1>2. Compares(S) /\ (HasWritten(S)' <=> HasWritten(S))
  <2>1. ~SendValue(S)
    BY <1>1 DEF SendValue
  <2> QED
    BY <1>1, <2>1, HalfCompares, TwoParties
<1>3. /\ Turns /\ ContentSent /\ LastInCall(S) /\ Goes(S) /\ stage' = stage /\ fid' = fid
      /\ contents' = contents
  BY <1>2, TwoParties DEF SharesInv, Compares, Turns
<1>4. /\ Drained /\ 1 \in DOMAIN chan[S] /\ Head(chan[S]) = chan[S][1]
      /\ \A i \in DOMAIN chan'[S] : i + 1 \in DOMAIN chan[S] /\ 1 < i + 1
                                    /\ chan'[S][i] = chan[S][i + 1]
      /\ chan'[R] = chan[R]
  BY <1>1, Taken, TwoParties
<1>5. Head(chan[S]).is = stage[S]
  BY Zenon, <1>1, Found, TwoParties
<1>6. Spoken(R, Number(S), Turn(S))
  BY <1>3, <1>4, <1>5 DEF Turns, ToSender
<1>7. \A i \in DOMAIN chan[R] : chan[R][i].is \notin Compared
  BY <1>3, <1>6, NoComparisons
<1>8. \A i \in DOMAIN chan'[S] : chan'[S][i].is \notin Compared
  <2>1. \A i \in DOMAIN chan'[S] : chan'[S][i].is \notin Opened
    BY <1>3, <1>4, <1>5 DEF LastInCall
  <2> QED
    BY <2>1, StagesAre
<1>9. Turns'
  <2>1. \A q \in Party : Answered(q)'
    BY <1>2, <1>3, <1>6, ComparesAnswered, TwoParties
  <2>2. \A q \in Party : LastInCall(q)'
    BY <1>3, <1>4, DrainedOrder DEF Turns
  <2>3. \A x : (\E i \in DOMAIN chan'[R] : x = chan'[R][i]) => ToReceiver(x)'
    <3>1. ASSUME NEW x, NEW i \in DOMAIN chan[R], x = chan[R][i]
          PROVE  ToReceiver(x)'
      <4>1. ToReceiver(x) /\ x.is \notin Compared
        BY <1>3, <1>7, <3>1 DEF Turns
      <4> QED
        BY <1>2, <4>1, ToReceiverStill, TwoParties
    <3> QED
      BY <1>4, <3>1
  <2>4. \A x : (\E i \in DOMAIN chan'[S] : x = chan'[S][i]) => ToSender(x)'
    BY <1>8 DEF ToSender
  <2> QED
    BY <2>1, <2>2, <2>3, <2>4, TurnsHold
<1>10. ContentSent'
  BY <1>1, <1>2, <1>3 DEF ContentSent
<1>11. Fits'
  BY <1>2, ComparesFits, TwoParties
<1> QED
  BY <1>2, <1>9, <1>10, <1>11, ComparesKeeps, TwoParties

LEMMA TurnFitsAt ==
    CircuitInv /\ ContentSent /\ HintsHeld /\ InStep =>
        \A n, t : n = Number(R) /\ t = Turn(R) =>
            \A b \in 1..BinsOf(n) : Added(n, t, b) = Held(n, t, b)
BY TurnFits

LEMMA ReceiverHears ==
    ASSUME CircuitInv, CircuitInv', SharesInv, RecvValue(R), stage[R] \in Compared
    PROVE  SharesInv'
<1>1. /\ io[R] = "recv" /\ Take(R, Size(stage[R]))
      /\ remote' = [remote EXCEPT ![R] = Head(chan[R]).value]
  BY DEF RecvValue
<1>2. Compares(R) /\ (HasWritten(R)' <=> HasWritten(R)) /\ HasRead(R)'
  <2>1. ~SendValue(R)
    BY <1>1 DEF SendValue
  <2> QED
    BY <1>1, <2>1, HalfCompares, TwoParties
<1>3. /\ Turns /\ ContentSent /\ HintsHeld /\ LastInCall(R) /\ Goes(R) /\ stage' = stage
      /\ fid' = fid /\ calls' = calls /\ results' = results
  BY <1>2, TwoParties DEF SharesInv, Compares, Turns
<1>4. /\ Drained /\ 1 \in DOMAIN chan[R] /\ Head(chan[R]) = chan[R][1]
      /\ \A i \in DOMAIN chan'[R] : i + 1 \in DOMAIN chan[R] /\ 1 < i + 1
                                    /\ chan'[R][i] = chan[R][i + 1]
      /\ chan'[S] = chan[S]
  BY <1>1, Taken, TwoParties
<1>5. Head(chan[R]).is = stage[R] /\ Head(chan[R]).fid = fid[R]
  BY Zenon, <1>1, Found, TwoParties
<1>6. /\ stage[S] = stage[R] /\ fid[S] = fid[R] /\ io[S] = "recv"
      /\ Head(chan[R]).value = sent[S] /\ Number(R) = Number(S)
  BY <1>3, <1>4, <1>5 DEF Turns, ToReceiver, Waiting
<1>7. HasWritten(S)
  BY <1>6, InTurn, TwoParties DEF TakesTurns
<1>8. Spoken(S, Number(R), Turn(R))
  BY <1>6, <1>7 DEF Spoken, Turn
<1>9. \A i \in DOMAIN chan'[R] : chan'[R][i].is \notin Opened
  BY <1>3, <1>4, <1>5 DEF LastInCall
<1>10. Turns'
  <2>1. \A q \in Party : Answered(q)'
    BY <1>2, <1>3, <1>8, ComparesAnswered, TwoParties
  <2>2. \A q \in Party : LastInCall(q)'
    BY <1>3, <1>4, DrainedOrder DEF Turns
  <2>3. \A x : (\E i \in DOMAIN chan'[R] : x = chan'[R][i]) => ToReceiver(x)'
    <3>1. Compared \subseteq Opened /\ "feature_hint" \in Opened
      BY DEF Opened
    <3> QED
      BY <1>9, <3>1 DEF ToReceiver
  <2>4. \A x : (\E i \in DOMAIN chan'[S] : x = chan'[S][i]) => ToSender(x)'
    <3>1. ASSUME NEW x, NEW i \in DOMAIN chan[S], x = chan[S][i], x.is \in Compared
          PROVE  Waiting(x)' /\ Spoken(R, Number(S), Turn(S))'
      <4>1. Waiting(x) /\ Spoken(R, Number(S), Turn(S))
        BY <1>3, <3>1 DEF Turns, ToSender
      <4>2. io'[S] = io[S]
        BY <1>3, TwoParties DEF Goes, Others
      <4>3. PICK n, t : n = Number(S) /\ t = Turn(S) /\ n = Number(S)' /\ t = Turn(S)'
        BY <1>3 DEF Number, Turn
      <4>4. Spoken(R, n, t)'
        BY <1>2, <4>1, <4>3, ComparesTurns, TwoParties
      <4>5. Spoken(R, Number(S), Turn(S))'
        BY <4>3, <4>4 DEF Spoken, Past, Returned
      <4> QED
        BY <1>3, <4>1, <4>2, <4>5 DEF Waiting
    <3> QED
      BY <1>4, <3>1 DEF ToSender
  <2> QED
    BY <2>1, <2>2, <2>3, <2>4, TurnsHold
<1>11. ContentSent'
  BY <1>3, ContentStays
<1>12. HintsHeld'
  BY <1>2, <1>3, ComparesHints, TwoParties
<1>13. InStep'
  <2>1. sent'[S] = sent[S] /\ io'[S] = io[S]
    BY <1>3, TwoParties DEF Goes, Others
  <2>2. remote'[R] = sent[S]
    BY <1>1, <1>6, TwoParties DEF CircuitInv, AreSequences
  <2>3. HasWritten(S)'
    BY <1>3, <1>7, <2>1 DEF HasWritten
  <2>4. Number(S)' = Number(R)'
    BY <1>3, <1>6 DEF Number
  <2> QED
    BY <1>2, <1>3, <1>6, <2>1, <2>2, <2>3, <2>4 DEF InStep
<1>14. Fits'
  <2>1. PICK call, turn :
            call = Number(R) /\ turn = Turn(R) /\ call = Number(R)' /\ turn = Turn(R)'
    BY <1>3 DEF Number, Turn
  <2>2. (CircuitInv /\ ContentSent /\ HintsHeld /\ InStep =>
           \A n, t : n = Number(R) /\ t = Turn(R) =>
               \A b \in 1..BinsOf(n) : Added(n, t, b) = Held(n, t, b))'
    BY TurnFitsAt, PTL
  <2>3. call \in DOMAIN calls[R]
    BY ZenonT(60), <2>1, InTurn, TwoParties DEF TakesTurns
  <2>4. BinsOf(call)' = BinsOf(call)
    BY <1>3, <2>3, CallsLastly, TwoParties
  <2>5. \A b \in 1..BinsOf(call) : Added(call, turn, b)' = Held(call, turn, b)'
    BY <1>11, <1>12, <1>13, <2>1, <2>2, <2>4
  <2> QED
    BY <1>2, <2>1, <2>5, ComparesFits, TwoParties
<1> QED
  BY <1>2, <1>10, <1>11, <1>14, ComparesKeeps, TwoParties

LEMMA ReceiverSpeaks ==
    ASSUME CircuitInv, CircuitInv', SharesInv, SendValue(R), stage[R] \in Compared
    PROVE  SharesInv'
<1>1. /\ Compares(R) /\ io[R] = "send" /\ ~HasWritten(R) /\ HasWritten(R)'
      /\ (HasRead(R)' <=> HasRead(R))
  BY HalfCompares, TwoParties
<1>2. Turns /\ ContentSent /\ Goes(R) /\ stage' = stage /\ fid' = fid /\ UNCHANGED <<calls, results>>
  BY <1>1 DEF SharesInv, Compares
<1>3. PICK n, t : n = Number(R) /\ t = Turn(R)
  OBVIOUS
<1>4. /\ n \in DOMAIN calls[S] /\ t \in 0..Features(n) /\ t \in Nat /\ n \notin DOMAIN results[R]
      /\ HasRead(R)
  BY <1>1, <1>3, InTurn, TwoParties DEF TakesTurns
<1>5. Heard(R, n, t) /\ ~Spoken(R, n, t)
  BY <1>1, <1>3, <1>4 DEF Heard, Spoken, Past, Returned
<1>6. Spoken(S, n, t) /\ ~Heard(S, n, t)
  BY <1>2, <1>4, <1>5, TwoParties DEF Turns, Answered
<1>7. /\ Number(S) = n /\ Turn(S) = t /\ stage[S] \in Compared /\ HasWritten(S) /\ ~HasRead(S)
  BY <1>6 DEF Spoken, Heard
<1>8. stage[S] = stage[R] /\ fid[S] = fid[R] /\ io[S] = "recv"
  BY <1>3, <1>7, InTurn, TwoParties DEF TakesTurns, Compared
<1>9. PICK width, value : Post(R, width, value)
  BY DEF SendValue
<1>10. PICK m : m = [is |-> stage[R], fid |-> fid[R], width |-> width, value |-> value]
  BY Zenon
<1>11. m.is = stage[R] /\ m.fid = fid[R]
  BY <1>10
<1>12. /\ \A i \in DOMAIN chan[R] : chan[R][i].is \notin Compared
       /\ \A i \in DOMAIN chan[S] : chan[S][i].is \notin Compared
  BY <1>2, <1>5, <1>7, NoComparisons
<1>13. /\ chan'[R] = chan[R]
       /\ \A i \in DOMAIN chan'[S] :
             (i \in DOMAIN chan[S] /\ chan'[S][i] = chan[S][i]) \/ chan'[S][i] = m
  <2>1. S = Peer(R) /\ R \in Party
    BY TwoParties
  <2> QED
    BY <1>9, <1>10, <2>1, Posted
<1>14. ToSender(m)'
  <2>1. io'[S] = io[S]
    BY <1>2, TwoParties DEF Goes, Others
  <2>2. Number(S)' = n /\ Turn(S)' = t /\ Number(R)' = n /\ Turn(R)' = t
    BY <1>2, <1>3, <1>7 DEF Number, Turn
  <2>3. Spoken(R, Number(S), Turn(S))'
    BY <1>1, <1>2, <2>2 DEF Spoken
  <2> QED
    BY <1>2, <1>8, <1>11, <2>1, <2>3 DEF ToSender, Waiting
<1>15. Turns'
  <2>1. \A q \in Party : Answered(q)'
    BY <1>1, <1>2, ComparesAnswered, TwoParties
  <2>2. \A q \in Party : LastInCall(q)'
    BY <1>2, <1>9, <1>10, <1>12, PostedOrder, TwoParties DEF Turns
  <2>3. \A x : (\E i \in DOMAIN chan'[R] : x = chan'[R][i]) => ToReceiver(x)'
    <3>1. ASSUME NEW x, NEW i \in DOMAIN chan[R], x = chan[R][i]
          PROVE  ToReceiver(x)'
      <4>1. ToReceiver(x) /\ x.is \notin Compared
        BY <1>2, <1>12, <3>1 DEF Turns
      <4> QED
        BY <1>1, <4>1, ToReceiverStill, TwoParties
    <3> QED
      BY <1>13, <3>1
  <2>4. \A x : (\E i \in DOMAIN chan'[S] : x = chan'[S][i]) => ToSender(x)'
    <3>1. ASSUME NEW x, NEW i \in DOMAIN chan[S], x = chan[S][i]
          PROVE  ToSender(x)'
      BY <1>12, <3>1 DEF ToSender
    <3> QED
      BY <1>13, <1>14, <3>1
  <2> QED
    BY <2>1, <2>2, <2>3, <2>4, TurnsHold
<1>16. ContentSent'
  BY <1>2, ContentStays
<1>17. Fits'
  BY <1>1, <1>3, ComparesFits, TwoParties
<1> QED
  BY <1>1, <1>15, <1>16, <1>17, ComparesKeeps, TwoParties

-----------------------------------------------------------------------------
(* A comparison is complete.                                               *)

\* p has completed comparison t of call n, which gives it these columns.
Completes(p, n, t, columns) ==
    /\ stage[p] \in Compared /\ io[p] = "done" /\ n = Number(p) /\ t = Turn(p)
    /\ columns \in Seq(Seq(Word)) /\ Len(columns) = t + 1
    /\ \A c \in 0..t : /\ columns[c + 1] = Column(p, n, c)
                       /\ DOMAIN columns[c + 1] = 1..BinsOf(n)
    /\ UNCHANGED <<params, calls, sent, remote, peer_size, common_prng, chan>>

\* There is another to come; or the call returns.
Continues(p, n, t, columns) ==
    /\ t < Features(n) /\ EnterAt(p, "multiplexer", t + 1)
    /\ output_shares' = [output_shares EXCEPT ![p] = columns]
    /\ UNCHANGED <<results, cuckoo_table, hint_table, stash_size, contents, opened,
                   hint_features>>

Returns(p, n, t, columns) ==
    t = Features(n) /\ End(p, [columns |-> columns \o ReceiverFeatures(p)])

LEMMA Appended ==
    ASSUME NEW T, NEW s \in Seq(T), NEW x \in T, NEW t \in Nat, Len(s) = t
    PROVE  /\ Append(s, x) \in Seq(T) /\ Len(Append(s, x)) = t + 1
           /\ \A c \in 0..(t - 1) : Append(s, x)[c + 1] = s[c + 1]
           /\ Append(s, x)[t + 1] = x
BY AppendProperties

LEMMA ColumnShape ==
    ASSUME CircuitInv, NEW p \in Party, stage[p] \in Compared, NEW n, n = Number(p)
    PROVE  DOMAIN Equal(p) = 1..BinsOf(n) /\ DOMAIN Multiplexer(p) = 1..BinsOf(n)
<1>1. Bins(p) = BinsOf(n)
  BY BinsAgree, StagesAre
<1>2. DOMAIN Equal(p) = 1..Bins(p)
  BY Zenon DEF Equal
<1>3. DOMAIN Multiplexer(p) = 1..Bins(p)
  BY Zenon DEF Multiplexer
<1> QED
  BY <1>1, <1>2, <1>3

LEMMA ColumnAdded ==
    ASSUME CircuitInv, Shaped, NEW p \in Party, EqualDone(p) \/ MultiplexerDone(p)
    PROVE  \E n, t, columns :
              /\ Completes(p, n, t, columns)
              /\ Continues(p, n, t, columns) \/ Returns(p, n, t, columns)
<1>1. PICK n, t : n = Number(p) /\ t = Turn(p)
  OBVIOUS
<1>2. /\ stage[p] \in Compared /\ io[p] = "done"
      /\ UNCHANGED <<params, calls, sent, remote, peer_size, common_prng, chan>>
  BY DEF EqualDone, MultiplexerDone, At, values, Compared
<1>3. TakesTurns(p) /\ FeatureSize(p, S) = Features(n) /\ FeatureSize(p, "sender") = Features(n)
  BY <1>1, <1>2, InTurn, ComparedSizes DEF S
<1>4. /\ Features(n) \in Nat /\ t \in 0..Features(n) /\ t \in Nat
      /\ output_shares[p] \in Seq(Seq(Word)) /\ Len(output_shares[p]) = t
      /\ stage[p] = "equal" => t = 0
      /\ stage[p] = "multiplexer" => t = fid[p] /\ t # 0
  BY <1>1, <1>2, <1>3 DEF TakesTurns
<1>5. PICK column \in Seq(Word) :
          /\ column = Column(p, n, t) /\ DOMAIN column = 1..BinsOf(n)
          /\ AddColumn(p, column, t = Features(n))
  <2>1. CASE EqualDone(p)
    <3>1. stage[p] = "equal" /\ AddColumn(p, Equal(p), ~HasFeatures(p))
      BY <2>1 DEF EqualDone, At
    <3>2. (~HasFeatures(p)) = (t = Features(n))
      BY <1>3, <1>4, <3>1 DEF HasFeatures
    <3>3. AddColumn(p, Equal(p), t = Features(n))
      BY Zenon, <3>1, <3>2
    <3>4. Column(p, n, t) = Equal(p)
      BY <1>1, <1>2, <1>4, <3>1, ColumnIs
    <3>5. DOMAIN Equal(p) = 1..BinsOf(n) /\ Equal(p) \in Seq(Word)
      BY <1>1, <1>2, <3>1, ColumnShape, EqualType
    <3> QED
      BY Zenon, <3>3, <3>4, <3>5
  <2>2. CASE MultiplexerDone(p)
    <3>1. stage[p] = "multiplexer" /\ AddColumn(p, Multiplexer(p), fid[p] = FeatureSize(p, "sender"))
      BY <2>2 DEF MultiplexerDone, At
    <3>2. (fid[p] = FeatureSize(p, "sender")) = (t = Features(n))
      BY <1>3, <1>4, <3>1
    <3>3. AddColumn(p, Multiplexer(p), t = Features(n))
      BY Zenon, <3>1, <3>2
    <3>4. Column(p, n, t) = Multiplexer(p)
      BY <1>1, <1>2, <3>1, ColumnIs
    <3>5. DOMAIN Multiplexer(p) = 1..BinsOf(n) /\ Multiplexer(p) \in Seq(Word)
      BY <1>1, <1>2, <3>1, ColumnShape, MultiplexerType
    <3> QED
      BY Zenon, <3>3, <3>4, <3>5
  <2> QED
    BY <2>1, <2>2
<1>6. PICK columns : columns = Append(output_shares[p], column)
  OBVIOUS
<1>7. /\ columns \in Seq(Seq(Word)) /\ Len(columns) = t + 1
      /\ \A c \in 0..(t - 1) : columns[c + 1] = output_shares[p][c + 1]
      /\ columns[t + 1] = column
  BY <1>4, <1>5, <1>6, Appended
<1>8. ASSUME NEW c \in 0..t
      PROVE  columns[c + 1] = Column(p, n, c) /\ DOMAIN columns[c + 1] = 1..BinsOf(n)
  <2>1. CASE c = t
    BY <1>5, <1>7, <2>1
  <2>2. CASE c # t
    <3>1. c \in 0..(t - 1) /\ c + 1 \in DOMAIN output_shares[p]
      BY <1>4, <2>2
    <3>2. columns[c + 1] = output_shares[p][c + 1] /\ Column(p, n, c) = output_shares[p][c + 1]
      BY <1>1, <1>2, <1>7, <3>1, ColumnIs
    <3>3. DOMAIN output_shares[p][c + 1] = 1..BinsOf(n)
      BY <1>1, <3>1 DEF Shaped
    <3> QED
      BY <3>2, <3>3
  <2> QED
    BY <2>1, <2>2
<1>9. Completes(p, n, t, columns)
  BY <1>1, <1>2, <1>7, <1>8 DEF Completes
<1>10. CASE t = Features(n)
  BY <1>5, <1>6, <1>9, <1>10 DEF AddColumn, Returns
<1>11. CASE t # Features(n)
  <2>1. /\ output_shares' = [output_shares EXCEPT ![p] = Append(@, column)]
        /\ EnterAt(p, "multiplexer", Len(output_shares[p]) + 1)
        /\ UNCHANGED <<results, tables, contents, opened, hint_features>>
    BY <1>5, <1>11 DEF AddColumn
  <2>2. output_shares' = [output_shares EXCEPT ![p] = columns]
    BY <1>6, <2>1
  <2>3. t < Features(n)
    BY <1>4, <1>11
  <2> QED
    BY <1>4, <1>9, <2>1, <2>2, <2>3 DEF Continues, tables
<1> QED
  BY <1>10, <1>11

LEMMA ContinuesBy ==
    ASSUME CircuitInv, NEW p \in Party, NEW n, NEW t, NEW columns,
           Completes(p, n, t, columns), Continues(p, n, t, columns)
    PROVE  /\ Goes(p) /\ stage'[p] = "multiplexer" /\ Turn(p)' = t + 1 /\ Number(p)' = n
           /\ ~HasRead(p)' /\ ~HasWritten(p)' /\ output_shares'[p] = columns
<1>1. t \in Nat /\ t + 1 \in Nat \ {0} /\ "multiplexer" \in Stages /\ Peer(p) \in Party \ {p}
  BY InTurn, TwoParties, StagesAre DEF Completes, TakesTurns, InCall
<1>2. output_shares \in [Party -> Seq(Seq(Word))]
  BY DEF CircuitInv, TypeOK
<1>3. /\ stage'[p] = "multiplexer" /\ fid'[p] = t + 1 /\ ~HasRead(p)' /\ ~HasWritten(p)'
      /\ \A q \in Party \ {p} : stage'[q] = stage[q] /\ io'[q] = io[q] /\ fid'[q] = fid[q]
  BY <1>1, Entered DEF Continues
<1>4. /\ output_shares'[p] = columns
      /\ \A q \in Party \ {p} : output_shares'[q] = output_shares[q]
  BY <1>2 DEF Continues
<1>5. Goes(p)
  BY <1>1, <1>3, <1>4 DEF Completes, Continues, Goes, Others
<1> QED
  BY <1>3, <1>4, <1>5 DEF Completes, Turn, Number

LEMMA ReturnsBy ==
    ASSUME CircuitInv, NEW p \in Party, NEW n, NEW t, NEW columns,
           Completes(p, n, t, columns), Returns(p, n, t, columns)
    PROVE  /\ Goes(p) /\ stage'[p] = "idle" /\ Number(p)' = n /\ output_shares'[p] = <<>>
           /\ DOMAIN results'[p] = 1..n /\ n \in Nat \ {0} /\ Returned(p, n)'
           /\ DOMAIN results[p] = 1..(n - 1)
           /\ \A k \in DOMAIN results[p] : results'[p][k] = results[p][k]
           /\ After(Seq(Word), columns, ReceiverFeatures(p), results'[p][n].columns)
<1>1. PICK result : result = [columns |-> columns \o ReceiverFeatures(p)] /\ End(p, result)
  BY DEF Returns
<1>2. /\ "idle" \in Stages /\ 1 \in Nat \ {0} /\ Peer(p) \in Party \ {p}
      /\ stage[p] \in Compared /\ stage[p] \in InCall /\ n = Number(p)
  BY StagesAre, TwoParties DEF Rest, Completes
<1>3. /\ EnterAt(p, "idle", 1) /\ results'[p] = Append(results[p], result)
      /\ output_shares'[p] = <<>>
      /\ \A q \in Party \ {p} : /\ results'[q] = results[q]
                                /\ stash_size'[q] = stash_size[q]
                                /\ output_shares'[q] = output_shares[q]
      /\ p = S => UNCHANGED <<cuckoo_table, opened, hint_features>>
      /\ p = R => UNCHANGED <<hint_table, contents>>
  BY <1>1, EndedLocals
<1>4. /\ stage'[p] = "idle"
      /\ \A q \in Party \ {p} : stage'[q] = stage[q] /\ io'[q] = io[q] /\ fid'[q] = fid[q]
  BY <1>2, <1>3, Entered
<1>5. Others(p)
  BY <1>2, <1>3, <1>4 DEF Others, Completes
<1>6. /\ DOMAIN results'[p] = 1..n /\ results'[p][n] = result
      /\ DOMAIN results[p] = 1..(n - 1) /\ n \in Nat \ {0}
      /\ \A k \in DOMAIN results[p] : results'[p][k] = results[p][k]
  BY ZenonT(60), <1>2, <1>3, ResultAdded
<1>7. Goes(p)
  BY <1>5, <1>6 DEF Goes, Completes
<1>8. ~Threw(result)
  BY <1>1, ThrewIs
<1>9. Returned(p, n)'
  <2>1. ~Threw(results'[p][n])
    BY <1>6, <1>8
  <2> QED
    BY <1>6, <2>1 DEF Returned, Threw, Ideal!Thrown
<1>10. After(Seq(Word), columns, ReceiverFeatures(p), columns \o ReceiverFeatures(p))
  <2>1. columns \in Seq(Seq(Word)) /\ ReceiverFeatures(p) \in Seq(Seq(Word))
    BY <1>2, ReceiverFeaturesType DEF Completes
  <2> QED
    BY <2>1, Joining
<1>11. results'[p][n].columns = columns \o ReceiverFeatures(p)
  BY <1>1, <1>6
<1>12. Number(p)' = n
  BY <1>2 DEF Number, Completes
<1> QED
  BY <1>3, <1>4, <1>6, <1>7, <1>9, <1>10, <1>11, <1>12

-----------------------------------------------------------------------------
(* A complete comparison is left smoothly.                                 *)

LEMMA CompletesTurns ==
    ASSUME CircuitInv, NEW p \in Party, NEW n, NEW t, NEW columns,
           Completes(p, n, t, columns), Continues(p, n, t, columns) \/ Returns(p, n, t, columns)
    PROVE  TurnsStay
<1>1. /\ stage[p] \in Compared /\ HasRead(p) /\ HasWritten(p) /\ n = Number(p) /\ t = Turn(p)
  BY DEF Completes, HasRead, HasWritten
<1>2. /\ n \in DOMAIN calls[S] /\ n \notin DOMAIN results[p]
      /\ Features(n) \in Nat /\ t \in 0..Features(n) /\ t \in Nat
  BY <1>1, InTurn DEF TakesTurns
<1>3. Goes(p)
  BY ContinuesBy, ReturnsBy
<1>4. \A c \in Nat : /\ Heard(p, n, c) <=> c <= t
                     /\ Spoken(p, n, c) <=> c <= t
  BY <1>1, <1>2 DEF Heard, Spoken, Past, Returned
<1>5. ASSUME NEW m, NEW c \in Nat, m \in DOMAIN calls[S] => c <= Features(m)
      PROVE  /\ Heard(p, m, c)' <=> Heard(p, m, c)
             /\ Spoken(p, m, c)' <=> Spoken(p, m, c)
  <2>1. CASE Continues(p, n, t, columns)
    <3>1. /\ stage'[p] = "multiplexer" /\ Turn(p)' = t + 1 /\ Number(p)' = n
          /\ ~HasRead(p)' /\ ~HasWritten(p)'
      BY <2>1, ContinuesBy
    <3>2. Returned(p, m)' <=> Returned(p, m)
      BY <2>1 DEF Continues, Returned, Threw, Ideal!Thrown
    <3>3. CASE m = n
      <4>1. ~Returned(p, n) /\ ~Returned(p, n)'
        BY <1>2, <3>2, <3>3 DEF Returned
      <4>2. "multiplexer" \in Compared
        BY DEF Compared
      <4>3. Past(p, n, c)' <=> t + 1 > c
        BY <3>1, <4>1, <4>2 DEF Past
      <4>4. /\ Heard(p, n, c)' <=> t + 1 > c
            /\ Spoken(p, n, c)' <=> t + 1 > c
        BY <3>1, <4>3 DEF Heard, Spoken
      <4> QED
        BY <1>2, <1>4, <3>3, <4>4
    <3>4. CASE m # n
      BY <1>1, <3>1, <3>2, <3>4 DEF Heard, Spoken, Past
    <3> QED
      BY <3>3, <3>4
  <2>2. CASE Returns(p, n, t, columns)
    <3>1. /\ stage'[p] = "idle" /\ Returned(p, n)'
          /\ DOMAIN results'[p] = 1..n /\ n \in Nat \ {0} /\ DOMAIN results[p] = 1..(n - 1)
          /\ \A k \in DOMAIN results[p] : results'[p][k] = results[p][k]
      BY <2>2, ReturnsBy
    <3>2. CASE m = n
      <4>1. c <= t
        BY <1>2, <1>5, <2>2, <3>2 DEF Returns
      <4> QED
        BY <1>4, <3>1, <3>2, <4>1 DEF Heard, Spoken, Past
    <3>3. CASE m # n
      <4>1. m \in DOMAIN results'[p] <=> m \in DOMAIN results[p]
        BY <3>1, <3>3
      <4>2. Returned(p, m)' <=> Returned(p, m)
        BY <3>1, <4>1 DEF Returned, Threw, Ideal!Thrown
      <4>3. "idle" \notin Compared
        BY DEF Compared
      <4> QED
        BY <1>1, <3>1, <3>3, <4>2, <4>3 DEF Heard, Spoken, Past
    <3> QED
      BY <3>2, <3>3
  <2> QED
    BY <2>1, <2>2
<1>6. ASSUME NEW q \in Party, q # p, NEW m, NEW c
      PROVE  /\ Heard(q, m, c)' <=> Heard(q, m, c)
             /\ Spoken(q, m, c)' <=> Spoken(q, m, c)
  BY <1>3, <1>6, OtherTurns, TwoParties
<1> QED
  BY <1>5, <1>6 DEF TurnsStay

LEMMA CompletesColumns ==
    ASSUME CircuitInv, NEW p \in Party, NEW n, NEW t, NEW columns,
           Completes(p, n, t, columns), Continues(p, n, t, columns) \/ Returns(p, n, t, columns)
    PROVE  ColumnsStay
<1>1. /\ stage[p] \in Compared /\ n = Number(p) /\ t = Turn(p) /\ Goes(p) /\ Others(p)
      /\ columns \in Seq(Seq(Word)) /\ Len(columns) = t + 1
      /\ \A c \in 0..t : columns[c + 1] = Column(p, n, c)
  BY ContinuesBy, ReturnsBy DEF Completes, Goes
<1>2. n \notin DOMAIN results[p] /\ t \in Nat
  BY <1>1, InTurn DEF TakesTurns
<1>3. ASSUME NEW c \in 0..t
      PROVE  Column(p, n, c)' = Column(p, n, c)
  <2>1. c + 1 \in 1..(t + 1) /\ c + 1 \in DOMAIN columns
    BY <1>1, <1>2
  <2>2. CASE Continues(p, n, t, columns)
    <3>1. output_shares'[p] = columns /\ n \notin DOMAIN results'[p]
      BY <1>2, <2>2, ContinuesBy DEF Continues
    <3>2. Column(p, n, c)' = columns[c + 1]
      BY <2>1, <3>1 DEF Column
    <3> QED
      BY <1>1, <3>2
  <2>3. CASE Returns(p, n, t, columns)
    <3>1. /\ n \in DOMAIN results'[p]
          /\ After(Seq(Word), columns, ReceiverFeatures(p), results'[p][n].columns)
      BY <2>3, ReturnsBy
    <3>2. results'[p][n].columns[c + 1] = columns[c + 1]
      BY <1>1, <2>1, <3>1 DEF After
    <3>3. Column(p, n, c)' = columns[c + 1]
      BY <3>1, <3>2 DEF Column
    <3> QED
      BY <1>1, <3>3
  <2> QED
    BY <2>2, <2>3
<1>4. ASSUME NEW m \in DOMAIN results[p], NEW c
      PROVE  Column(p, m, c)' = Column(p, m, c)
  BY <1>1 DEF Goes, Column
<1>5. ASSUME NEW m, NEW c \in Nat, Heard(p, m, c) \/ Spoken(p, m, c)
      PROVE  Column(p, m, c)' = Column(p, m, c)
  <2>1. m \in DOMAIN results[p] \/ (m = n /\ c \in 0..t)
    BY <1>1, <1>2, <1>5 DEF Heard, Spoken, Past, Returned
  <2> QED
    BY <1>3, <1>4, <2>1
<1>6. ASSUME NEW q \in Party, q # p, NEW m, NEW c
      PROVE  Column(q, m, c)' = Column(q, m, c)
  BY <1>1, <1>6, OtherColumns, TwoParties
<1> QED
  BY <1>5, <1>6, TwoParties DEF ColumnsStay

LEMMA CompletesSmoothly ==
    ASSUME CircuitInv, Turns, NEW p \in Party, NEW n, NEW t, NEW columns,
           Completes(p, n, t, columns), Continues(p, n, t, columns) \/ Returns(p, n, t, columns)
    PROVE  Smooth(p) /\ Uses(p)
<1>1. /\ stage[p] \in Compared /\ io[p] = "done" /\ HasRead(p) /\ n = Number(p) /\ t = Turn(p)
      /\ chan' = chan
  BY DEF Completes, HasRead
<1>2. n \in DOMAIN calls[S] /\ Features(n) \in Nat /\ t \in 0..Features(n)
  BY <1>1, InTurn DEF TakesTurns
<1>3. p = S => Heard(R, n, 0)
  <2>1. SUFFICES ASSUME p = S PROVE Heard(R, n, 0)
    OBVIOUS
  <2>2. Heard(S, n, 0)
    BY <1>1, <1>2, <2>1 DEF Heard, Past
  <2>3. Spoken(R, n, 0)
    BY <1>2, <2>2, TwoParties DEF Turns, Answered
  <2> QED
    BY <2>3, InOneTurn
<1>4. Goes(p) /\ TurnsStay /\ ColumnsStay
  BY ContinuesBy, ReturnsBy, CompletesTurns, CompletesColumns
<1> QED
  BY <1>1, <1>3, <1>4 DEF Smooth, Uses

\* What follows for the parts of the invariant about calls under way.
LEMMA CompletesParts ==
    ASSUME CircuitInv, CircuitInv', SharesInv, NEW p \in Party, NEW n, NEW t, NEW columns,
           Completes(p, n, t, columns), Continues(p, n, t, columns) \/ Returns(p, n, t, columns)
    PROVE  Fits' /\ HintsHeld' /\ AllOpened' /\ ContentSent' /\ Shaped'
<1>1. Turns /\ ContentSent /\ HintsHeld /\ AllOpened /\ Shaped /\ Fits /\ Answered(R)
  BY TwoParties DEF SharesInv, Turns
<1>2. Goes(p) /\ TurnsStay /\ ColumnsStay /\ Others(p)
  BY ContinuesBy, ReturnsBy, CompletesTurns, CompletesColumns DEF Goes
<1>3. /\ stage[p] \in Compared /\ stage[p] \in Opened /\ n = Number(p) /\ calls' = calls
      /\ Number(p)' = n /\ columns \in Seq(Seq(Word)) /\ Len(columns) = t + 1
      /\ \A c \in 0..t : DOMAIN columns[c + 1] = 1..BinsOf(n)
  BY StagesAre DEF Completes, Number
<1>4. n \in DOMAIN calls[S] /\ n \in DOMAIN calls[R] /\ t \in Nat
  BY <1>3, InTurn DEF TakesTurns, Completes
<1>5. \/ /\ stage'[p] = "multiplexer" /\ output_shares'[p] = columns /\ ~HasWritten(p)'
         /\ UNCHANGED <<cuckoo_table, contents, opened, hint_features>>
      \/ stage'[p] = "idle" /\ output_shares'[p] = <<>>
  BY ContinuesBy, ReturnsBy DEF Continues
<1>6. "idle" \notin Compared /\ "idle" \notin Opened /\ "idle" \notin Hinted
  BY DEF Compared, Opened, Hinted
<1>7. Fits'
  <2>1. PICK k : k = Number(R)
    OBVIOUS
  <2>2. \A c \in 0..Features(k) : stage[R] \in Compared /\ Heard(R, k, c)' => Heard(R, k, c)
    <3>1. SUFFICES ASSUME stage[R] \in Compared, NEW c \in 0..Features(k), Heard(R, k, c)'
                   PROVE  Heard(R, k, c)
      OBVIOUS
    <3>2. Features(k) \in Nat
      BY <2>1, <3>1, InTurn, TwoParties DEF TakesTurns
    <3>3. c \in Nat /\ c <= Features(k)
      BY <3>2
    <3> QED
      BY <1>2, <3>1, <3>3, TwoParties DEF TurnsStay
  <2>3. CASE stage'[R] \notin Compared
    BY <2>3 DEF Fits
  <2>4. CASE stage'[R] \in Compared
    <3>1. stage[R] \in Compared /\ UNCHANGED <<cuckoo_table, opened>> /\ calls'[R] = calls[R]
      BY <1>2, <1>3, <1>5, <1>6, <2>4, TwoParties DEF Others
    <3> QED
      BY <1>1, <1>2, <2>1, <2>2, <3>1, FitsHold
  <2> QED
    BY <2>3, <2>4
<1>8. HintsHeld'
  BY <1>1, <1>2, <1>3, <1>5, <1>6, HintsHeldHolds
<1>9. AllOpened'
  BY <1>1, <1>2, <1>3, <1>5, <1>6, AllOpenedHolds
<1>10. ContentSent'
  <2>1. CASE p = R
    BY <1>1, <1>2, <2>1, ContentStays
  <2>2. CASE p = S
    BY <1>5, <2>2 DEF ContentSent
  <2> QED
    BY <2>1, <2>2, TwoParties
<1>11. Shaped'
  <2>1. BinsOf(n)' = BinsOf(n)
    BY <1>2, <1>4, CallsLastly
  <2>2. \A k \in DOMAIN output_shares'[p] : DOMAIN output_shares'[p][k] = 1..BinsOf(n)
    <3>1. ASSUME NEW k \in 1..(t + 1)
          PROVE  DOMAIN columns[k] = 1..BinsOf(n)
      <4>1. PICK c \in 0..t : k = c + 1
        <5>1. k - 1 \in 0..t /\ k = (k - 1) + 1
          BY <1>4
        <5> QED
          BY <5>1
      <4> QED
        BY <1>3, <4>1
    <3>2. DOMAIN columns = 1..(t + 1)
      BY <1>3
    <3>3. CASE output_shares'[p] = columns
      BY <3>1, <3>2, <3>3
    <3>4. CASE output_shares'[p] = <<>>
      BY <3>4
    <3> QED
      BY <1>5, <3>3, <3>4
  <2> QED
    BY <1>1, <1>2, <1>3, <2>1, <2>2, ShapedHolds
<1> QED
  BY <1>7, <1>8, <1>9, <1>10, <1>11

-----------------------------------------------------------------------------
(* What a call returns.                                                    *)

LEMMA BinsOfKeys ==
    ASSUME CircuitInv, stage[R] \in Compared, NEW n, n = Number(R)
    PROVE  BinOfKey \in Injection(DOMAIN calls[R][n].keys, 1..BinsOf(n))
<1>1. TableOf(n)
  BY StagesAre DEF CircuitInv, ReceiverLocals
<1>2. Current(R) = calls[R][n]
  BY DEF Current
<1>3. /\ BinOfKey \in [DOMAIN calls[R][n].keys -> 1..BinsOf(n)]
      /\ \A i, j \in DOMAIN calls[R][n].keys : BinOfKey[i] = BinOfKey[j] => i = j
  BY <1>1, <1>2 DEF TableOf, BinOfKey
<1> QED
  BY <1>3 DEF Injection, IsInjective

\* The columns of a call that returns have the shape of its table.
LEMMA ReturnsShaped ==
    ASSUME CircuitInv, NEW p \in Party, NEW n, NEW t, NEW columns,
           Completes(p, n, t, columns), Returns(p, n, t, columns)
    PROVE  /\ WellShaped(p, n)' /\ Width(n)' = Width(n) /\ Features(n)' = Features(n)
           /\ BinsOf(n)' = BinsOf(n)
           /\ n \in DOMAIN calls[S] /\ n \in DOMAIN calls[R]
           /\ \A c \in (2 + Features(n))..Width(n) : \E k \in 1..Len(calls[R][n].features) :
                 /\ c = 1 + Features(n) + k
                 /\ results'[p][n].columns[c] = ReceiverFeatures(p)[k]
<1>1. /\ stage[p] \in Compared /\ n = Number(p) /\ t = Features(n)
      /\ columns \in Seq(Seq(Word)) /\ Len(columns) = t + 1
      /\ \A c \in 0..t : DOMAIN columns[c + 1] = 1..BinsOf(n)
  BY DEF Completes, Returns
<1>2. /\ n \in DOMAIN calls[S] /\ n \in DOMAIN calls[R] /\ t \in Nat
  BY <1>1, InTurn DEF TakesTurns
<1>3. PICK l : l = Len(calls[R][n].features)
  OBVIOUS
<1>4. /\ ReceiverFeatures(p) \in Seq(Seq(Word)) /\ DOMAIN ReceiverFeatures(p) = 1..l
      /\ \A k \in 1..l : DOMAIN ReceiverFeatures(p)[k] = 1..BinsOf(n)
  BY <1>1, <1>3, LastColumns
<1>5. l \in Nat /\ Len(ReceiverFeatures(p)) = l
  <2>1. FeatureSize(p, R) = l /\ FeatureSize(p, R) \in Nat
    BY <1>1, <1>3, BinsAgree, ComparedSizes, StagesAre
  <2> QED
    BY <1>4, <2>1
<1>6. Width(n) = 1 + t + l
  BY <1>1, <1>3 DEF Width
<1>7. PICK w : w = results'[p][n].columns
  OBVIOUS
<1>8. Goes(p) /\ After(Seq(Word), columns, ReceiverFeatures(p), w)
  BY <1>7, ReturnsBy
<1>9. /\ w \in Seq(Seq(Word)) /\ Len(w) = 1 + t + l
      /\ \A i \in 1..(t + 1) : w[i] = columns[i]
      /\ \A i \in 1..l : w[t + 1 + i] = ReceiverFeatures(p)[i]
  BY <1>1, <1>2, <1>5, <1>8 DEF After
<1>10. /\ Width(n)' = Width(n) /\ Features(n)' = Features(n) /\ BinsOf(n)' = BinsOf(n)
  BY <1>2, <1>8, CallsLastly
<1>11. \A c \in 1..(1 + t + l) : c \in 1..(t + 1) \/ \E k \in 1..l : c = t + 1 + k
  <2> TAKE c \in 1..(1 + t + l)
  <2>1. CASE c <= t + 1
    BY <1>2, <2>1
  <2>2. CASE c > t + 1
    <3>1. c - (t + 1) \in 1..l /\ c = t + 1 + (c - (t + 1))
      BY <1>2, <1>5, <2>2
    <3> QED
      BY <3>1
  <2> QED
    BY <1>2, <2>1, <2>2
<1>12. ASSUME NEW c \in 1..(1 + t + l)
       PROVE  DOMAIN w[c] = 1..BinsOf(n)
  <2>1. CASE c \in 1..(t + 1)
    <3>1. c - 1 \in 0..t /\ c = (c - 1) + 1
      BY <1>2, <2>1
    <3> QED
      BY <1>1, <1>9, <2>1, <3>1
  <2>2. ASSUME NEW k \in 1..l, c = t + 1 + k
        PROVE  DOMAIN w[c] = 1..BinsOf(n)
    BY <1>4, <1>9, <2>2
  <2> QED
    BY <1>11, <2>1, <2>2
<1>13. WellShaped(p, n)'
  BY <1>6, <1>7, <1>9, <1>10, <1>12 DEF WellShaped
<1>14. ASSUME NEW c \in (2 + t)..Width(n)
       PROVE  \E k \in 1..l : c = 1 + t + k /\ w[c] = ReceiverFeatures(p)[k]
  <2>1. c \in 1..(1 + t + l) /\ c \notin 1..(t + 1)
    BY <1>2, <1>5, <1>6
  <2>2. PICK k \in 1..l : c = t + 1 + k
    BY <1>11, <2>1
  <2>3. c = 1 + t + k /\ w[c] = ReceiverFeatures(p)[k]
    BY <1>2, <1>5, <1>9, <2>2
  <2> QED
    BY <2>3
<1> QED
  BY <1>1, <1>2, <1>3, <1>7, <1>10, <1>13, <1>14

LEMMA SenderReturns ==
    ASSUME CircuitInv, NEW n, NEW t, NEW columns,
           Completes(S, n, t, columns), Returns(S, n, t, columns)
    PROVE  SenderDone(n)'
<1>1. /\ WellShaped(S, n)' /\ Width(n)' = Width(n) /\ Features(n)' = Features(n)
      /\ BinsOf(n)' = BinsOf(n)
      /\ \A c \in (2 + Features(n))..Width(n) : \E k \in 1..Len(calls[R][n].features) :
            results'[S][n].columns[c] = ReceiverFeatures(S)[k]
  BY ReturnsShaped, TwoParties
<1>2. \A k \in 1..Len(calls[R][n].features) : \A b \in 1..BinsOf(n) : ReceiverFeatures(S)[k][b] = 0
  BY LastColumns, TwoParties DEF Completes
<1>3. \A c \in (2 + Features(n))..Width(n) : \A b \in 1..BinsOf(n) :
         results'[S][n].columns[c][b] = 0
  BY <1>1, <1>2
<1> QED
  BY <1>1, <1>3 DEF SenderDone

LEMMA ReceiverReturns ==
    ASSUME CircuitInv, SharesInv, NEW n, NEW t, NEW columns,
           Completes(R, n, t, columns), Returns(R, n, t, columns)
    PROVE  Joined(n)'
<1>1. Fits /\ AllOpened /\ Answered(R)
  BY TwoParties DEF SharesInv, Turns
<1>2. /\ stage[R] \in Compared /\ n = Number(R) /\ t = Turn(R) /\ t = Features(n) /\ HasRead(R)
  BY DEF Completes, Returns, HasRead
<1>3. Goes(R) /\ ColumnsStay /\ calls' = calls
  BY ReturnsBy, CompletesColumns, TwoParties DEF Completes
<1>4. /\ WellShaped(R, n)' /\ Width(n)' = Width(n) /\ Features(n)' = Features(n)
      /\ BinsOf(n)' = BinsOf(n) /\ n \in DOMAIN calls[S] /\ n \in DOMAIN calls[R]
      /\ \A c \in (2 + Features(n))..Width(n) : \E k \in 1..Len(calls[R][n].features) :
            /\ c = 1 + Features(n) + k
            /\ results'[R][n].columns[c] = ReceiverFeatures(R)[k]
  BY ReturnsShaped, TwoParties
<1>5. Clean(n)' <=> Clean(n)
  BY <1>3, <1>4, CallsLastly, TwoParties
<1>6. \A bin, b : JoinRow(n, bin, b)' = JoinRow(n, bin, b)
  BY <1>3, <1>4, CallsLastly, TwoParties
<1>7. Features(n) \in Nat
  BY <1>2, InTurn, TwoParties DEF TakesTurns
<1>8. ASSUME NEW c \in 0..Features(n), NEW b \in 1..BinsOf(n)
      PROVE  Added(n, c, b)' = Held(n, c, b)
  <2>1. Heard(R, n, c)
    BY <1>2, <1>7 DEF Heard, Past
  <2>2. Added(n, c, b) = Held(n, c, b)
    BY <1>1, <1>2, <2>1 DEF Fits
  <2>3. Added(n, c, b)' = Added(n, c, b)
    BY <1>1, <1>3, <1>4, <2>1, AddedStays, TwoParties
  <2> QED
    BY <2>2, <2>3
<1>9. PICK bin : bin = BinOfKey
  OBVIOUS
<1>10. bin \in Injection(DOMAIN calls'[R][n].keys, 1..BinsOf(n)')
  BY <1>2, <1>3, <1>4, <1>9, BinsOfKeys
<1>11. ASSUME Clean(n)', NEW b \in 1..BinsOf(n)
       PROVE  /\ \A c \in 0..Features(n) : Added(n, c, b)' = JoinRow(n, bin, b)'[c + 1]
              /\ \A c \in (2 + Features(n))..Width(n) :
                    results'[R][n].columns[c][b] = JoinRow(n, bin, b)'[c]
  <2>1. PICK row : row = JoinRow(n, bin, b) /\ row = JoinRow(n, bin, b)'
    BY <1>6
  <2>2. /\ \A c \in 0..Features(n) : Held(n, c, b) = row[c + 1]
        /\ \A c \in 1..Len(calls[R][n].features) :
              ReceiverFeatures(R)[c][b] = row[1 + Features(n) + c]
    <3>1. Clean(n)
      BY <1>5, <1>11
    <3>2. row = JoinRow(n, BinOfKey, b)
      BY <1>9, <2>1
    <3> QED
      BY <1>1, <1>2, <3>1, <3>2, HeldIsJoin
  <2>3. \A c \in 0..Features(n) : Added(n, c, b)' = row[c + 1]
    BY <1>8, <2>2
  <2>4. \A c \in (2 + Features(n))..Width(n) : results'[R][n].columns[c][b] = row[c]
    BY <1>4, <2>2
  <2> QED
    BY <2>1, <2>3, <2>4
<1>12. Clean(n)' =>
         \E f \in Injection(DOMAIN calls'[R][n].keys, 1..BinsOf(n)') :
            \A b \in 1..BinsOf(n)' :
               /\ \A c \in 0..Features(n)' : Added(n, c, b)' = JoinRow(n, f, b)'[c + 1]
               /\ \A c \in (2 + Features(n)')..Width(n)' :
                     results'[R][n].columns[c][b] = JoinRow(n, f, b)'[c]
  BY <1>4, <1>10, <1>11
<1> QED
  BY <1>4, <1>12 DEF Joined

\* A column is complete: on to the next feature, or to the result.
LEMMA ColumnShares ==
    ASSUME CircuitInv, CircuitInv', SharesInv, NEW p \in Party, EqualDone(p) \/ MultiplexerDone(p)
    PROVE  SharesInv'
<1>1. PICK n, t, columns :
          /\ Completes(p, n, t, columns)
          /\ Continues(p, n, t, columns) \/ Returns(p, n, t, columns)
  BY ColumnAdded DEF SharesInv
<1>2. Smooth(p) /\ Uses(p)
  BY <1>1, CompletesSmoothly DEF SharesInv
<1>3. Fits' /\ HintsHeld' /\ AllOpened' /\ ContentSent' /\ Shaped'
  BY <1>1, CompletesParts
<1>4. Others(p)
  BY <1>2 DEF Smooth, Goes
<1>5. ASSUME NEW r \in Party, NEW m \in DOMAIN results'[r], m \notin DOMAIN results[r]
      PROVE  r = p /\ m = n /\ Returns(p, n, t, columns)
  <2>1. r = p
    BY <1>4, <1>5, TwoParties DEF Others
  <2>2. Returns(p, n, t, columns)
    BY <1>1, <1>5, <2>1 DEF Continues
  <2>3. /\ DOMAIN results'[p] = 1..n /\ n \in Nat \ {0} /\ DOMAIN results[p] = 1..(n - 1)
    BY <1>1, <2>2, ReturnsBy
  <2>4. m = n
    BY <1>5, <2>1, <2>3
  <2> QED
    BY <2>1, <2>2, <2>4
<1>6. \A m \in DOMAIN results'[R] : m \in DOMAIN results[R] \/ Joined(m)'
  <2>1. ASSUME NEW m \in DOMAIN results'[R], m \notin DOMAIN results[R]
        PROVE  Joined(m)'
    <3>1. R = p /\ m = n /\ Returns(p, n, t, columns)
      BY <1>5, <2>1, TwoParties
    <3> QED
      BY <1>1, <3>1, ReceiverReturns
  <2> QED
    BY <2>1
<1>7. \A m \in DOMAIN results'[S] : m \in DOMAIN results[S] \/ SenderDone(m)'
  <2>1. ASSUME NEW m \in DOMAIN results'[S], m \notin DOMAIN results[S]
        PROVE  SenderDone(m)'
    <3>1. S = p /\ m = n /\ Returns(p, n, t, columns)
      BY <1>5, <2>1, TwoParties
    <3> QED
      BY <1>1, <3>1, SenderReturns
  <2> QED
    BY <2>1
<1> QED
  BY <1>2, <1>3, <1>6, <1>7, SmoothKeeps

-----------------------------------------------------------------------------
(* The invariant.                                                          *)

LEMMA InitShares == ASSUME Init PROVE SharesInv
<1>1. /\ \A p \in Party : /\ calls[p] = <<>> /\ results[p] = <<>> /\ stage[p] = "epsilon"
                          /\ output_shares[p] = <<>> /\ chan[p] = <<>>
  BY CheckedIs DEF Init
<1>2. "epsilon" \notin Opened /\ "epsilon" \notin Compared /\ "epsilon" # "multiplexer"
  BY DEF Opened, Compared
<1>3. /\ DOMAIN calls[S] = {} /\ DOMAIN results[S] = {} /\ DOMAIN results[R] = {}
      /\ \A p \in Party : DOMAIN output_shares[p] = {} /\ DOMAIN chan[p] = {}
  BY <1>1, TwoParties
<1>4. Turns
  BY <1>3, TwoParties DEF Turns, Answered, LastInCall
<1>5. ContentSent /\ HintsHeld /\ AllOpened /\ Fits
  BY <1>1, <1>2, TwoParties DEF ContentSent, HintsHeld, AllOpened, Fits
<1>6. Shaped
  BY <1>3 DEF Shaped
<1> QED
  BY <1>3, <1>4, <1>5, <1>6 DEF SharesInv

LEMMA SlightKeeps ==
    ASSUME CircuitInv, CircuitInv', SharesInv, NEW p \in Party, Slight(p)
    PROVE  SharesInv'
BY QuietKeeps DEF Slight

LEMMA ValueShares ==
    ASSUME CircuitInv, CircuitInv', SharesInv, NEW p \in Party, SendValue(p) \/ RecvValue(p)
    PROVE  SharesInv'
<1>1. CASE stage[p] \notin Compared
  BY <1>1, HalfSlight, SlightKeeps
<1>2. CASE stage[p] \in Compared
  <2>1. CASE p = S
    BY <1>2, <2>1, SenderSpeaks, SenderHears
  <2>2. CASE p = R
    BY <1>2, <2>2, ReceiverSpeaks, ReceiverHears
  <2> QED
    BY <2>1, <2>2, TwoParties
<1> QED
  BY <1>1, <1>2

LEMMA StutterShares ==
    ASSUME CircuitInv, CircuitInv', SharesInv, UNCHANGED vars
    PROVE  SharesInv'
<1>1. UNCHANGED <<params, calls, results, stage, fid, io, sent, remote, peer_size, common_prng,
                  cuckoo_table, hint_table, stash_size, contents, opened, hint_features,
                  output_shares, chan>>
  BY DEF vars, values, locals, tables
<1>2. Turns /\ ContentSent /\ HintsHeld /\ AllOpened /\ Shaped /\ Fits /\ Answered(R)
  BY TwoParties DEF SharesInv, Turns
<1>3. Goes(R)
  BY <1>1 DEF Goes, Others
<1>4. ASSUME NEW q \in Party, NEW n, NEW c
      PROVE  /\ Heard(q, n, c)' <=> Heard(q, n, c)
             /\ Spoken(q, n, c)' <=> Spoken(q, n, c)
             /\ Column(q, n, c)' = Column(q, n, c)
  <2>1. Number(q)' = Number(q) /\ Turn(q)' = Turn(q) /\ (HasRead(q)' <=> HasRead(q))
        /\ (HasWritten(q)' <=> HasWritten(q)) /\ (Returned(q, n)' <=> Returned(q, n))
    BY <1>1 DEF Number, Turn, HasRead, HasWritten, Starts, Returned, Threw, Ideal!Thrown
  <2>2. Past(q, n, c)' <=> Past(q, n, c)
    BY <1>1, <2>1 DEF Past
  <2>3. Column(q, n, c)' = Column(q, n, c)
    BY <1>1, SameColumn
  <2> QED
    BY <1>1, <2>1, <2>2, <2>3 DEF Heard, Spoken
<1>5. TurnsStay /\ ColumnsStay
  BY <1>4, TwoParties DEF TurnsStay, ColumnsStay
<1>6. Smooth(R) /\ Uses(R)
  BY <1>1, <1>3, <1>5, TwoParties DEF Smooth, Uses
<1>7. Fits'
  <2>1. CASE stage[R] \notin Compared
    BY <1>1, <2>1 DEF Fits
  <2>2. CASE stage[R] \in Compared
    <3>1. PICK n : n = Number(R)
      OBVIOUS
    <3> QED
      BY <1>1, <1>2, <1>3, <1>4, <1>5, <2>2, <3>1, FitsHold, TwoParties
  <2> QED
    BY <2>1, <2>2
<1>8. HintsHeld' /\ AllOpened' /\ ContentSent'
  BY <1>1, <1>2, <1>3, HintsHeldHolds, AllOpenedHolds, ContentStays, TwoParties
<1>9. Shaped'
  <2>1. PICK n : n = Number(R)
    OBVIOUS
  <2>2. n = Number(R)' /\ BinsOf(n)' = BinsOf(n)
    BY <1>1, <2>1 DEF Number, BinsOf
  <2>3. \A k \in DOMAIN output_shares'[R] : DOMAIN output_shares'[R][k] = 1..BinsOf(n)
    BY <1>1, <1>2, <2>1, TwoParties DEF Shaped
  <2> QED
    BY <1>2, <1>3, <2>2, <2>3, ShapedHolds, TwoParties
<1> QED
  BY <1>1, <1>6, <1>7, <1>8, <1>9, SmoothKeeps, TwoParties

\* The shares of every call that has returned or is under way fit.
LEMMA NextShares ==
    ASSUME CircuitInv, SharesInv, Next
    PROVE  SharesInv'
<1>1. CircuitInv'
  BY NextHolds
<1>2. ASSUME NEW p \in Party, Process(p)
      PROVE  SharesInv'
  BY <1>1, <1>2, ProcessSlight, SlightKeeps
<1>3. ASSUME NEW p \in Party, Step(p)
      PROVE  SharesInv'
  <2>1. CASE SendValue(p) \/ RecvValue(p)
    BY <1>1, <2>1, ValueShares
  <2>2. CASE CheckParam(p) \/ CreateCommonPrng(p) \/ FinishInit(p)
    BY <1>1, <2>2, SetupSlight, SlightKeeps
  <2>3. CASE SendSize(p) \/ RecvSize(p)
    BY <1>1, <2>3, SizesSlight, SlightKeeps
  <2>4. CASE p = S /\ SenderStep
    <3>1. CASE SimpleHash \/ HintHash
      BY <1>1, <2>4, <3>1, HashSlight, SlightKeeps
    <3>2. CASE RecvStashSize \/ SendHintStashSize
      BY <1>1, <2>4, <3>2, StashSlight, SlightKeeps
    <3>3. CASE OtSend \/ SendHint
      BY <1>1, <2>4, <3>3, TransferSlight, SlightKeeps
    <3>4. CASE SendFeatureHint
      BY <1>1, <3>4, SendFeatureHintShares
    <3> QED
      BY <2>4, <3>1, <3>2, <3>3, <3>4 DEF SenderStep
  <2>5. CASE p = R /\ ReceiverStep
    <3>1. CASE CuckooHash
      BY <1>1, <2>5, <3>1, HashSlight, SlightKeeps
    <3>2. CASE SendStashSize \/ RecvHintStashSize
      BY <1>1, <2>5, <3>2, StashSlight, SlightKeeps
    <3>3. CASE OtReceive
      BY <1>1, <2>5, <3>3, TransferSlight, SlightKeeps
    <3>4. CASE RecvHint \/ RecvFeatureHint
      BY <1>1, <3>4, RecvHintShares, RecvFeatureHintShares
    <3> QED
      BY <2>5, <3>1, <3>2, <3>3, <3>4 DEF ReceiverStep
  <2>6. CASE EqualDone(p) \/ MultiplexerDone(p)
    BY <1>1, <2>6, ColumnShares
  <2> QED
    BY <1>3, <2>1, <2>2, <2>3, <2>4, <2>5, <2>6 DEF Step, S, R
<1> QED
  BY <1>2, <1>3 DEF Next

\* In every comparison the two parties wait for each other, and their columns add
\* up to what the receiver has opened.
THEOREM SharesInvariant == Spec => []SharesInv
<1>1. Init => SharesInv
  BY InitShares
<1>2. CircuitInv /\ SharesInv /\ [Next]_vars => SharesInv'
  BY NextHolds, NextShares, StutterShares
<1> QED
  BY <1>1, <1>2, CircuitInvariant, PTL DEF Spec

\* As long as no second table has failed, calls that return give shares of the
\* join.
THEOREM SharesAreCorrect == Spec => []SharesCorrect
BY SharesInvariant, CircuitInvariant, SharesFollow, PTL

-----------------------------------------------------------------------------
(* The protocol implements JoinIdeal, if no second table fails.            *)

\* The sender's second table has taken all items, now and in the calls so far.
HintsTaken ==
    stash_size[S] = 0 /\ \A n \in DOMAIN results[S] : results[S][n] # HintStashed

\* The refinement mapping of Ideal.
AgreedBar == params["sender"] = params["receiver"]
StatusBar == [p \in Party |->
                 CASE stage[p] \in Range(Checked) \cup {"seed", "base_ot", "mpc"} -> "init"
                   [] stage[p] = "threw" -> "threw"
                   [] OTHER -> "open"]

LEMMA IdealVars ==
    Ideal!vars = <<AgreedBar, StatusBar, calls, results>>
BY DEF Ideal!vars, AgreedBar, StatusBar

LEMMA IdealInit == Init => Ideal!Init
<1> SUFFICES ASSUME Init PROVE Ideal!Init
  OBVIOUS
<1>1. AgreedBar \in BOOLEAN
  BY DEF AgreedBar
<1>2. StatusBar = [p \in Party |-> "init"]
  BY CheckedIs DEF StatusBar, Init
<1>3. calls = [p \in Party |-> <<>>] /\ results = [p \in Party |-> <<>>]
  BY DEF Init
<1> QED
  BY <1>1, <1>2, <1>3, Zenon DEF Ideal!Init, Ideal!Party, Party, AgreedBar, StatusBar

\* Stages the caller cannot tell apart.
Alike(s, t) ==
    \/ s \in InInit /\ t \in InInit
    \/ s \in InCall \cup {"idle"} /\ t \in InCall \cup {"idle"}

LEMMA StatusStays ==
    ASSUME NEW p \in Party, Alike(stage[p], stage'[p]),
           \A q \in Party \ {p} : stage'[q] = stage[q]
    PROVE  StatusBar' = StatusBar
<1>1. \A q \in Party : Alike(stage[q], stage'[q]) \/ stage'[q] = stage[q]
  OBVIOUS
<1>2. InInit = Range(Checked) \cup {"seed", "base_ot", "mpc"}
  BY DEF InInit
<1>3. \A s \in InCall \cup {"idle"} : s \notin InInit /\ s # "threw"
  <2>1. "idle" \notin InInit /\ "threw" \notin InCall
    BY StagesAre, InitStages DEF Rest
  <2> QED
    BY <2>1, StagesAre
<1>4. \A s \in InInit : s # "threw"
  BY InitStages
<1> QED
  BY <1>1, <1>2, <1>3, <1>4 DEF StatusBar, Alike

\* A step within init or a call.
LEMMA Stutters ==
    ASSUME UNCHANGED <<params, calls, results>>, StatusBar' = StatusBar
    PROVE  UNCHANGED Ideal!vars
BY IdealVars DEF AgreedBar, StatusBar, Ideal!vars

LEMMA GoesOn ==
    ASSUME CircuitInv, NEW p \in Party, NEW s \in Stages, NEW f \in Nat \ {0}, EnterAt(p, s, f),
           Alike(stage[p], s), UNCHANGED <<params, calls, results>>
    PROVE  UNCHANGED Ideal!vars
<1>1. stage'[p] = s /\ \A q \in Party \ {p} : stage'[q] = stage[q]
  BY Entered
<1> QED
  BY <1>1, StatusStays, Stutters

\* The parameters are those that check_params compares.
LEMMA SameParams ==
    ASSUME CircuitInv,
           \A k \in DOMAIN Checked : params[S][Checked[k]] = params[R][Checked[k]]
    PROVE  AgreedBar
<1>1. /\ params[S] \in [Range(Checked) -> Nat \ {0}]
      /\ params[R] \in [Range(Checked) -> Nat \ {0}]
  BY CircuitParamsAssumption, TwoParties DEF CircuitInv, TypeOK
<1>2. \A name \in Range(Checked) : params[S][name] = params[R][name]
  BY CheckedIs
<1>3. params[S] = params[R]
  BY <1>1, <1>2
<1> QED
  BY <1>3 DEF AgreedBar, S, R

\* init opens the session or throws, as the two configurations say.
LEMMA OpenStep ==
    ASSUME CircuitInv, NEW p \in Party,
           CheckParam(p) \/ CreateCommonPrng(p) \/ FinishInit(p)
    PROVE  Ideal!Open(p) \/ UNCHANGED Ideal!vars
<1>1. UNCHANGED <<params, calls, results>>
  BY DEF CheckParam, CreateCommonPrng, FinishInit
<1>2. stage \in [Party -> Stages] /\ stage[p] \in Stages
  BY DEF CircuitInv, TypeOK, Stages
<1>3. ASSUME NEW s, EnterAt(p, s, 1)
      PROVE  stage' = [stage EXCEPT ![p] = s]
  BY <1>3 DEF EnterAt
<1>4. AgreedBar' = AgreedBar
  BY <1>1 DEF AgreedBar
<1>5. CASE \E s \in InInit : EnterAt(p, s, 1) /\ stage[p] \in InInit
  <2>1. PICK s \in InInit : EnterAt(p, s, 1) /\ stage[p] \in InInit
    BY <1>5
  <2>2. Alike(stage[p], s) /\ s \in Stages /\ 1 \in Nat \ {0}
    BY <2>1, StagesAre, InitStages DEF Alike
  <2> QED
    BY <1>1, <2>1, <2>2, GoesOn
<1>6. CASE \E k \in DOMAIN Checked : /\ At(p, Checked[k], "done") /\ Enter(p, "threw")
                                     /\ params[p][Checked[k]] # remote[p]
  <2>1. PICK k \in DOMAIN Checked : /\ stage[p] = Checked[k] /\ io[p] = "done"
                                    /\ EnterAt(p, "threw", 1)
                                    /\ params[p][Checked[k]] # remote[p]
    BY <1>6 DEF At, Enter
  <2>2. remote[p] = params[Peer(p)][Checked[k]]
    <3>1. HasRead(p) /\ Knows(p)
      BY <2>1 DEF HasRead, CircuitInv
    <3> QED
      BY <2>1, <3>1 DEF Knows
  <2>3. ~AgreedBar
    BY <2>1, <2>2, TwoParties DEF AgreedBar, S, R
  <2>4. StatusBar' = [StatusBar EXCEPT ![p] = "threw"] /\ StatusBar[p] = "init"
    <3>1. stage[p] \in Range(Checked) /\ "threw" \notin InInit
      BY <2>1, CheckedIs, InitStages
    <3> QED
      BY ZenonT(60), <1>2, <1>3, <2>1, <3>1 DEF StatusBar, InInit
  <2> QED
    BY <1>1, <1>4, <2>3, <2>4 DEF Ideal!Open, AgreedBar, StatusBar
<1>7. CASE FinishInit(p) /\ stage[p] = "mpc"
  <2>1. stage[p] = "mpc" /\ EnterAt(p, "idle", 1)
    BY <1>7 DEF FinishInit, At, Enter
  <2>2. AgreedBar
    <3>1. \A k \in DOMAIN Checked : stage[p] \notin {Checked[j] : j \in 1..k} \cup {"threw"}
      BY <2>1, CheckedIs
    <3>2. \A k \in DOMAIN Checked : params[p][Checked[k]] = params[Peer(p)][Checked[k]]
      BY <3>1 DEF CircuitInv, Knows
    <3> QED
      BY <3>2, SameParams, TwoParties
  <2>3. StatusBar' = [StatusBar EXCEPT ![p] = "open"] /\ StatusBar[p] = "init"
    <3>1. "mpc" \in InInit /\ "idle" \notin InInit
      BY InitStages
    <3>2. stage' = [stage EXCEPT ![p] = "idle"]
      BY <1>3, <2>1
    <3>3. StatusBar[p] = "init"
      BY <2>1, <3>1 DEF StatusBar, InInit
    <3>4. StatusBar'[p] = "open"
      <4>1. stage'[p] = "idle"
        BY <1>2, <3>2
      <4> QED
        BY <3>1, <4>1 DEF StatusBar, InInit
    <3>5. \A q \in Party \ {p} : StatusBar'[q] = StatusBar[q]
      BY <1>2, <3>2 DEF StatusBar
    <3>6. StatusBar' = [q \in Party |-> StatusBar'[q]] /\ DOMAIN StatusBar = Party
      BY DEF StatusBar
    <3> QED
      BY <3>3, <3>4, <3>5, <3>6
  <2> QED
    BY <1>1, <1>4, <2>2, <2>3 DEF Ideal!Open, AgreedBar, StatusBar
<1>8. ASSUME CheckParam(p) PROVE Ideal!Open(p) \/ UNCHANGED Ideal!vars
  <2>1. PICK k \in DOMAIN Checked :
           /\ At(p, Checked[k], "done")
           /\ Enter(p, IF params[p][Checked[k]] # remote[p] THEN "threw"
                       ELSE IF k < Len(Checked) THEN Checked[k + 1] ELSE "seed")
    BY <1>8 DEF CheckParam
  <2>2. CASE params[p][Checked[k]] # remote[p]
    BY <1>6, <2>1, <2>2
  <2>3. CASE params[p][Checked[k]] = remote[p]
    <3>1. k \in {1, 2, 3, 4}
      BY CheckedIs
    <3>2. (IF k < Len(Checked) THEN Checked[k + 1] ELSE "seed") \in InInit
          /\ Checked[k] \in InInit
      BY <3>1, CheckedIs, InitStages
    <3> QED
      BY <1>5, <2>1, <2>3, <3>2 DEF At, Enter
  <2> QED
    BY <2>2, <2>3
<1>9. ASSUME CreateCommonPrng(p) PROVE Ideal!Open(p) \/ UNCHANGED Ideal!vars
  BY <1>5, <1>9, InitStages DEF CreateCommonPrng, At, Enter
<1>10. ASSUME FinishInit(p), stage[p] # "mpc" PROVE Ideal!Open(p) \/ UNCHANGED Ideal!vars
  BY <1>5, <1>10, InitStages DEF FinishInit, At, Enter
<1> QED
  BY <1>7, <1>8, <1>9, <1>10

\* A call of the caller's.
LEMMA InvokeStep ==
    ASSUME CircuitInv, NEW p \in Party, Process(p)
    PROVE  Ideal!Invoke(p)
<1>1. PICK call \in Calls[p] : calls' = [calls EXCEPT ![p] = Append(@, call)]
  BY DEF Process
<1>2. /\ stage[p] = "idle" /\ Len(calls[p]) < MaxCalls /\ EnterAt(p, "receiver_data", 1)
      /\ UNCHANGED <<params, results>>
  BY DEF Process, Enter, Number
<1>3. /\ "receiver_data" \in Stages /\ "receiver_data" \in InCall /\ "idle" \notin InCall
      /\ "idle" \notin InInit /\ 1 \in Nat \ {0}
  BY StagesAre, InitStages DEF Rest, Sizes, InCall
<1>4. stage'[p] = "receiver_data" /\ \A q \in Party \ {p} : stage'[q] = stage[q]
  BY <1>2, <1>3, Entered
<1>5. StatusBar' = StatusBar
  BY <1>2, <1>3, <1>4, StatusStays DEF Alike
<1>6. StatusBar[p] = "open"
  BY <1>2, <1>3 DEF StatusBar, InInit
<1>7. Len(calls[p]) = Len(results[p])
  BY <1>2, <1>3, CallNumber DEF Number
<1>8. AgreedBar' = AgreedBar
  BY <1>2 DEF AgreedBar
<1> QED
  BY <1>1, <1>2, <1>5, <1>6, <1>7, <1>8 DEF Ideal!Invoke, AgreedBar, StatusBar

\* The n-th call of p ends with result: what the two parties then have agrees.
LEMMA EndFacts ==
    ASSUME CircuitInv, CircuitInv', NEW p \in Party, stage[p] \in InCall,
           NEW result, End(p, result), UNCHANGED <<params, calls>>
    PROVE  \E n : /\ n = Len(results[p]) + 1 /\ n \in 1..MaxCalls
                  /\ n \in DOMAIN calls[p] /\ n \in DOMAIN calls[Peer(p)]
                  /\ results' = [results EXCEPT ![p] = Append(@, result)]
                  /\ results'[p][n] = result /\ DOMAIN results'[p] = 1..n
                  /\ results'[Peer(p)] = results[Peer(p)]
                  /\ n \in DOMAIN results'[p]
                  /\ UNCHANGED <<AgreedBar, StatusBar, calls>>
<1>1. PICK n : n = Number(p)
  OBVIOUS
<1>2. /\ n = Len(results[p]) + 1 /\ n \in 1..MaxCalls /\ n \in DOMAIN calls[p]
  <2>1. n \in Nat /\ n <= MaxCalls /\ n = Len(results[p]) + 1 /\ n \in DOMAIN calls[p]
        /\ DOMAIN calls[p] = 1..n
    BY <1>1, CallNumber
  <2> QED
    BY <2>1, CircuitBoundsAssumption
<1>3. /\ EnterAt(p, "idle", 1) /\ results' = [results EXCEPT ![p] = Append(@, result)]
  BY DEF End, Enter
<1>4. results'[p] = Append(results[p], result) /\ results'[Peer(p)] = results[Peer(p)]
  BY EndedLocals, TwoParties
<1>5. DOMAIN results'[p] = 1..n /\ results'[p][n] = result
  BY <1>1, <1>4, ResultAdded
<1>6. n \in DOMAIN results'[p]
  BY <1>2, <1>5
<1>7. n \in DOMAIN calls[Peer(p)]
  BY <1>6 DEF CircuitInv, Ended
<1>8. StatusBar' = StatusBar
  <2>1. "idle" \in Stages /\ 1 \in Nat \ {0}
    BY StagesAre DEF Rest
  <2>2. stage'[p] = "idle" /\ \A q \in Party \ {p} : stage'[q] = stage[q]
    BY <1>3, <2>1, Entered
  <2> QED
    BY <2>2, StatusStays DEF Alike
<1>9. AgreedBar' = AgreedBar
  BY DEF AgreedBar
<1> QED
  BY <1>2, <1>3, <1>4, <1>5, <1>6, <1>7, <1>8, <1>9

LEMMA ThrowsFollow == CircuitInv => ThrowAgreement
BY ThrowsAlike

LEMMA IdealPeer == \A p \in Party : Ideal!Peer(p) = Peer(p)
BY DEF Ideal!Peer, Peer

\* A call throws.
LEMMA GiveUpStep ==
    ASSUME CircuitInv, CircuitInv', NEW p \in Party, stage[p] \in InCall,
           NEW result \in {Stashed, HintStashed}, End(p, result), UNCHANGED <<params, calls>>
    PROVE  Ideal!GiveUp(p)
<1>1. PICK n : /\ n = Len(results[p]) + 1 /\ n \in 1..MaxCalls
               /\ n \in DOMAIN calls[p] /\ n \in DOMAIN calls[Peer(p)]
               /\ results' = [results EXCEPT ![p] = Append(@, result)]
               /\ results'[p][n] = result /\ DOMAIN results'[p] = 1..n
               /\ results'[Peer(p)] = results[Peer(p)]
               /\ n \in DOMAIN results'[p]
               /\ UNCHANGED <<AgreedBar, StatusBar, calls>>
  BY EndFacts
<1>2. n \in DOMAIN results[Peer(p)] => results[Peer(p)][n] = result
  <2>1. ASSUME n \in DOMAIN results[Peer(p)]
        PROVE  results'[S][n] = results'[R][n]
    <3>1. n \in DOMAIN results'[S] \cap DOMAIN results'[R]
      BY <1>1, <2>1, TwoParties
    <3>2. ThrowAgreement'
      <4>1. (CircuitInv => ThrowAgreement)'
        BY ThrowsFollow, PTL
      <4> QED
        BY <4>1
    <3>3. results'[S][n] = results'[R][n] \/ Finished(n)'
      BY <3>1, <3>2 DEF ThrowAgreement, S, R
    <3>4. ~Finished(n)'
      BY <1>1, ThrewIs DEF Finished
    <3> QED
      BY <3>3, <3>4
  <2> QED
    BY <1>1, <2>1, TwoParties
<1>3. result \in Ideal!Thrown
  BY ThrewIs DEF Threw
<1> QED
  BY <1>1, <1>2, <1>3, IdealPeer DEF Ideal!GiveUp, AgreedBar, StatusBar

LEMMA CombineSwaps ==
    ASSUME NEW a \in Seq(Seq(Word)), NEW b \in Seq(Seq(Word)), Ideal!SameShape(a, b)
    PROVE  Ideal!SameShape(b, a) /\ Ideal!Combine(a, b) = Ideal!Combine(b, a)
<1>1. DOMAIN a = DOMAIN b /\ \A c \in DOMAIN a : DOMAIN a[c] = DOMAIN b[c]
  BY DEF Ideal!SameShape
<1>2. ASSUME NEW s \in Seq(Seq(Word)), NEW c \in DOMAIN s, NEW i \in DOMAIN s[c]
      PROVE  s[c][i] \in Int
  <2>1. s[c] \in Seq(Word)
    BY <1>2, ElementOfSeq, LenProperties
  <2>2. s[c][i] \in Word
    BY <1>2, <2>1, ElementOfSeq, LenProperties
  <2> QED
    BY <2>2, WordType
<1>3. \A c \in DOMAIN a : \A i \in DOMAIN a[c] : a[c][i] + b[c][i] = b[c][i] + a[c][i]
  <2> SUFFICES ASSUME NEW c \in DOMAIN a, NEW i \in DOMAIN a[c]
               PROVE  a[c][i] + b[c][i] = b[c][i] + a[c][i]
    OBVIOUS
  <2>1. a[c][i] \in Int /\ b[c][i] \in Int
    BY <1>1, <1>2
  <2> QED
    BY <2>1
<1>4. Ideal!Combine(a, b) = Ideal!Combine(b, a)
  BY <1>1, <1>3, Zenon DEF Ideal!Combine
<1>5. Ideal!SameShape(b, a)
  BY <1>1 DEF Ideal!SameShape
<1> QED
  BY <1>4, <1>5

\* A call returns.
LEMMA ReturnStep ==
    ASSUME CircuitInv, CircuitInv', SharesInv', HintsTaken, NEW p \in Party,
           stage[p] \in InCall, NEW columns, NEW result, result = [columns |-> columns],
           End(p, result), UNCHANGED <<params, calls>>
    PROVE  Ideal!Return(p)
<1>1. PICK n : /\ n = Len(results[p]) + 1 /\ n \in 1..MaxCalls
               /\ n \in DOMAIN calls[p] /\ n \in DOMAIN calls[Peer(p)]
               /\ results' = [results EXCEPT ![p] = Append(@, result)]
               /\ results'[p][n] = result /\ DOMAIN results'[p] = 1..n
               /\ results'[Peer(p)] = results[Peer(p)]
               /\ n \in DOMAIN results'[p]
               /\ UNCHANGED <<AgreedBar, StatusBar, calls>>
  BY EndFacts
<1> DEFINE mine == results'[p][n]
           theirs == results[Peer(p)][n]
<1>2. mine \notin Ideal!Thrown
  BY <1>1, ThrewIs DEF Threw
<1>3. ASSUME n \in DOMAIN results[Peer(p)]
      PROVE  /\ theirs \notin Ideal!Thrown
             /\ Ideal!SameShape(mine.columns, theirs.columns)
             /\ Ideal!IsJoin(Ideal!Combine(mine.columns, theirs.columns),
                             calls["sender"][n], calls["receiver"][n])
  <2>1. Finished(n)'
    <3>1. n \in DOMAIN results'[S] \cap DOMAIN results'[R]
      BY <1>1, <1>3, TwoParties
    <3>2. ThrowAgreement'
      <4>1. (CircuitInv => ThrowAgreement)'
        BY ThrowsFollow, PTL
      <4> QED
        BY <4>1
    <3>3. results'[S][n] = results'[R][n] \/ Finished(n)'
      BY <3>1, <3>2 DEF ThrowAgreement, S, R
    <3>4. ~Threw(mine)
      BY <1>2 DEF Threw
    <3>5. \A r \in Party : n \in DOMAIN results'[r]
      BY <3>1, TwoParties
    <3>6. results'[S][n] = results'[R][n] => \A r \in Party : results'[r][n] = mine
      BY TwoParties
    <3> QED
      BY <3>3, <3>4, <3>5, <3>6 DEF Finished
  <2>2. (Failures(S, "hint_stash", n - 1) = 0)'
    <3>1. {k \in 1..(n - 1) : results'[S][k] = [threw |-> "hint_stash"]} = {}
      <4>1. \A k \in 1..(n - 1) : results'[S][k] # HintStashed
        <5>1. \A k \in 1..(n - 1) : k \in DOMAIN results[S] /\ results'[S][k] = results[S][k]
          <6>1. CASE p = S
            <7>1. results'[S] = Append(results[S], result)
              BY <6>1, EndedLocals
            <7>2. DOMAIN results[S] = 1..(Number(S) - 1) /\ DOMAIN results'[S] = 1..Number(S)
                  /\ Number(S) \in Nat \ {0}
                  /\ \A k \in DOMAIN results[S] : results'[S][k] = results[S][k]
              BY <6>1, <7>1, ResultAdded
            <7>3. n = Number(S)
              BY <1>1, <6>1, CallNumber
            <7> QED
              BY <7>2, <7>3
          <6>2. CASE p = R
            <7>1. results'[S] = results[S] /\ DOMAIN results[S] = 1..Len(results[S])
                  /\ Len(results[S]) \in Nat /\ n \in DOMAIN results[S]
              BY <1>1, <1>3, <6>2, CallNumber, TwoParties
            <7> QED
              BY <7>1
          <6> QED
            BY <6>1, <6>2, TwoParties
        <5> QED
          BY <5>1 DEF HintsTaken
      <4> QED
        BY <4>1 DEF HintStashed
    <3> QED
      BY <3>1, FS_EmptySet DEF Failures
  <2>3. SharesOfJoin(n)'
    <3>1. SharesCorrect'
      <4>1. (CircuitInv /\ SharesInv => SharesCorrect)'
        BY SharesFollow, PTL
      <4> QED
        BY <4>1
    <3>2. (Failures("sender", "hint_stash", n - 1) = 0)'
      BY <2>2 DEF S
    <3> QED
      BY <1>1, <2>1, <3>1, <3>2, Zenon DEF SharesCorrect
  <2>4. /\ Ideal!SameShape(results'[S][n].columns, results'[R][n].columns)
        /\ Ideal!IsJoin(Ideal!Combine(results'[S][n].columns, results'[R][n].columns),
                        calls["sender"][n], calls["receiver"][n])
    <3>1. calls' = calls
      BY <1>1
    <3>2. /\ Ideal!SameShape(results'["sender"][n].columns, results'["receiver"][n].columns)
          /\ Ideal!IsJoin(Ideal!Combine(results'["sender"][n].columns,
                                       results'["receiver"][n].columns),
                          calls'["sender"][n], calls'["receiver"][n])
      BY <2>3, Zenon DEF SharesOfJoin
    <3> QED
      BY <3>1, <3>2, Zenon DEF S, R
  <2>5. theirs \notin Ideal!Thrown /\ theirs = results'[Peer(p)][n]
    BY <1>1, <2>1, TwoParties DEF Finished, Threw
  <2>6. CASE p = S
    BY <2>4, <2>5, <2>6, TwoParties
  <2>7. CASE p = R
    <3>1. /\ results'[S][n].columns \in Seq(Seq(Word))
          /\ results'[R][n].columns \in Seq(Seq(Word))
      BY <2>1, TwoParties DEF Finished, CircuitInv, TypeOK
    <3>2. mine = results'[R][n] /\ theirs = results'[S][n]
      BY <2>5, <2>7, TwoParties
    <3> QED
      BY <2>4, <2>5, <3>1, <3>2, CombineSwaps
  <2> QED
    BY <2>6, <2>7, TwoParties
<1>4. Ideal!Peer(p) = Peer(p)
  BY IdealPeer
<1>5. results' = [results EXCEPT ![p] = Append(@, mine)]
  BY <1>1
<1> QED
  BY <1>1, <1>2, <1>3, <1>4, <1>5, Zenon DEF Ideal!Return, AgreedBar, StatusBar

LEMMA InCallStages ==
    /\ \A s \in InCall : s \in Stages
    /\ \A s, t \in InCall : Alike(s, t)
    /\ \A s \in InInit : Alike(s, s)
    /\ \A s \in TwoWay : Alike(s, s)
<1>1. \A s \in TwoWay : s \in InInit \cup InCall
  BY TwoWayStages
<1> QED
  BY <1>1, StagesAre DEF Alike

\* How a call can end: the outcomes of JoinIdeal, or a step within the call.
Ends(p) ==
    /\ stage[p] \in InCall /\ UNCHANGED <<params, calls>>
    /\ \/ \E result \in {Stashed, HintStashed} :
             /\ End(p, result)
             /\ result = HintStashed /\ p = S => stash_size[S] > 0
       \/ \E columns, result : result = [columns |-> columns] /\ End(p, result)

Keeps(p) ==
    /\ UNCHANGED <<params, calls, results>>
    /\ StatusBar' = StatusBar
    /\ ~HintMayFail /\ stash_size[S] = 0 => stash_size'[S] = 0

\* The steps of a call but its columns and two-way exchanges.
LEMMA CallSteps ==
    ASSUME CircuitInv, NEW p \in Party,
           \/ SendSize(p) \/ RecvSize(p)
           \/ p = S /\ SenderStep
           \/ p = R /\ ReceiverStep
    PROVE  Ends(p) \/ Keeps(p)
<1>1. ASSUME NEW s \in InCall, NEW f \in Nat \ {0}, EnterAt(p, s, f), stage[p] \in InCall,
             UNCHANGED <<params, calls, results>>,
             ~HintMayFail /\ stash_size[S] = 0 => stash_size'[S] = 0
      PROVE  Keeps(p)
  <2>1. stage'[p] = s /\ \A q \in Party \ {p} : stage'[q] = stage[q]
    BY <1>1, Entered, InCallStages
  <2> QED
    BY <1>1, <2>1, StatusStays, InCallStages DEF Keeps
<1>2. 1 \in Nat \ {0} /\ S # R
  BY TwoParties
<1>3. CASE SendSize(p) \/ RecvSize(p)
  <2>1. /\ EnterAt(p, AfterSize(stage[p]), 1) /\ stage[p] \in Sizes
        /\ UNCHANGED <<params, calls, results, stash_size>>
    BY <1>3 DEF SendSize, RecvSize, Enter, locals, tables
  <2>2. stage[p] \in InCall /\ AfterSize(stage[p]) \in InCall
    BY <2>1, SizeStages
  <2> QED
    BY <1>1, <1>2, <2>1, <2>2
<1>4. CASE p = S /\ SenderStep
  <2>1. CASE SimpleHash
    <3>1. stage[S] = "hash" /\ EnterAt(S, "stash", 1)
          /\ UNCHANGED <<params, calls, results, stash_size>>
      BY <2>1 DEF SimpleHash, Enter, locals, tables, S
    <3> QED
      BY <1>1, <1>2, <1>4, <3>1 DEF InCall
  <2>2. CASE RecvStashSize
    <3>1. stage[S] = "stash" /\ UNCHANGED <<params, calls>>
          /\ \/ End(S, Stashed)
             \/ EnterAt(S, "ot", 1) /\ UNCHANGED <<results, stash_size>>
      BY <2>2 DEF RecvStashSize, At, Throw, Enter, locals, tables, S, Stashed
    <3>2. CASE End(S, Stashed)
      BY <1>4, <3>1, <3>2, ThrewIs DEF InCall, Ends
    <3>3. CASE EnterAt(S, "ot", 1) /\ UNCHANGED <<results, stash_size>>
      BY <1>1, <1>2, <1>4, <3>1, <3>3 DEF InCall
    <3> QED
      BY <3>1, <3>2, <3>3
  <2>3. CASE OtSend
    <3>1. stage[S] = "ot" /\ EnterAt(S, "hint_hash", 1)
          /\ UNCHANGED <<params, calls, results, stash_size>>
      BY <2>3 DEF OtSend, At, Enter, locals, tables, S
    <3> QED
      BY <1>1, <1>2, <1>4, <3>1 DEF InCall
  <2>4. CASE HintHash
    <3>1. stage[S] = "hint_hash" /\ EnterAt(S, "hint_stash", 1)
          /\ UNCHANGED <<params, calls, results>>
          /\ \/ stash_size' = [stash_size EXCEPT ![S] = 0]
             \/ HintMayFail
      BY <2>4 DEF HintHash, Enter, S
    <3>2. ~HintMayFail => stash_size'[S] = 0
      <4>1. stash_size \in [Party -> Nat] /\ S \in Party
        BY TwoParties DEF CircuitInv, TypeOK
      <4>2. stash_size' = [stash_size EXCEPT ![S] = 0] => stash_size'[S] = 0
        BY <4>1
      <4> QED
        BY <3>1, <4>2, Zenon
    <3> QED
      BY <1>1, <1>2, <1>4, <3>1, <3>2 DEF InCall
  <2>5. CASE SendHintStashSize
    <3>1. stage[S] = "hint_stash" /\ UNCHANGED <<params, calls>>
          /\ \/ End(S, HintStashed) /\ stash_size[S] > 0
             \/ EnterAt(S, "hint", 1) /\ UNCHANGED <<results, stash_size>>
      BY <2>5 DEF SendHintStashSize, At, Throw, Enter, locals, tables, S, HintStashed
    <3>2. CASE End(S, HintStashed) /\ stash_size[S] > 0
      BY <1>4, <3>1, <3>2 DEF InCall, Ends
    <3>3. CASE EnterAt(S, "hint", 1) /\ UNCHANGED <<results, stash_size>>
      BY <1>1, <1>2, <1>4, <3>1, <3>3 DEF InCall
    <3> QED
      BY <3>1, <3>2, <3>3
  <2>6. CASE SendHint
    <3>1. stage[S] = "hint" /\ UNCHANGED <<params, calls, results, stash_size>>
          /\ (EnterAt(S, "feature_hint", 1) \/ EnterAt(S, "equal", 1))
      BY <2>6 DEF SendHint, At, Enter, locals, tables, S
    <3> QED
      BY <1>1, <1>2, <1>4, <3>1 DEF InCall
  <2>7. CASE SendFeatureHint
    <3>1. stage[S] = "feature_hint" /\ UNCHANGED <<params, calls, results, stash_size>>
          /\ (EnterAt(S, "feature_hint", fid[S] + 1) \/ EnterAt(S, "equal", 1))
      BY <2>7 DEF SendFeatureHint, NextFeature, At, Enter, tables, S
    <3>2. fid[S] + 1 \in Nat \ {0}
      <4>1. fid[S] \in Nat
        BY TwoParties DEF CircuitInv, TypeOK
      <4> QED
        BY <4>1
    <3> QED
      BY <1>1, <1>2, <1>4, <3>1, <3>2 DEF InCall
  <2> QED
    BY <1>4, <2>1, <2>2, <2>3, <2>4, <2>5, <2>6, <2>7 DEF SenderStep
<1>5. CASE p = R /\ ReceiverStep
  <2>1. CASE CuckooHash
    <3>1. stage[R] = "hash" /\ EnterAt(R, "stash", 1)
          /\ UNCHANGED <<params, calls, results>>
          /\ (\E k : stash_size' = [stash_size EXCEPT ![R] = k])
      BY <2>1 DEF CuckooHash, Enter, R
    <3>2. stash_size'[S] = stash_size[S]
      BY <1>2, <3>1 DEF CircuitInv, TypeOK
    <3> QED
      BY <1>1, <1>2, <1>5, <3>1, <3>2 DEF InCall
  <2>2. CASE SendStashSize
    <3>1. stage[R] = "stash" /\ UNCHANGED <<params, calls>>
          /\ \/ End(R, Stashed)
             \/ EnterAt(R, "ot", 1) /\ UNCHANGED <<results, stash_size>>
      BY <2>2 DEF SendStashSize, At, Throw, Enter, locals, tables, R, Stashed
    <3>2. CASE End(R, Stashed)
      BY <1>2, <1>5, <3>1, <3>2 DEF InCall, Ends
    <3>3. CASE EnterAt(R, "ot", 1) /\ UNCHANGED <<results, stash_size>>
      BY <1>1, <1>2, <1>5, <3>1, <3>3 DEF InCall
    <3> QED
      BY <3>1, <3>2, <3>3
  <2>3. CASE OtReceive
    <3>1. stage[R] = "ot" /\ EnterAt(R, "hint_stash", 1)
          /\ UNCHANGED <<params, calls, results, stash_size>>
      BY <2>3 DEF OtReceive, At, Enter, locals, tables, R
    <3> QED
      BY <1>1, <1>2, <1>5, <3>1 DEF InCall
  <2>4. CASE RecvHintStashSize
    <3>1. stage[R] = "hint_stash" /\ UNCHANGED <<params, calls>>
          /\ \/ End(R, HintStashed)
             \/ EnterAt(R, "hint", 1) /\ UNCHANGED <<results, stash_size>>
      BY <2>4 DEF RecvHintStashSize, At, Throw, Enter, locals, tables, R, HintStashed
    <3>2. CASE End(R, HintStashed)
      BY <1>2, <1>5, <3>1, <3>2 DEF InCall, Ends
    <3>3. CASE EnterAt(R, "hint", 1) /\ UNCHANGED <<results, stash_size>>
      BY <1>1, <1>2, <1>5, <3>1, <3>3 DEF InCall
    <3> QED
      BY <3>1, <3>2, <3>3
  <2>5. CASE RecvHint
    <3>1. stage[R] = "hint" /\ UNCHANGED <<params, calls, results, stash_size>>
          /\ (EnterAt(R, "feature_hint", 1) \/ EnterAt(R, "equal", 1))
      BY <2>5 DEF RecvHint, At, Enter, tables, R
    <3> QED
      BY <1>1, <1>2, <1>5, <3>1 DEF InCall
  <2>6. CASE RecvFeatureHint
    <3>1. stage[R] = "feature_hint" /\ UNCHANGED <<params, calls, results, stash_size>>
          /\ (EnterAt(R, "feature_hint", fid[R] + 1) \/ EnterAt(R, "equal", 1))
      BY <2>6 DEF RecvFeatureHint, NextFeature, At, Enter, tables, R
    <3>2. fid[R] + 1 \in Nat \ {0}
      <4>1. fid[R] \in Nat
        BY TwoParties DEF CircuitInv, TypeOK
      <4> QED
        BY <4>1
    <3> QED
      BY <1>1, <1>2, <1>5, <3>1, <3>2 DEF InCall
  <2> QED
    BY <1>5, <2>1, <2>2, <2>3, <2>4, <2>5, <2>6 DEF ReceiverStep
<1> QED
  BY <1>3, <1>4, <1>5

LEMMA NextEnds ==
    ASSUME CircuitInv, SharesInv, NEW p \in Party, Process(p) \/ Step(p)
    PROVE  \/ Process(p)
           \/ CheckParam(p) \/ CreateCommonPrng(p) \/ FinishInit(p)
           \/ Ends(p) \/ Keeps(p)
<1>1. CASE SendValue(p) \/ RecvValue(p)
  <2>1. stage' = stage /\ UNCHANGED <<params, calls, results, stash_size>>
    BY <1>1 DEF SendValue, RecvValue, Half, locals, tables
  <2> QED
    BY <2>1 DEF Keeps, StatusBar
<1>2. CASE EqualDone(p) \/ MultiplexerDone(p)
  <2>1. Shaped
    BY DEF SharesInv
  <2>2. \E n, t, columns :
              /\ Completes(p, n, t, columns)
              /\ Continues(p, n, t, columns) \/ Returns(p, n, t, columns)
    BY <1>2, <2>1, ColumnAdded
  <2>3. PICK n, t, columns :
              /\ Completes(p, n, t, columns)
              /\ Continues(p, n, t, columns) \/ Returns(p, n, t, columns)
    BY <2>2, Zenon
  <2>4. stage[p] \in Compared /\ UNCHANGED <<params, calls>>
    BY <2>3 DEF Completes
  <2>5. stage[p] \in InCall
    BY <2>4, StagesAre
  <2>6. CASE Continues(p, n, t, columns)
    <3>1. EnterAt(p, "multiplexer", t + 1) /\ UNCHANGED <<results, stash_size>>
      BY <2>6 DEF Continues
    <3>2. stage' = [stage EXCEPT ![p] = "multiplexer"]
      BY <3>1 DEF EnterAt
    <3>3. stage'[p] = "multiplexer" /\ \A q \in Party \ {p} : stage'[q] = stage[q]
      BY <3>2 DEF CircuitInv, TypeOK
    <3>4. Alike(stage[p], "multiplexer")
      BY <2>5, InCallStages DEF InCall
    <3> QED
      BY <2>4, <3>1, <3>3, <3>4, StatusStays DEF Keeps
  <2>7. CASE Returns(p, n, t, columns)
    <3>1. End(p, [columns |-> columns \o ReceiverFeatures(p)])
      BY <2>7 DEF Returns
    <3> QED
      BY <2>4, <2>5, <3>1, Zenon DEF Ends
  <2> QED
    BY <2>3, <2>6, <2>7
<1>3. CASE \/ SendSize(p) \/ RecvSize(p)
           \/ p = S /\ SenderStep
           \/ p = R /\ ReceiverStep
  BY <1>3, CallSteps
<1>4. Step(p) => \/ SendValue(p) \/ RecvValue(p)
                 \/ CheckParam(p) \/ CreateCommonPrng(p) \/ FinishInit(p)
                 \/ SendSize(p) \/ RecvSize(p)
                 \/ p = S /\ SenderStep
                 \/ p = R /\ ReceiverStep
                 \/ EqualDone(p) \/ MultiplexerDone(p)
  BY DEF Step, S, R
<1> QED
  BY <1>1, <1>2, <1>3, <1>4

LEMMA HintsStay ==
    ASSUME CircuitInv, SharesInv, ~HintMayFail, HintsTaken, Next
    PROVE  HintsTaken'
<1>1. PICK p \in Party : Process(p) \/ Step(p)
  BY DEF Next
<1>2. CASE Process(p) \/ CheckParam(p) \/ CreateCommonPrng(p) \/ FinishInit(p)
  BY <1>2 DEF Process, CheckParam, CreateCommonPrng, FinishInit, locals, tables, HintsTaken
<1>3. CASE Keeps(p)
  BY <1>3 DEF Keeps, HintsTaken
<1>4. CASE Ends(p)
  <2>1. PICK result : /\ End(p, result)
                      /\ ~(result = HintStashed /\ p = S)
    <3>1. \A columns : [columns |-> columns] # HintStashed
      BY ThrewIs
    <3>2. stash_size[S] = 0
      BY DEF HintsTaken
    <3> QED
      BY <1>4, <3>1, <3>2, ThrewIs DEF Ends
  <2>2. stage[p] \in InCall
    BY <1>4 DEF Ends
  <2>3. stash_size'[S] = 0
    BY <2>1, EndedLocals, TwoParties DEF HintsTaken
  <2>4. CASE p = S
    <3>1. results'[S] = Append(results[S], result)
      BY <2>1, <2>4, EndedLocals
    <3>2. /\ DOMAIN results'[S] = 1..Number(S) /\ results'[S][Number(S)] = result
          /\ DOMAIN results[S] = 1..(Number(S) - 1) /\ Number(S) \in Nat \ {0}
          /\ \A k \in DOMAIN results[S] : results'[S][k] = results[S][k]
      BY <2>2, <2>4, <3>1, ResultAdded
    <3>3. \A k \in 1..Number(S) : k \in 1..(Number(S) - 1) \/ k = Number(S)
      BY <3>2
    <3> QED
      BY <2>1, <2>3, <2>4, <3>2, <3>3 DEF HintsTaken
  <2>5. CASE p = R
    BY <2>1, <2>3, <2>5, EndedLocals, TwoParties DEF HintsTaken
  <2> QED
    BY <2>4, <2>5, TwoParties
<1> QED
  BY <1>1, <1>2, <1>3, <1>4, NextEnds

LEMMA IdealStep ==
    ASSUME CircuitInv, SharesInv, HintsTaken, Next
    PROVE  [Ideal!Next]_(Ideal!vars)
<1>1. PICK p \in Party : Process(p) \/ Step(p)
  BY DEF Next
<1>2. CircuitInv' /\ SharesInv'
  BY NextHolds, NextShares
<1>3. \A q \in Party : q \in Ideal!Party
  BY DEF Ideal!Party, Party
<1>4. CASE Process(p)
  BY <1>3, <1>4, InvokeStep DEF Ideal!Next
<1>5. CASE CheckParam(p) \/ CreateCommonPrng(p) \/ FinishInit(p)
  BY <1>3, <1>5, OpenStep DEF Ideal!Next
<1>6. CASE Keeps(p)
  BY <1>6, Stutters DEF Keeps
<1>7. CASE Ends(p)
  <2>1. stage[p] \in InCall /\ UNCHANGED <<params, calls>>
    BY <1>7 DEF Ends
  <2>2. ASSUME NEW result \in {Stashed, HintStashed}, End(p, result)
        PROVE  Ideal!Next
    BY <1>2, <1>3, <2>1, <2>2, GiveUpStep DEF Ideal!Next
  <2>3. ASSUME NEW columns, NEW result, result = [columns |-> columns], End(p, result)
        PROVE  Ideal!Next
    BY <1>2, <1>3, <2>1, <2>3, ReturnStep DEF Ideal!Next
  <2> QED
    BY <1>7, <2>2, <2>3 DEF Ends
<1> QED
  BY <1>1, <1>4, <1>5, <1>6, <1>7, NextEnds

\* If the second table always takes the sender's items, a session is one of those
\* of JoinIdeal, as far as safety goes: the n-th calls of the two end alike, in
\* shares that add up to a join or in an exception.
THEOREM ImplementsJoin == ~HintMayFail => (Spec => Ideal!Safety)
<1> SUFFICES ASSUME ~HintMayFail PROVE Spec => Ideal!Safety
  OBVIOUS
<1>1. Init => HintsTaken
  BY TwoParties DEF Init, HintsTaken
<1>2. CircuitInv /\ SharesInv /\ HintsTaken /\ [Next]_vars => HintsTaken'
  <2>1. CASE UNCHANGED vars
    BY <2>1 DEF vars, locals, tables, HintsTaken
  <2> QED
    BY <2>1, HintsStay
<1>3. CircuitInv /\ SharesInv /\ HintsTaken /\ [Next]_vars => [Ideal!Next]_(Ideal!vars)
  <2>1. CASE UNCHANGED vars
    BY <2>1, IdealVars DEF vars, Ideal!vars, AgreedBar, StatusBar
  <2> QED
    BY <2>1, IdealStep
<1> QED
  BY <1>1, <1>2, <1>3, IdealInit, CircuitInvariant, SharesInvariant, PTL
  DEF Spec, Ideal!Safety
=============================================================================
