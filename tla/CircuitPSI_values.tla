-------------------------- MODULE CircuitPSI_values --------------------------
(***************************************************************************)
(* The inductive invariant of CircuitPSI about what the shares add up to.  *)
(* CircuitInv says that every message comes at its place; this says what   *)
(* the two parties' columns have to do with each other.  The comparisons   *)
(* of a call are numbered: 0 is that of the contents of bins, and f the    *)
(* one that keeps feature f.  In each the parties wait for each other, so  *)
(* that what the receiver reads is what the sender still holds.            *)
(***************************************************************************)
EXTENDS CircuitPSI_inv

-----------------------------------------------------------------------------
(* Taking turns.                                                           *)

\* The comparison p is at, and the one a message belongs to.
Turn(p) == IF stage[p] = "equal" THEN 0 ELSE fid[p]
TurnOf(m) == IF m.is = "equal" THEN 0 ELSE m.fid

Returned(p, n) == n \in DOMAIN results[p] /\ ~Threw(results[p][n])

\* p is past comparison c of call n, or in it and has read, or written.
Past(p, n, c) ==
    Returned(p, n) \/ (n = Number(p) /\ stage[p] \in Compared /\ Turn(p) > c)

Heard(p, n, c) ==
    \/ Past(p, n, c)
    \/ n = Number(p) /\ stage[p] \in Compared /\ Turn(p) = c /\ HasRead(p)

Spoken(p, n, c) ==
    \/ Past(p, n, c)
    \/ n = Number(p) /\ stage[p] \in Compared /\ Turn(p) = c /\ HasWritten(p)

\* Who has read has been written to.
Answered(p) ==
    \A n \in DOMAIN calls[S] : \A c \in 0..Features(n) :
        Heard(p, n, c) => Spoken(Peer(p), n, c)

\* The feature f of a key of the sender, in call n.
FeatureAt(n, f, key) ==
    LET call == calls[S][n]
        i == CHOOSE i \in DOMAIN call.keys : call.keys[i] = key
    IN call.features[f][i]

\* What the hints of a feature say, for those who know the masks.
HintsFor(n, f) ==
    [mask \in MasksOf(n) |-> Hidden(FeatureAt(n, f, mask.key), contents[f])]

\* A comparison under way is the one its writer is in, waiting; the sender's
\* is yet to be read in this call, and the receiver's has been written in it.
Waiting(m) ==
    /\ stage[S] = m.is /\ fid[S] = m.fid /\ io[S] = "recv"

ToReceiver(m) ==
    /\ m.is \in Compared =>
          /\ Waiting(m) /\ m.value = sent[S]
          /\ Number(R) = Number(S) /\ ~Heard(R, Number(S), Turn(S))
    /\ m.is = "feature_hint" =>
          /\ Number(R) = Number(S) /\ stage[S] \in Opened /\ ~Heard(R, Number(S), 0)
          /\ m.fid \in DOMAIN contents /\ m.value = HintsFor(Number(S), m.fid)

ToSender(m) ==
    m.is \in Compared => Waiting(m) /\ Spoken(R, Number(S), Turn(S))

\* Behind a comparison comes nothing of this kind.
LastInCall(q) ==
    \A i, j \in DOMAIN chan[q] :
        i < j /\ chan[q][i].is \in Compared => chan[q][j].is \notin Opened

Turns ==
    /\ \A p \in Party : Answered(p) /\ LastInCall(p)
    /\ \A i \in DOMAIN chan[R] : ToReceiver(chan[R][i])
    /\ \A i \in DOMAIN chan[S] : ToSender(chan[S][i])

-----------------------------------------------------------------------------
(* What is shared.                                                         *)

\* The key a receiver has opened a hint with.
KeyOf(o) == Current(R).keys[o[1]]

\* What the sender lets the engine add is its random content of the feature.
ContentSent ==
    HasWritten(S) /\ stage[S] = "multiplexer" => sent[S].input = contents[fid[S]]

\* The words a receiver has are the sender's features, without these contents.
HintsHeld ==
    stage[R] \in Opened /\ stage[S] \in Hinted /\ Number(S) = Number(R) =>
        \A f \in DOMAIN hint_features :
           /\ f \in DOMAIN contents
           /\ \A o \in opened :
                 hint_features[f][o] = Hidden(FeatureAt(Number(S), f, KeyOf(o)), contents[f])

\* No second table has failed before call n.
Clean(n) == Failures(S, "hint_stash", n - 1) = 0

\* The receiver opens a hint for every common key, as long as the seeds agree.
AllOpened ==
    stage[R] \in Opened /\ Clean(Number(R)) =>
        \A i \in DOMAIN Current(R).keys :
            Current(R).keys[i] \in Range(calls[S][Number(R)].keys)
               => \E o \in opened : o[1] = i

Shaped ==
    \A p \in Party : \A k \in DOMAIN output_shares[p] :
        DOMAIN output_shares[p][k] = 1..BinsOf(Number(p))

\* The column of comparison c that p has in call n, or will have.
Column(p, n, c) ==
    IF n \in DOMAIN results[p] THEN results[p][n].columns[c + 1]
    ELSE IF c + 1 \in DOMAIN output_shares[p] THEN output_shares[p][c + 1]
    ELSE IF stage[p] = "equal" THEN Equal(p) ELSE Multiplexer(p)

Added(n, c, b) ==
    (Column(S, n, c)[b] + Column(R, n, c)[b]) % (IF c = 0 THEN 2 ELSE Modulus)

\* What a bin holds as far as the receiver has opened it.
Held(n, c, b) ==
    IF OpenedIn(b) = {} THEN 0
    ELSE IF c = 0 THEN 1
    ELSE FeatureAt(n, c, KeyOf(CHOOSE o \in OpenedIn(b) : TRUE))

Fits ==
    stage[R] \in Compared =>
        \A c \in 0..Features(Number(R)) : Heard(R, Number(R), c) =>
            \A b \in 1..BinsOf(Number(R)) : Added(Number(R), c, b) = Held(Number(R), c, b)

\* Columns of a call that has returned: those of the sender's features, then
\* those of the receiver's.
Width(n) == 1 + Features(n) + Len(calls[R][n].features)

WellShaped(p, n) ==
    /\ DOMAIN results[p][n].columns = 1..Width(n)
    /\ \A c \in 1..Width(n) : DOMAIN results[p][n].columns[c] = 1..BinsOf(n)

\* The row of the join in a bin, where bin tells each key's.
JoinRow(n, bin, b) ==
    IF b \in Range(bin)
    THEN Ideal!RowOf(calls[S][n], calls[R][n],
                     CHOOSE i \in DOMAIN calls[R][n].keys : bin[i] = b)
    ELSE [c \in 1..Width(n) |-> 0]

Joined(n) ==
    Returned(R, n) =>
        /\ WellShaped(R, n)
        /\ Clean(n) =>
             \E bin \in Injection(DOMAIN calls[R][n].keys, 1..BinsOf(n)) :
                \A b \in 1..BinsOf(n) :
                   /\ \A c \in 0..Features(n) : Added(n, c, b) = JoinRow(n, bin, b)[c + 1]
                   /\ \A c \in (2 + Features(n))..Width(n) :
                         results[R][n].columns[c][b] = JoinRow(n, bin, b)[c]

SenderDone(n) ==
    Returned(S, n) =>
        /\ WellShaped(S, n)
        /\ \A c \in (2 + Features(n))..Width(n) : \A b \in 1..BinsOf(n) :
              results[S][n].columns[c][b] = 0

\* SharesCorrect with what makes it inductive: the comparisons are taken in
\* turns (no party is past one the other has not answered), the receiver holds
\* the sender's features less the contents of the bins and has opened a hint for
\* each common key, and so the columns of each comparison, made or yet to be
\* returned, add up to what the bins hold (circuit_psi.cpp:84-266).
SharesInv ==
    /\ Turns /\ ContentSent /\ HintsHeld /\ AllOpened /\ Shaped /\ Fits
    /\ \A n \in DOMAIN results[R] : Joined(n)
    /\ \A n \in DOMAIN results[S] : SenderDone(n)
=============================================================================
