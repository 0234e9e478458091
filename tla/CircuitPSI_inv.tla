--------------------------- MODULE CircuitPSI_inv ---------------------------
(***************************************************************************)
(* The inductive invariant of CircuitPSI.  Every message has a place: the  *)
(* call it belongs to, 0 for init, and the stage and feature it is sent    *)
(* at.  Where a party is settles the last message it has read and the last *)
(* it has written, and every message follows one other.  A channel holds   *)
(* the messages after the one its reader has read last, up to the one its  *)
(* writer has written last; what each says is a matter of the calls.       *)
(***************************************************************************)
EXTENDS CircuitPSI

S == "sender"
R == "receiver"

InInit == Range(Checked) \cup {"seed", "base_ot", "mpc"}
InCall == Sizes \cup {"hash", "stash", "ot", "hint_hash", "hint_stash", "hint",
                      "feature_hint", "equal", "multiplexer"}
Compared == {"equal", "multiplexer"}
\* Past the second table, at the sender, and past its hints, at the receiver.
Hinted == {"hint", "feature_hint"} \cup Compared
Opened == {"feature_hint"} \cup Compared
\* Past the first table.
Placed == {"ot", "hint_hash", "hint_stash"} \cup Hinted

Stashed == [threw |-> "stash"]
HintStashed == [threw |-> "hint_stash"]

\* The receiver has put its keys in the first table of call n, and has said so;
\* the sender has filled the second.
ThroughStash(n) ==
    IF n \in DOMAIN results[R] THEN results[R][n] # Stashed
    ELSE n = Number(R) /\ stage[R] \in Placed

ThroughHint(n) ==
    IF n \in DOMAIN results[S] THEN ~Threw(results[S][n])
    ELSE n = Number(S) /\ stage[S] \in Hinted

-----------------------------------------------------------------------------
(* What a call comes to.                                                   *)

Features(n) == Len(calls[S][n].features)

BinsOf(n) == Ceil(Len(calls[R][n].keys), params[R].epsilon)

HintBinsOf(n) ==
    LET items == Len(calls[S][n].keys) * params[S].num_of_fun IN
    Ceil(IF items < BinsOf(n) THEN BinsOf(n) ELSE items, params[S].epsilon_hint)

\* The draws of p from the common stream before its n-th call.  A call that
\* throws for the first table has cost one on either side; for the second, one
\* at the receiver.
Drawn(p, n) ==
    2 * (n - 1) - Failures(p, "stash", n - 1)
                - (IF p = R THEN Failures(p, "hint_stash", n - 1) ELSE 0)

Stream(n) == [seed |-> {1, 2}, draws |-> n]

\* The masks of the sender's items, and a table of hints for them.
MasksOf(n) ==
    {Mask(Stream(Drawn(S, n) + 1), f, key) :
        f \in 1..params[S].num_of_fun, key \in Range(calls[S][n].keys)}

HintsOf(n) == [MasksOf(n) -> 1..params[S].num_of_fun_hint]

-----------------------------------------------------------------------------
(* The order of messages.                                                  *)

HasRead(p) ==
    io[p] = "done" \/ (io[p] = "send" /\ Starts(stage[p], p) = "recv")

HasWritten(p) ==
    io[p] = "done" \/ (io[p] = "recv" /\ Starts(stage[p], p) = "send")

Place(n, s, f) == [call |-> n, is |-> s, fid |-> f]

\* The first parameter the two disagree on.
Differ(k) ==
    /\ params[S][Checked[k]] # params[R][Checked[k]]
    /\ \A j \in 1..(k - 1) : params[S][Checked[j]] = params[R][Checked[j]]

FirstDifference == Checked[CHOOSE k \in DOMAIN Checked : Differ(k)]

InitBefore(s) ==
    CASE s = "epsilon" -> "start"
      [] s = "epsilon_hint" -> "epsilon"
      [] s = "num_of_fun" -> "epsilon_hint"
      [] s = "num_of_fun_hint" -> "num_of_fun"
      [] s = "seed" -> "num_of_fun_hint"
      [] s = "base_ot" -> "seed"
      [] OTHER -> "base_ot"

\* The last message to d of the n-th call, which has ended at p.
LastOf(d, p, n) ==
    IF n = 0 THEN Place(0, "mpc", 1)
    ELSE IF results[p][n] = Stashed
         THEN Place(n, IF d = S THEN "stash" ELSE "sender_features", 1)
    ELSE IF results[p][n] = HintStashed
         THEN Place(n, IF d = S THEN "ot" ELSE "hint_stash", 1)
    ELSE IF Features(n) = 0 THEN Place(n, "equal", 1)
    ELSE Place(n, "multiplexer", Features(n))

\* The last message to the sender before stage s of call n.
BeforeAtSender(n, s) ==
    CASE s = "receiver_features" -> "receiver_data"
      [] s \in {"sender_data", "sender_features", "hash", "stash"} -> "receiver_features"
      [] s = "ot" -> "stash"
      [] OTHER -> "ot"

\* The same for the receiver, before the hints.
BeforeAtReceiver(n, s) ==
    CASE s = "sender_features" -> "sender_data"
      [] s = "hint" -> "hint_stash"
      [] OTHER -> "sender_features"

\* The last message to d before feature f of stage s of call n; p has ended the
\* call before this one.
Previous(d, p, n, s, f) ==
    CASE s \in InInit -> Place(0, InitBefore(s), 1)
      [] s = "threw" -> Place(0, FirstDifference, 1)
      [] s = "idle" -> LastOf(d, p, n)
      [] s = "receiver_data" -> LastOf(d, p, n - 1)
      [] d = R /\ s \in {"receiver_features", "sender_data"} -> LastOf(d, p, n - 1)
      [] s = "multiplexer" -> IF f = 1 THEN Place(n, "equal", 1) ELSE Place(n, s, f - 1)
      [] d = R /\ s = "equal" -> IF Features(n) = 0 THEN Place(n, "hint", 1)
                                 ELSE Place(n, "feature_hint", Features(n))
      [] d = R /\ s = "feature_hint" -> IF f = 1 THEN Place(n, "hint", 1)
                                        ELSE Place(n, s, f - 1)
      [] OTHER -> Place(n, IF d = S THEN BeforeAtSender(n, s)
                           ELSE BeforeAtReceiver(n, s), 1)

\* The last message to d that p has read, if it is d, or has written.
Last(d, p) ==
    IF IF p = d THEN HasRead(p) ELSE HasWritten(p)
    THEN Place(Number(p), stage[p], fid[p])
    ELSE Previous(d, p, Number(p), stage[p], fid[p])

-----------------------------------------------------------------------------
(* What the messages say.                                                  *)

To(d) ==
    InInit \cup Compared \cup
        (IF d = S THEN {"receiver_data", "receiver_features", "stash", "ot"}
         ELSE {"sender_data", "sender_features", "hint_stash", "hint", "feature_hint"})

\* p is at the k-th parameter, or has been.
Reached(p, k) == stage[p] \notin {Checked[j] : j \in 1..(k - 1)}

SizeIn(s, call) ==
    IF s \in {"receiver_data", "sender_data"} THEN Len(call.keys) ELSE Len(call.features)

\* m is a message to d of the n-th call of its writer, or of its init.
Says(d, n, m) ==
    LET p == Peer(d) IN
    /\ m.is \in To(d)
    /\ IF m.is \in InInit THEN n = 0 ELSE n \in DOMAIN calls[p] /\ n \in Nat \ {0}
    /\ IF m.is \in {"feature_hint", "multiplexer"} THEN m.fid \in 1..Features(n)
       ELSE m.fid = 1
    /\ \A k \in DOMAIN Checked : m.is = Checked[k] =>
          m.width = Words(1) /\ m.value = params[p][m.is] /\ Reached(p, k)
    /\ m.is \in {"seed", "base_ot", "mpc"} => m.width = Bytes(m.is) /\ m.value = Block(p)
    /\ m.is \in Sizes => m.width = Words(1) /\ m.value = SizeIn(m.is, calls[p][n])
    /\ m.is \in Placed \cup {"stash"} => n \in DOMAIN calls[d]
    /\ m.is = "stash" =>
          /\ m.width = Words(1)
          /\ \/ m.value = 0 /\ ThroughStash(n)
             \/ m.value = 1 /\ n \in DOMAIN results[R] /\ results[R][n] = Stashed
    /\ m.is \in Placed => ThroughStash(n)
    /\ m.is = "ot" => m.width = [unit |-> "ot", number |-> BinsOf(n)]
    /\ m.is = "hint_stash" =>
          /\ m.width = Words(1)
          /\ \/ m.value = 0 /\ ThroughHint(n)
             \/ m.value = 1 /\ n \in DOMAIN results[S] /\ results[S][n] = HintStashed
    /\ m.is \in Hinted => ThroughHint(n)
    /\ m.is \in {"hint", "feature_hint"} => m.width = Words(HintBinsOf(n))
    /\ m.is = "hint" => m.value.seed = Stream(Drawn(S, n) + 2)
                        /\ m.value.entries \in HintsOf(n)
    /\ m.is = "feature_hint" => m.value \in [MasksOf(n) -> Word]
    /\ m.is \in Compared => m.width = Bytes(m.is)
    /\ m.is = "equal" /\ d = R => m.value \in {0, 1}
    /\ m.is = "multiplexer" /\ d = R => m.value \in [input : Randoms, share : Randoms]

\* m is a message to q of call n, and x is the one before it.
Carries(q, x, n, m) ==
    Says(q, n, m) /\ x = Previous(q, Peer(q), n, m.is, m.fid)

\* The channel to q holds what its peer has written and q has not read.
InOrder(q) ==
    \E numbers \in [1..Len(chan[q]) -> 0..MaxCalls] :
        LET place(i) == IF i = 0 THEN Last(q, q)
                        ELSE Place(numbers[i], chan[q][i].is, chan[q][i].fid)
        IN
        /\ \A i \in 1..Len(chan[q]) : Carries(q, place(i - 1), numbers[i], chan[q][i])
        /\ place(Len(chan[q])) = Last(q, Peer(q))

-----------------------------------------------------------------------------
(* The parties.                                                            *)

\* The draws of p in a call, up to stage s, and so far.
DrawsIn(p, s) ==
    CASE s \in Sizes \cup {"hash"} -> 0
      [] s \in (IF p = S THEN {"hint_stash"} \cup Hinted ELSE Opened) -> 2
      [] OTHER -> 1

Draws(p) ==
    IF stage[p] \in InCall THEN Drawn(p, Number(p)) + DrawsIn(p, stage[p])
    ELSE Drawn(p, Number(p) + 1)

\* Where a party alone can be.
Control(p) ==
    /\ stage[p] \in InInit \cup {"threw"} => Number(p) = 0
    /\ stage[p] \in InCall => Number(p) > 0
    /\ stage[p] = "hint_hash" => p = S
    /\ Number(p) <= MaxCalls
    /\ stage[p] \in InCall => Number(p) = Len(results[p]) + 1
    /\ stage[p] \notin InCall => Number(p) = Len(results[p])
    /\ IF stage[p] \in TwoWay THEN io[p] # "none"
       ELSE io[p] = Starts(stage[p], p)
    /\ IF stage[p] \in {"feature_hint", "multiplexer"}
       THEN fid[p] \in 1..Features(Number(p)) ELSE fid[p] = 1
    /\ common_prng[p] =
          [seed |-> IF stage[p] \in Range(Checked) \cup {"seed", "threw"}
                    THEN {} ELSE {1, 2},
           draws |-> Draws(p)]
    /\ stage[p] = "multiplexer" => Len(output_shares[p]) = fid[p]
    /\ stage[p] # "multiplexer" => output_shares[p] = <<>>

\* What a party knows of the other.
Knows(p) ==
    LET n == Number(p)
        q == Peer(p)
    IN
    /\ \A k \in DOMAIN Checked :
          /\ stage[p] \notin {Checked[j] : j \in 1..k} \cup {"threw"}
                => params[p][Checked[k]] = params[q][Checked[k]]
          /\ stage[p] = Checked[k] =>
                /\ \A j \in 1..(k - 1) : params[p][Checked[j]] = params[q][Checked[j]]
                /\ HasRead(p) => remote[p] = params[q][Checked[k]] /\ Reached(q, k)
    /\ stage[p] = "threw" => \E k \in DOMAIN Checked : Differ(k) /\ Reached(q, k)
    /\ stage[p] = "seed" /\ HasRead(p) => remote[p] = Block(q)
    /\ stage[p] \in InCall =>
          LET first == IF p = S THEN "receiver_data" ELSE "sender_data"
              second == IF p = S THEN "receiver_features" ELSE "sender_features"
              earlier == IF p = S THEN {} ELSE {"receiver_data", "receiver_features"}
          IN
          /\ stage[p] \notin {first} \cup earlier =>
                n \in DOMAIN calls[q] /\ peer_size[p].data = Len(calls[q][n].keys)
          /\ stage[p] \notin {first, second} \cup earlier =>
                peer_size[p].features = Len(calls[q][n].features)
    /\ p = S /\ stage[p] \in Placed => ThroughStash(n)
    /\ p = R /\ stage[p] \in Hinted => ThroughHint(n)

\* The sender's table, and what it shares.
SenderLocals ==
    LET n == Number(S) IN
    /\ stage[S] = "hint_stash" =>
          \/ stash_size[S] = 0 /\ hint_table \in HintsOf(n)
          \/ stash_size[S] = 1 /\ hint_table = <<>>
    /\ stage[S] \in Hinted => stash_size[S] = 0 /\ hint_table \in HintsOf(n)
    /\ stage[S] \notin {"hint_stash"} \cup Hinted => stash_size[S] = 0 /\ hint_table = <<>>
    /\ stage[S] = "feature_hint" => Len(contents) = fid[S] - 1
    /\ stage[S] \in Compared => Len(contents) = Features(n)
    /\ stage[S] \notin Opened => contents = <<>>
    /\ HasWritten(S) =>
          /\ stage[S] = "equal" => sent[S] \in {0, 1}
          /\ stage[S] = "multiplexer" => sent[S] \in [input : Randoms, share : Randoms]

\* The receiver's table, and what it has opened with it.
TableOf(n) ==
    /\ DOMAIN cuckoo_table = DOMAIN calls[R][n].keys
    /\ \A i \in DOMAIN cuckoo_table :
          /\ cuckoo_table[i].bin \in 1..BinsOf(n)
          /\ \E f \in 1..params[R].num_of_fun :
                cuckoo_table[i].mask = Mask(Stream(Drawn(R, n) + 1), f, calls[R][n].keys[i])
    /\ \A i, j \in DOMAIN cuckoo_table : cuckoo_table[i].bin = cuckoo_table[j].bin => i = j

ReceiverLocals ==
    LET n == Number(R) IN
    /\ stage[R] = "stash" =>
          \/ stash_size[R] = 0 /\ TableOf(n)
          \/ stash_size[R] = 1 /\ cuckoo_table = <<>>
    /\ stage[R] \in Placed => stash_size[R] = 0 /\ TableOf(n)
    /\ stage[R] \notin {"stash"} \cup Placed => stash_size[R] = 0 /\ cuckoo_table = <<>>
    /\ stage[R] \notin Opened => opened = {}
    /\ \A o \in opened : cuckoo_table[o[1]].mask \in MasksOf(n)
    /\ stage[R] = "feature_hint" => Len(hint_features) = fid[R] - 1
    /\ stage[R] \in Compared => Len(hint_features) = Features(n)
    /\ stage[R] \notin Opened => hint_features = <<>>
    /\ HasRead(R) =>
          /\ stage[R] = "equal" => remote[R] \in {0, 1}
          /\ stage[R] = "multiplexer" => remote[R] \in [input : Randoms, share : Randoms]

\* Calls have ended alike.
Ended ==
    /\ \A p \in Party : \A n \in DOMAIN results[p] : n \in DOMAIN calls[Peer(p)]
    /\ \A n \in DOMAIN results[S] :
          IF results[S][n] = Stashed THEN n \in DOMAIN results[R] /\ results[R][n] = Stashed
          ELSE ThroughStash(n)
    /\ \A n \in DOMAIN results[R] :
          /\ results[R][n] = HintStashed =>
                n \in DOMAIN results[S] /\ results[S][n] = HintStashed
          /\ ~Threw(results[R][n]) => ThroughHint(n)

\* Calls, results, messages and what is computed in a call come in sequences, and
\* each party has its own.
AreSequences ==
    /\ \A p \in Party : chan[p] \in Seq(Range(chan[p])) /\ calls[p] \in Seq(Calls[p])
    /\ \A p \in Party : results[p] \in Seq(Range(results[p]))
    /\ hint_features \in Seq(Range(hint_features))
    /\ DOMAIN chan = Party /\ DOMAIN calls = Party /\ DOMAIN results = Party
    /\ DOMAIN sent = Party /\ DOMAIN remote = Party

\* Each channel holds the messages between its two ends, each party knows what
\* it has been told, and finished calls have ended alike.
CircuitInv ==
    /\ TypeOK /\ AreSequences
    /\ \A p \in Party : Control(p) /\ Knows(p) /\ InOrder(p)
    /\ SenderLocals
    /\ ReceiverLocals
    /\ Ended
=============================================================================
