------------------------------ MODULE CircuitPSI ------------------------------
(***************************************************************************)
(* pjc/circuit_psi.cpp: private join and compute.  The parties get shares  *)
(* of a table: which of the receiver's keys the sender has too, and the    *)
(* features of both at these keys.                                         *)
(*                                                                         *)
(* A call exchanges sizes and draws the seeds of two hash tables from the  *)
(* common stream.  The receiver puts its keys in the bins of the first;    *)
(* the sender puts each of its keys there once for every hash function,    *)
(* and then puts all these items into the second table, whose bins it      *)
(* sends filled with hints: whoever knows the mask of an item can take its *)
(* bin's content, and the item's feature, out of the bin a hint function   *)
(* names.  The two then compare contents, and keep features where they     *)
(* agree, inside an MPC engine.  Either table may fail to take all items;  *)
(* the party that filled it says so, and both throw.                       *)
(*                                                                         *)
(* The network is that of KkrtPSI: a read takes what comes next if it has  *)
(* the length asked for.                                                   *)
(***************************************************************************)
EXTENDS Integers, Sequences, FiniteSets, Functions, FiniteSetsExt, Parties

CONSTANTS
    Keys,           \* identifiers, and their 128-bit hashes
    Calls,          \* per party, the keys and features it may call with
    Params,         \* the parameters a party may be configured with
    HintMayFail,    \* whether the second table may fail
    Randoms,        \* the words a random number generator may give
    Modulus,        \* 2^64: the number of words
    MaxCalls,       \* bound on the calls of one party
    Capacity        \* messages the network holds in one direction

Word == 0..(Modulus - 1)

\* check_params, in its order: epsilon and fun_epsilon, in hundredths, and two
\* numbers of functions.
Checked == <<"epsilon", "epsilon_hint", "num_of_fun", "num_of_fun_hint">>

\* Keys and features as a caller passes them: the keys differ, and a feature
\* has a value for each.
WellFormed(call) ==
    /\ call.keys \in Seq(Keys) /\ IsInjective(call.keys)
    /\ call.features \in Seq([DOMAIN call.keys -> Word])

ASSUME CircuitCallsAssumption ==
    /\ \A p \in Party : \A call \in Calls[p] : WellFormed(call)
    /\ \A call \in Calls["receiver"] : call.keys # <<>>
ASSUME CircuitParamsAssumption ==
    Params \subseteq [Range(Checked) -> Nat \ {0}] /\ HintMayFail \in BOOLEAN
ASSUME CircuitBoundsAssumption ==
    /\ Modulus \in Nat \ {0, 1} /\ Randoms \subseteq Word
    /\ MaxCalls \in Nat /\ Capacity \in Nat \ {0}

VARIABLES
    params,         \* per party, of its configuration
    calls,          \* per party, the calls it has made
    results,        \* per party, how its finished calls ended
    stage,          \* per party, the message or exchange it is at
    fid,            \* per party, the feature it is at, in a loop over features
    io,             \* per party, whether it sends, reads or goes on
    sent,           \* per party, the value it wrote last
    remote,         \* per party, the value it read last
    peer_size,      \* per party, the keys and features the peer announced
    common_prng,    \* per party, the seed of the common stream and the number
                    \* of draws from it
    cuckoo_table,   \* of the receiver: for each key its bin and mask
    hint_table,     \* of the sender: for each mask its hint function
    stash_size,     \* of the table a party has filled last
    contents,       \* of the sender: the random word of each feature
    opened,         \* of the receiver: the keys whose hint it could open, with
                    \* the hint function
    hint_features,  \* of the receiver: what these gave it of each feature
    output_shares,  \* per party, the columns it has so far
    chan            \* per party, the messages on their way to it

\* What a party computes with during a call.
tables == <<cuckoo_table, hint_table, stash_size>>
locals == <<tables, contents, opened, hint_features, output_shares>>
values == <<sent, remote, peer_size>>
vars == <<params, calls, results, stage, fid, io, values, common_prng, locals, chan>>

Rest == {"idle", "threw"}
Sizes == {"receiver_data", "receiver_features", "sender_data", "sender_features"}
\* Both write in these.
TwoWay == Range(Checked) \cup {"seed", "base_ot", "mpc", "equal", "multiplexer"}
OneWay == Sizes \cup {"hash", "stash", "ot", "hint_hash", "hint_stash", "hint",
                      "feature_hint"}

-----------------------------------------------------------------------------
(* The state of one party.                                                 *)

Number(p) == Len(calls[p])
Current(p) == calls[p][Number(p)]

\* The number of keys, and of features, that the party `of` has, as p knows it.
DataSize(p, of) == IF p = of THEN Len(Current(p).keys) ELSE peer_size[p].data
FeatureSize(p, of) ==
    IF p = of THEN Len(Current(p).features) ELSE peer_size[p].features

Ceil(size, hundredths) == (size * hundredths + 99) \div 100

Bins(p) == Ceil(DataSize(p, "receiver"), params[p].epsilon)

\* The second table takes the sender's items, or the receiver's bins if there
\* are more of these.
HintBins(p) ==
    LET items == DataSize(p, "sender") * params[p].num_of_fun IN
    Ceil(IF items < Bins(p) THEN Bins(p) ELSE items, params[p].epsilon_hint)

\* A seed is a place in the common stream; each draw moves on.
Draw(p) == common_prng' = [common_prng EXCEPT ![p].draws = @ + 1]

Init ==
    /\ params \in [Party -> Params]
    /\ calls = [p \in Party |-> <<>>]
    /\ results = [p \in Party |-> <<>>]
    /\ stage = [p \in Party |-> Checked[1]]
    /\ fid = [p \in Party |-> 1]
    /\ io = [p \in Party |-> First(p)]
    /\ sent = [p \in Party |-> 0]
    /\ remote = [p \in Party |-> 0]
    /\ peer_size = [p \in Party |-> [data |-> 0, features |-> 0]]
    /\ common_prng = [p \in Party |-> [seed |-> {}, draws |-> 0]]
    /\ cuckoo_table = <<>>
    /\ hint_table = <<>>
    /\ stash_size = [p \in Party |-> 0]
    /\ contents = <<>>
    /\ opened = {}
    /\ hint_features = <<>>
    /\ output_shares = [p \in Party |-> <<>>]
    /\ chan = [p \in Party |-> <<>>]

-----------------------------------------------------------------------------
(* Network and control.                                                    *)

Words(number) == [unit |-> "word", number |-> number]
Bytes(unit) == [unit |-> unit, number |-> 1]

Post(p, width, value) ==
    /\ Len(chan[Peer(p)]) < Capacity
    /\ chan' = [chan EXCEPT ![Peer(p)] =
                   Append(@, [is |-> stage[p], fid |-> fid[p], width |-> width,
                              value |-> value])]

Take(p, width) ==
    /\ chan[p] # <<>>
    /\ Head(chan[p]).width = width
    /\ chan' = [chan EXCEPT ![p] = Tail(@)]

\* What a party does first in a stage.
Starts(s, p) ==
    CASE s \in Rest \cup {"hash", "hint_hash"} -> "none"
      [] s = "seed" -> "send"
      [] s \in Range(Checked) \cup {"equal", "multiplexer"} -> First(p)
      [] s \in {"sender_data", "sender_features", "hint_stash", "hint",
                "feature_hint"} -> First(p)
      [] OTHER -> First(Peer(p))

At(p, s, position) == stage[p] = s /\ io[p] = position

\* On to a stage; in a loop over features, to the feature f.
EnterAt(p, s, f) ==
    /\ stage' = [stage EXCEPT ![p] = s]
    /\ io' = [io EXCEPT ![p] = Starts(s, p)]
    /\ fid' = [fid EXCEPT ![p] = f]

Enter(p, s) == EnterAt(p, s, 1)

\* One half of a two-way exchange is over.
Half(p) ==
    /\ io' = [io EXCEPT ![p] = IF @ # Starts(stage[p], p) THEN "done"
                               ELSE IF @ = "send" THEN "recv" ELSE "send"]
    /\ UNCHANGED <<stage, fid>>

\* The call of p ends, and its local variables with it.
End(p, result) ==
    /\ results' = [results EXCEPT ![p] = Append(@, result)]
    /\ Enter(p, "idle")
    /\ stash_size' = [stash_size EXCEPT ![p] = 0]
    /\ output_shares' = [output_shares EXCEPT ![p] = <<>>]
    /\ IF p = "sender"
       THEN /\ hint_table' = <<>> /\ contents' = <<>>
            /\ UNCHANGED <<cuckoo_table, opened, hint_features>>
       ELSE /\ cuckoo_table' = <<>> /\ opened' = {} /\ hint_features' = <<>>
            /\ UNCHANGED <<hint_table, contents>>

Throw(p, table) == End(p, [threw |-> table])

-----------------------------------------------------------------------------
(* Two-way exchanges: the comparisons and the set-up of init, and the two  *)
(* operations of the MPC engine.  Of these the sender gets a random share, *)
(* which it lets the engine know, and the receiver the rest.               *)

\* The block p contributes to the seed.
Block(p) == IF p = "sender" THEN 1 ELSE 2

\* What p may write.
Offers(p) ==
    CASE stage[p] \in Range(Checked) -> {params[p][stage[p]]}
      [] stage[p] = "equal" /\ p = "sender" -> {r % 2 : r \in Randoms}
      [] stage[p] = "multiplexer" /\ p = "sender" ->
            [input : {contents[fid[p]]}, share : Randoms]
      [] OTHER -> {Block(p)}

Size(s) == IF s \in Range(Checked) THEN Words(1) ELSE Bytes(s)

SendValue(p) ==
    /\ stage[p] \in TwoWay /\ io[p] = "send"
    /\ \E value \in Offers(p) :
          /\ Post(p, Size(stage[p]), value)
          /\ sent' = [sent EXCEPT ![p] = value]
    /\ Half(p)
    /\ UNCHANGED <<params, calls, results, remote, peer_size, common_prng, locals>>

RecvValue(p) ==
    /\ stage[p] \in TwoWay /\ io[p] = "recv"
    /\ Take(p, Size(stage[p]))
    /\ remote' = [remote EXCEPT ![p] = Head(chan[p]).value]
    /\ Half(p)
    /\ UNCHANGED <<params, calls, results, sent, peer_size, common_prng, locals>>

-----------------------------------------------------------------------------
(* init                                                                    *)

\* Mutant of CheckParam: only the sender compares.
CheckParamBySender(p) ==
    /\ \E k \in DOMAIN Checked :
          /\ At(p, Checked[k], "done")
          /\ Enter(p, IF params[p][Checked[k]] # remote[p] /\ p = "sender" THEN "threw"
                      ELSE IF k < Len(Checked) THEN Checked[k + 1] ELSE "seed")
    /\ UNCHANGED <<params, calls, results, values, common_prng, locals, chan>>

\* check_consistency of each parameter in turn; a disagreement throws.
CheckParam(p) ==
    /\ \E k \in DOMAIN Checked :
          /\ At(p, Checked[k], "done")
          /\ Enter(p, IF params[p][Checked[k]] # remote[p] THEN "threw"
                      ELSE IF k < Len(Checked) THEN Checked[k + 1] ELSE "seed")
    /\ UNCHANGED <<params, calls, results, values, common_prng, locals, chan>>

\* The exclusive or of the two blocks seeds the common stream.
CreateCommonPrng(p) ==
    /\ At(p, "seed", "done")
    /\ common_prng' = [common_prng EXCEPT ![p].seed = {Block(p), remote[p]}]
    /\ Enter(p, "base_ot")
    /\ UNCHANGED <<params, calls, results, values, locals, chan>>

\* The base transfers, and then the MPC engine's set-up.
FinishInit(p) ==
    /\ \/ At(p, "base_ot", "done") /\ Enter(p, "mpc")
       \/ At(p, "mpc", "done") /\ Enter(p, "idle")
    /\ UNCHANGED <<params, calls, results, values, common_prng, locals, chan>>

-----------------------------------------------------------------------------
(* process: sizes and hash tables.                                         *)

Process(p) ==
    /\ stage[p] = "idle" /\ Number(p) < MaxCalls
    /\ \E call \in Calls[p] : calls' = [calls EXCEPT ![p] = Append(@, call)]
    /\ Enter(p, "receiver_data")
    /\ UNCHANGED <<params, results, values, common_prng, locals, chan>>

AfterSize(s) ==
    CASE s = "receiver_data" -> "receiver_features"
      [] s = "receiver_features" -> "sender_data"
      [] s = "sender_data" -> "sender_features"
      [] s = "sender_features" -> "hash"

SendSize(p) ==
    /\ stage[p] \in Sizes /\ io[p] = "send"
    /\ Post(p, Words(1), IF stage[p] \in {"receiver_data", "sender_data"}
                         THEN Len(Current(p).keys)
                         ELSE Len(Current(p).features))
    /\ Enter(p, AfterSize(stage[p]))
    /\ UNCHANGED <<params, calls, results, values, common_prng, locals>>

RecvSize(p) ==
    LET size == Head(chan[p]).value IN
    /\ stage[p] \in Sizes /\ io[p] = "recv"
    /\ Take(p, Words(1))
    /\ peer_size' =
          IF stage[p] \in {"receiver_data", "sender_data"}
          THEN [peer_size EXCEPT ![p].data = size]
          ELSE [peer_size EXCEPT ![p].features = size]
    /\ Enter(p, AfterSize(stage[p]))
    /\ UNCHANGED <<params, calls, results, sent, remote, common_prng, locals>>

\* The sender puts each key in a bin for every hash function.
SimpleHash ==
    /\ stage["sender"] = "hash"
    /\ Draw("sender")
    /\ Enter("sender", "stash")
    /\ UNCHANGED <<params, calls, results, values, locals, chan>>

\* The mask of an item: the key, the hash function that put it in its bin, and
\* the seed of the table, which settles the bin.  Masks are equal if these are.
Mask(seed, function, key) == [seed |-> seed, function |-> function, key |-> key]

\* Cuckoo hashing puts every key in a bin of its own.
Placements(size, functions, bins) ==
    {table \in [1..size -> [bin : 1..bins, function : 1..functions]] :
        \A i, j \in 1..size : table[i].bin = table[j].bin => i = j}

\* The receiver fills the first table, or fails to.
CuckooHash ==
    LET p == "receiver" IN
    /\ stage[p] = "hash"
    /\ Draw(p)
    /\ \/ /\ \E placement \in
                Placements(Len(Current(p).keys), params[p].num_of_fun, Bins(p)) :
                cuckoo_table' = [i \in DOMAIN placement |->
                   [bin |-> placement[i].bin,
                    mask |-> Mask(common_prng'[p], placement[i].function,
                                  Current(p).keys[i])]]
          /\ stash_size' = [stash_size EXCEPT ![p] = 0]
       \/ /\ stash_size' = [stash_size EXCEPT ![p] = 1]
          /\ UNCHANGED cuckoo_table
    /\ Enter(p, "stash")
    /\ UNCHANGED <<params, calls, results, values, hint_table, contents, opened,
                   hint_features, output_shares, chan>>

\* Mutant of SendStashSize: the receiver throws without a word.
SendStashSizeSilent ==
    LET p == "receiver" IN
    /\ At(p, "stash", "send")
    /\ IF stash_size[p] > 0 THEN Throw(p, "stash") /\ UNCHANGED chan
       ELSE /\ Post(p, Words(1), stash_size[p])
            /\ Enter(p, "ot")
            /\ UNCHANGED <<results, locals>>
    /\ UNCHANGED <<params, calls, values, common_prng>>

SendStashSize ==
    LET p == "receiver" IN
    /\ At(p, "stash", "send")
    /\ Post(p, Words(1), stash_size[p])
    /\ IF stash_size[p] > 0 THEN Throw(p, "stash")
       ELSE Enter(p, "ot") /\ UNCHANGED <<results, locals>>
    /\ UNCHANGED <<params, calls, values, common_prng>>

\* Mutant of RecvStashSize: the sender's second seed is drawn before it reads.
RecvStashSizeDrawFirst ==
    LET p == "sender" IN
    /\ At(p, "stash", "recv")
    /\ Take(p, Words(1))
    /\ IF Head(chan[p]).value > 0 THEN Throw(p, "stash") /\ Draw(p)
       ELSE Enter(p, "ot") /\ UNCHANGED <<results, common_prng, locals>>
    /\ UNCHANGED <<params, calls, values>>

\* Mutant of RecvStashSize: the sender goes on whatever it reads.
RecvStashSizeIgnored ==
    LET p == "sender" IN
    /\ At(p, "stash", "recv")
    /\ Take(p, Words(1))
    /\ Enter(p, "ot")
    /\ UNCHANGED <<params, calls, results, values, common_prng, locals>>

RecvStashSize ==
    LET p == "sender" IN
    /\ At(p, "stash", "recv")
    /\ Take(p, Words(1))
    /\ IF Head(chan[p]).value > 0 THEN Throw(p, "stash")
       ELSE Enter(p, "ot") /\ UNCHANGED <<results, locals>>
    /\ UNCHANGED <<params, calls, values, common_prng>>

\* The transfers, one a bin: the receiver's choices go to the sender.
OtReceive ==
    /\ At("receiver", "ot", "send")
    /\ Post("receiver", [unit |-> "ot", number |-> Bins("receiver")], 0)
    /\ Enter("receiver", "hint_stash")
    /\ UNCHANGED <<params, calls, results, values, common_prng, locals>>

OtSend ==
    /\ At("sender", "ot", "recv")
    /\ Take("sender", [unit |-> "ot", number |-> Bins("sender")])
    /\ Enter("sender", "hint_hash")
    /\ UNCHANGED <<params, calls, results, values, common_prng, locals>>

\* The masks of all items in the sender's first table.
ItemMasks ==
    {Mask(common_prng["sender"], f, key) :
        f \in 1..params["sender"].num_of_fun, key \in Range(Current("sender").keys)}

\* The sender draws a second seed and fills the second table, or fails to.
HintHash ==
    LET p == "sender" IN
    /\ stage[p] = "hint_hash"
    /\ Draw(p)
    /\ \/ /\ Cardinality(ItemMasks) <= HintBins(p)
          /\ hint_table' \in [ItemMasks -> 1..params[p].num_of_fun_hint]
          /\ stash_size' = [stash_size EXCEPT ![p] = 0]
       \/ /\ HintMayFail
          /\ stash_size' = [stash_size EXCEPT ![p] = 1]
          /\ UNCHANGED hint_table
    /\ Enter(p, "hint_stash")
    /\ UNCHANGED <<params, calls, results, values, cuckoo_table, contents, opened,
                   hint_features, output_shares, chan>>

SendHintStashSize ==
    LET p == "sender" IN
    /\ At(p, "hint_stash", "send")
    /\ Post(p, Words(1), stash_size[p])
    /\ IF stash_size[p] > 0 THEN Throw(p, "hint_stash")
       ELSE Enter(p, "hint") /\ UNCHANGED <<results, locals>>
    /\ UNCHANGED <<params, calls, values, common_prng>>

\* A receiver that throws here has not drawn the second seed.
RecvHintStashSize ==
    LET p == "receiver" IN
    /\ At(p, "hint_stash", "recv")
    /\ Take(p, Words(1))
    /\ IF Head(chan[p]).value > 0 THEN Throw(p, "hint_stash")
       ELSE Enter(p, "hint") /\ UNCHANGED <<results, locals>>
    /\ UNCHANGED <<params, calls, values, common_prng>>

-----------------------------------------------------------------------------
(* process: hints, comparison, features.                                   *)

HasFeatures(p) == FeatureSize(p, "sender") > 0

\* The second table's bins: the hint of each item opens under the item's mask,
\* with the hint function that placed it there, if the seed is the same.
SendHint ==
    LET p == "sender" IN
    /\ At(p, "hint", "send")
    /\ Post(p, Words(HintBins(p)),
            [seed |-> common_prng[p], entries |-> hint_table])
    /\ Enter(p, IF HasFeatures(p) THEN "feature_hint" ELSE "equal")
    /\ UNCHANGED <<params, calls, results, values, common_prng, locals>>

\* The receiver draws the second seed, and tries every hint function on every
\* key.
RecvHint ==
    LET p == "receiver"
        hint == Head(chan[p]).value
        opens(mask, f) == /\ hint.seed = common_prng'[p]
                          /\ mask \in DOMAIN hint.entries
                          /\ hint.entries[mask] = f
    IN
    /\ At(p, "hint", "recv")
    /\ Take(p, Words(HintBins(p)))
    /\ Draw(p)
    /\ opened' = {o \in (DOMAIN cuckoo_table) \X (1..params[p].num_of_fun_hint) :
                     opens(cuckoo_table[o[1]].mask, o[2])}
    /\ Enter(p, IF HasFeatures(p) THEN "feature_hint" ELSE "equal")
    /\ UNCHANGED <<params, calls, results, values, tables, contents,
                   hint_features, output_shares>>

\* After the feature f of the sender comes the next, or a new stage.
NextFeature(p, s, f, after) ==
    IF f < FeatureSize(p, "sender") THEN EnterAt(p, s, f + 1) ELSE Enter(p, after)

\* Mutant of Hidden: the difference does not wrap around.
HiddenSigned(feature, content) == feature - content

\* What the hints of a feature hold.
Hidden(feature, content) == (feature - content) % Modulus

\* The sender keeps a random content of a feature and hints at the rest.
SendFeatureHint ==
    LET p == "sender"
        feature(key) == LET i == CHOOSE i \in DOMAIN Current(p).keys :
                                    Current(p).keys[i] = key
                        IN Current(p).features[fid[p]][i]
    IN
    /\ At(p, "feature_hint", "send")
    /\ \E content \in Randoms :
          /\ contents' = Append(contents, content)
          /\ Post(p, Words(HintBins(p)),
                  [mask \in DOMAIN hint_table |-> Hidden(feature(mask.key), content)])
    /\ NextFeature(p, "feature_hint", fid[p], "equal")
    /\ UNCHANGED <<params, calls, results, values, common_prng, tables, opened,
                   hint_features, output_shares>>

RecvFeatureHint ==
    LET p == "receiver"
        hint == Head(chan[p]).value
    IN
    /\ At(p, "feature_hint", "recv")
    /\ Take(p, Words(HintBins(p)))
    /\ hint_features' = Append(hint_features,
                           [o \in opened |-> hint[cuckoo_table[o[1]].mask]])
    /\ NextFeature(p, "feature_hint", fid[p], "equal")
    /\ UNCHANGED <<params, calls, results, values, common_prng, tables, contents,
                   opened, output_shares>>

\* What the receiver opened in a bin.
OpenedIn(bin) == {o \in opened : cuckoo_table[o[1]].bin = bin}

\* Mutant of Equal: the sender takes its share of one comparison for that of all.
EqualOnce(p) ==
    [b \in 1..Bins(p) |->
        IF p = "sender" THEN sent[p]
        ELSE (params[p].num_of_fun_hint * remote[p] + Cardinality(OpenedIn(b))) % 2]

\* The first column: in each bin, the shares of the comparisons under every
\* hint function, added up.
Equal(p) ==
    [b \in 1..Bins(p) |->
        (params[p].num_of_fun_hint * (IF p = "sender" THEN sent[p] ELSE remote[p])
          + IF p = "sender" THEN 0 ELSE Cardinality(OpenedIn(b))) % 2]

\* Mutant of Multiplexer: the receiver's share is added, not subtracted.
MultiplexerNoCarry(p) ==
    LET fun == params[p].num_of_fun_hint
        whole(o) == hint_features[fid[p]][o] + remote[p].input
    IN
    [b \in 1..Bins(p) |->
        IF p = "sender" THEN (fun * sent[p].share) % Modulus
        ELSE (MapThenSumSet(whole, OpenedIn(b)) - remote[p].share) % Modulus]

\* The column of a feature: the feature where the comparison held, which is
\* what the two parties hold of it added up, and zero elsewhere; a share for
\* every hint function.
Multiplexer(p) ==
    LET fun == params[p].num_of_fun_hint
        whole(o) == hint_features[fid[p]][o] + remote[p].input
    IN
    [b \in 1..Bins(p) |->
        IF p = "sender" THEN (fun * sent[p].share) % Modulus
        ELSE (MapThenSumSet(whole, OpenedIn(b)) - fun * remote[p].share) % Modulus]

\* The columns of the receiver's features, in the bins with a key: all of it is
\* the receiver's share.
ReceiverFeatures(p) ==
    [k \in 1..FeatureSize(p, "receiver") |->
        [b \in 1..Bins(p) |->
            LET at == {i \in DOMAIN cuckoo_table : cuckoo_table[i].bin = b} IN
            IF p = "sender" \/ at = {} THEN 0
            ELSE Current(p).features[k][CHOOSE i \in at : TRUE]]]

\* A column is complete: on to the next feature, or to the result.
AddColumn(p, column, last) ==
    IF last
    THEN End(p, [columns |-> Append(output_shares[p], column) \o ReceiverFeatures(p)])
    ELSE /\ output_shares' = [output_shares EXCEPT ![p] = Append(@, column)]
         /\ EnterAt(p, "multiplexer", Len(output_shares[p]) + 1)
         /\ UNCHANGED <<results, tables, contents, opened, hint_features>>

EqualDone(p) ==
    /\ At(p, "equal", "done")
    /\ AddColumn(p, Equal(p), ~HasFeatures(p))
    /\ UNCHANGED <<params, calls, values, common_prng, chan>>

MultiplexerDone(p) ==
    /\ At(p, "multiplexer", "done")
    /\ AddColumn(p, Multiplexer(p), fid[p] = FeatureSize(p, "sender"))
    /\ UNCHANGED <<params, calls, values, common_prng, chan>>

-----------------------------------------------------------------------------
SenderStep == SimpleHash \/ RecvStashSize \/ OtSend \/ HintHash
                \/ SendHintStashSize \/ SendHint \/ SendFeatureHint

ReceiverStep == CuckooHash \/ SendStashSize \/ OtReceive \/ RecvHintStashSize
                  \/ RecvHint \/ RecvFeatureHint

\* What p does on its own once init or a call is under way.
Step(p) ==
    \/ SendValue(p) \/ RecvValue(p)
    \/ CheckParam(p) \/ CreateCommonPrng(p) \/ FinishInit(p)
    \/ SendSize(p) \/ RecvSize(p)
    \/ p = "sender" /\ SenderStep
    \/ p = "receiver" /\ ReceiverStep
    \/ EqualDone(p) \/ MultiplexerDone(p)

Next == \E p \in Party : Process(p) \/ Step(p)

Spec == Init /\ [][Next]_vars

\* A thread inside init or a call keeps running; whether the caller calls
\* again is its own choice.
FairSpec == Spec /\ \A p \in Party : WF_vars(Step(p))

\* The session is over on both sides.  With this the only way to stop, a
\* deadlock is two parties waiting for each other.
Terminated ==
    /\ \/ \A p \in Party : stage[p] = "threw"
       \/ \A p \in Party : stage[p] = "idle" /\ Number(p) = MaxCalls
    /\ UNCHANGED vars

TerminatingSpec == Init /\ [][Next \/ Terminated]_vars

-----------------------------------------------------------------------------
(* Properties.                                                             *)

\* The session as its users see it.
Ideal == INSTANCE JoinIdeal WITH
    agreed <- params["sender"] = params["receiver"],
    status <- [p \in Party |->
                 CASE stage[p] \in Range(Checked) \cup {"seed", "base_ot", "mpc"} -> "init"
                   [] stage[p] = "threw" -> "threw"
                   [] OTHER -> "open"]

Threw(result) == result \in Ideal!Thrown

Prng == [seed : SUBSET (Nat \ {0}), draws : Nat]
Masks == [seed : Prng, function : Nat \ {0}, key : Keys]

\* Every variable has the type its C++ counterpart gives it; a hint is opened
\* by at most one hint function.
TypeOK ==
    /\ params \in [Party -> Params]
    /\ \A p \in Party : \A n \in DOMAIN calls[p] : calls[p][n] \in Calls[p]
    /\ \A p \in Party : \A n \in DOMAIN results[p] :
          Threw(results[p][n]) \/ results[p][n].columns \in Seq(Seq(Word))
    /\ stage \in [Party -> TwoWay \cup OneWay \cup Rest]
    /\ io \in [Party -> {"send", "recv", "done", "none"}]
    /\ fid \in [Party -> Nat \ {0}]
    /\ peer_size \in [Party -> [data : Nat, features : Nat]]
    /\ common_prng \in [Party -> Prng]
    /\ cuckoo_table \in Seq([bin : Nat \ {0}, mask : Masks])
    /\ \A mask \in DOMAIN hint_table : mask \in Masks /\ hint_table[mask] \in Nat \ {0}
    /\ stash_size \in [Party -> Nat]
    /\ contents \in Seq(Randoms)
    /\ opened \subseteq (DOMAIN cuckoo_table) \X (Nat \ {0})
    /\ \A o1, o2 \in opened : o1[1] = o2[1] => o1 = o2
    /\ \A k \in DOMAIN hint_features : hint_features[k] \in [opened -> Word]
    /\ output_shares \in [Party -> Seq(Seq(Word))]

\* What a read asks for is what comes next: each size as that size, the hints
\* of each feature as those of that feature, and all of the agreed length.
WireSync ==
    \A p \in Party : io[p] = "recv" /\ chan[p] # <<>> =>
        LET m == Head(chan[p]) IN
        /\ m.is = stage[p] /\ m.fid = fid[p]
        /\ stage[p] = "ot" => m.width.number = Bins(p)
        /\ stage[p] \in {"hint", "feature_hint"} => m.width.number = HintBins(p)

\* The number of calls, among the first n of p, that gave up on the table.
Failures(p, table, n) ==
    Cardinality({k \in 1..n : results[p][k] = [threw |-> table]})

\* When both have ended the same calls, in a result or an exception, no byte is
\* left in the network, and the common streams are at the same place unless a
\* second table has failed: each such failure puts the sender one draw ahead.
ReadyForNext ==
    (/\ \A p \in Party : stage[p] = "idle"
     /\ Number("sender") = Number("receiver"))
    => /\ \A p \in Party : chan[p] = <<>>
       /\ common_prng["sender"].seed = common_prng["receiver"].seed
       /\ common_prng["sender"].draws = common_prng["receiver"].draws
             + Failures("sender", "hint_stash", Number("sender"))

\* Both have returned from the n-th call.
Finished(n) ==
    \A p \in Party : n \in DOMAIN results[p] /\ ~Threw(results[p][n])

\* The shares of the n-th call make the join of what the two called with.
SharesOfJoin(n) ==
    LET mine == results["sender"][n].columns
        theirs == results["receiver"][n].columns
    IN
    /\ Ideal!SameShape(mine, theirs)
    /\ Ideal!IsJoin(Ideal!Combine(mine, theirs),
                    calls["sender"][n], calls["receiver"][n])

\* As long as no second table has failed, calls that return give shares of the
\* join: a bit for each key of the receiver, the sender's features where it has
\* the key, the receiver's features, and zeros.
SharesCorrect ==
    \A n \in 1..MaxCalls :
        Finished(n) /\ Failures("sender", "hint_stash", n - 1) = 0 => SharesOfJoin(n)

\* If init throws on one side, the other throws or is still at the parameter the
\* two disagree on; and every call that throws does so on both, for the same
\* table.
ThrowAgreement ==
    /\ \A p \in Party : stage[p] = "threw" =>
          LET q == Peer(p) IN
          \/ stage[q] = "threw"
          \/ stage[q] \in Range(Checked) /\ params[p][stage[q]] # params[q][stage[q]]
    /\ \A n \in DOMAIN results["sender"] \cap DOMAIN results["receiver"] :
          \/ results["sender"][n] = results["receiver"][n]
          \/ Finished(n)

\* pjc.h:51 says of process: "Performs intersection and stores secret shares in
\* output shares for both parties."  So does a call after one that threw.
SharesAlwaysCorrect == \A n \in 1..MaxCalls : Finished(n) => SharesOfJoin(n)

\* Seen from outside, a session opens or throws, and its calls end, as JoinIdeal
\* says, as long as no second table fails: the n-th calls of the two end alike, in
\* shares of a join or in an exception, and every call both have made does end.
ImplementsIdeal == Ideal!Spec
=============================================================================
