-------------------------- MODULE CircuitPSI_proofs --------------------------
(***************************************************************************)
(* How a channel of CircuitPSI that holds the messages between its two     *)
(* ends goes on doing so; which message a read finds; that what a party    *)
(* knows of the other lasts; and that the steps with the hash tables, the  *)
(* transfers, the stashes, the hints and the sizes keep the invariant.     *)
(***************************************************************************)
EXTENDS CircuitPSI_inv, FiniteSetTheorems, SequenceTheorems, TLAPS

LEMMA TwoParties ==
    /\ S \in Party /\ R \in Party /\ S # R /\ Peer(S) = R /\ Peer(R) = S
    /\ \A p \in Party : /\ Peer(p) \in Party /\ Peer(p) # p /\ Peer(Peer(p)) = p
                        /\ \A q \in Party : q = p \/ q = Peer(p)
                        /\ p = S \/ p = R
BY DEF Party, Peer, S, R

LEMMA CheckedIs ==
    /\ DOMAIN Checked = 1..4 /\ Len(Checked) = 4
    /\ Checked[1] = "epsilon" /\ Checked[2] = "epsilon_hint"
    /\ Checked[3] = "num_of_fun" /\ Checked[4] = "num_of_fun_hint"
    /\ Range(Checked) = {"epsilon", "epsilon_hint", "num_of_fun", "num_of_fun_hint"}
    /\ \A k \in DOMAIN Checked : k \in {1, 2, 3, 4}
<1>1. /\ DOMAIN Checked = 1..4 /\ Len(Checked) = 4
      /\ Checked[1] = "epsilon" /\ Checked[2] = "epsilon_hint"
      /\ Checked[3] = "num_of_fun" /\ Checked[4] = "num_of_fun_hint"
  BY DEF Checked
<1>2. 1..4 = {1, 2, 3, 4}
  OBVIOUS
<1>3. Range(Checked) = {Checked[1], Checked[2], Checked[3], Checked[4]}
  BY <1>1, <1>2 DEF Range
<1> QED
  BY <1>1, <1>2, <1>3

LEMMA InitStages ==
    InInit = {"epsilon", "epsilon_hint", "num_of_fun", "num_of_fun_hint", "seed",
              "base_ot", "mpc"}
BY CheckedIs DEF InInit

LEMMA ThrewIs ==
    /\ \A result : Threw(result) <=> result = Stashed \/ result = HintStashed
    /\ Stashed # HintStashed
    /\ \A columns : ~Threw([columns |-> columns])
<1>1. \A result : Threw(result) <=> result = Stashed \/ result = HintStashed
  BY DEF Threw, Ideal!Thrown, Stashed, HintStashed
<1>2. Stashed # HintStashed
  <2>1. Stashed.threw = "stash" /\ HintStashed.threw = "hint_stash"
    BY DEF Stashed, HintStashed
  <2> QED
    BY <2>1
<1>3. ASSUME NEW columns PROVE ~Threw([columns |-> columns])
  <2>1. DOMAIN [columns |-> columns] = {"columns"} /\ DOMAIN Stashed = {"threw"}
        /\ DOMAIN HintStashed = {"threw"}
    BY DEF Stashed, HintStashed
  <2>2. [columns |-> columns] # Stashed /\ [columns |-> columns] # HintStashed
    BY <2>1
  <2> QED
    BY <1>1, <2>2
<1> QED
  BY <1>1, <1>2, <1>3

-----------------------------------------------------------------------------
(* Lengths and numbers.                                                    *)

LEMMA Numbers ==
    ASSUME AreSequences, NEW p \in Party
    PROVE  /\ Number(p) \in Nat /\ DOMAIN calls[p] = 1..Number(p)
           /\ Len(results[p]) \in Nat /\ DOMAIN results[p] = 1..Len(results[p])
           /\ Len(chan[p]) \in Nat /\ DOMAIN chan[p] = 1..Len(chan[p])
           /\ \A n \in DOMAIN calls[p] : calls[p][n] \in Calls[p]
<1>1. /\ calls[p] \in Seq(Calls[p]) /\ results[p] \in Seq(Range(results[p]))
      /\ chan[p] \in Seq(Range(chan[p]))
  BY DEF AreSequences
<1> QED
  BY <1>1, LenProperties, ElementOfSeq DEF Number

\* What a party calls with.
LEMMA CallIs ==
    ASSUME NEW p \in Party, NEW call \in Calls[p]
    PROVE  /\ call.keys \in Seq(Keys) /\ Len(call.keys) \in Nat
           /\ DOMAIN call.keys = 1..Len(call.keys)
           /\ \A i, j \in DOMAIN call.keys : call.keys[i] = call.keys[j] => i = j
           /\ call.features \in Seq([DOMAIN call.keys -> Word])
           /\ Len(call.features) \in Nat
           /\ p = R => Len(call.keys) # 0
<1>1. WellFormed(call) /\ (p = R => call.keys # <<>>)
  BY CircuitCallsAssumption DEF R
<1>2. /\ call.keys \in Seq(Keys) /\ IsInjective(call.keys)
      /\ call.features \in Seq([DOMAIN call.keys -> Word])
  BY <1>1 DEF WellFormed
<1>3. p = R => Len(call.keys) # 0
  BY <1>1, <1>2
<1> QED
  BY <1>2, <1>3, LenProperties DEF IsInjective

\* Where a party is in its sequence of calls.
LEMMA CallNumber ==
    ASSUME CircuitInv, NEW p \in Party
    PROVE  /\ Number(p) \in Nat /\ Number(p) <= MaxCalls
           /\ DOMAIN calls[p] = 1..Number(p)
           /\ Len(results[p]) \in Nat /\ DOMAIN results[p] = 1..Len(results[p])
           /\ stage[p] \in InCall => Number(p) = Len(results[p]) + 1
           /\ stage[p] \notin InCall => Number(p) = Len(results[p])
           /\ DOMAIN results[p] \subseteq DOMAIN calls[p]
           /\ stage[p] \in InCall => Number(p) \in DOMAIN calls[p]
                                     /\ Number(p) \notin DOMAIN results[p]
           /\ \A n \in DOMAIN results[p] : n \in Nat /\ n > 0 /\ n \in DOMAIN calls[Peer(p)]
<1>1. AreSequences /\ Control(p) /\ Ended
  BY DEF CircuitInv
<1>2. /\ Number(p) \in Nat /\ DOMAIN calls[p] = 1..Number(p)
      /\ Len(results[p]) \in Nat /\ DOMAIN results[p] = 1..Len(results[p])
  BY <1>1, Numbers
<1>3. /\ Number(p) <= MaxCalls
      /\ stage[p] \in InCall => Number(p) = Len(results[p]) + 1
      /\ stage[p] \notin InCall => Number(p) = Len(results[p])
  BY <1>1 DEF Control
<1>4. \A n \in DOMAIN results[p] : n \in DOMAIN calls[Peer(p)]
  BY <1>1 DEF Ended
<1> QED
  BY <1>2, <1>3, <1>4

-----------------------------------------------------------------------------
(* The messages from one end of a channel to the other.                    *)

\* What was sent to q stays what it is.
Lasting(q) == \A x, n, m : Carries(q, x, n, m) => Carries(q, x, n, m)'

\* Nothing happens to the channel.
LEMMA KeepOrder ==
    ASSUME NEW q \in Party, InOrder(q), Lasting(q),
           chan'[q] = chan[q], Last(q, q)' = Last(q, q),
           Last(q, Peer(q))' = Last(q, Peer(q))
    PROVE  InOrder(q)'
BY DEF InOrder, Lasting

\* What a channel in order holds: the place of the i-th message is places[i].
LEMMA ChainHas ==
    ASSUME NEW q \in Party, InOrder(q), Len(chan[q]) \in Nat
    PROVE  \E numbers \in [1..Len(chan[q]) -> 0..MaxCalls] : \E places :
              /\ places = [i \in 0..Len(chan[q]) |->
                              IF i = 0 THEN Last(q, q)
                              ELSE Place(numbers[i], chan[q][i].is, chan[q][i].fid)]
              /\ \A i \in 1..Len(chan[q]) : Carries(q, places[i - 1], numbers[i], chan[q][i])
              /\ places[Len(chan[q])] = Last(q, Peer(q))
<1>1. PICK len \in Nat : len = Len(chan[q])
  OBVIOUS
<1>2. PICK numbers \in [1..len -> 0..MaxCalls] :
         /\ \A i \in 1..len :
               Carries(q, IF i - 1 = 0 THEN Last(q, q)
                          ELSE Place(numbers[i - 1], chan[q][i - 1].is, chan[q][i - 1].fid),
                       numbers[i], chan[q][i])
         /\ (IF len = 0 THEN Last(q, q)
             ELSE Place(numbers[len], chan[q][len].is, chan[q][len].fid)) = Last(q, Peer(q))
  BY <1>1, Zenon DEF InOrder
<1>3. PICK places : places = [i \in 0..len |->
                                 IF i = 0 THEN Last(q, q)
                                 ELSE Place(numbers[i], chan[q][i].is, chan[q][i].fid)]
  OBVIOUS
<1>4. \A i \in 1..len : Carries(q, places[i - 1], numbers[i], chan[q][i])
  <2>1. ASSUME NEW i \in 1..len PROVE Carries(q, places[i - 1], numbers[i], chan[q][i])
    <3>1. i - 1 \in 0..len
      BY <1>1
    <3>2. places[i - 1] = IF i - 1 = 0 THEN Last(q, q)
                          ELSE Place(numbers[i - 1], chan[q][i - 1].is, chan[q][i - 1].fid)
      BY <1>3, <3>1
    <3> QED
      BY <1>2, <3>2
  <2> QED
    BY <2>1
<1>5. places[len] = Last(q, Peer(q))
  <2>1. len \in 0..len
    BY <1>1
  <2> QED
    BY <1>2, <1>3, <2>1
<1> QED
  BY <1>1, <1>3, <1>4, <1>5

\* What makes a channel be in order after a step.
LEMMA ChainIs ==
    ASSUME NEW q \in Party, NEW len \in Nat, Len(chan'[q]) = len,
           NEW numbers \in [1..len -> 0..MaxCalls],
           NEW places, places = [i \in 0..len |->
                                    IF i = 0 THEN Last(q, q)'
                                    ELSE Place(numbers[i], chan'[q][i].is, chan'[q][i].fid)],
           \A i \in 1..len : Carries(q, places[i - 1], numbers[i], chan[q][i])',
           places[len] = Last(q, Peer(q))'
    PROVE  InOrder(q)'
<1>2. ASSUME NEW i \in 1..len
      PROVE  Carries(q, IF i - 1 = 0 THEN Last(q, q)
                        ELSE Place(numbers[i - 1], chan[q][i - 1].is, chan[q][i - 1].fid),
                     numbers[i], chan[q][i])'
  <2>1. i - 1 \in 0..len
    OBVIOUS
  <2>2. places[i - 1] = IF i - 1 = 0 THEN Last(q, q)'
                        ELSE Place(numbers[i - 1], chan'[q][i - 1].is, chan'[q][i - 1].fid)
    BY <2>1
  <2>3. Carries(q, places[i - 1], numbers[i], chan[q][i])'
    OBVIOUS
  <2> QED
    BY <2>2, <2>3
<1>3. (IF len = 0 THEN Last(q, q)'
       ELSE Place(numbers[len], chan'[q][len].is, chan'[q][len].fid)) = Last(q, Peer(q))'
  <2>1. len \in 0..len
    OBVIOUS
  <2> QED
    BY <2>1
<1> QED
  BY <1>2, <1>3, Zenon DEF InOrder

\* A message goes in at the writer's end.
LEMMA SendOrder ==
    ASSUME NEW q \in Party, InOrder(q), Lasting(q), NEW T, chan[q] \in Seq(T), NEW m,
           chan'[q] = Append(chan[q], m), Last(q, q)' = Last(q, q),
           NEW n \in 0..MaxCalls,
           NEW before, before = Last(q, Peer(q)), Carries(q, before, n, m)',
           Last(q, Peer(q))' = Place(n, m.is, m.fid)
    PROVE  InOrder(q)'
<1>1. PICK len \in Nat : len = Len(chan[q])
  BY LenProperties
<1>2. PICK numbers \in [1..len -> 0..MaxCalls] : \E places :
              /\ places = [i \in 0..len |->
                              IF i = 0 THEN Last(q, q)
                              ELSE Place(numbers[i], chan[q][i].is, chan[q][i].fid)]
              /\ \A i \in 1..len : Carries(q, places[i - 1], numbers[i], chan[q][i])
              /\ places[len] = Last(q, Peer(q))
  BY <1>1, ChainHas
<1>3. PICK places :
              /\ places = [i \in 0..len |->
                              IF i = 0 THEN Last(q, q)
                              ELSE Place(numbers[i], chan[q][i].is, chan[q][i].fid)]
              /\ \A i \in 1..len : Carries(q, places[i - 1], numbers[i], chan[q][i])
              /\ places[len] = before
  BY <1>2
<1>4. /\ Len(chan'[q]) = len + 1
      /\ \A i \in 1..len : chan'[q][i] = chan[q][i]
      /\ chan'[q][len + 1] = m
  BY <1>1
<1>5. PICK more : more = [i \in 1..(len + 1) |-> IF i = len + 1 THEN n ELSE numbers[i]]
  OBVIOUS
<1>6. /\ more \in [1..(len + 1) -> 0..MaxCalls] /\ more[len + 1] = n
      /\ \A i \in 1..len : more[i] = numbers[i]
  BY <1>5
<1>7. PICK after : after = [i \in 0..(len + 1) |->
                               IF i = 0 THEN Last(q, q)'
                               ELSE Place(more[i], chan'[q][i].is, chan'[q][i].fid)]
  OBVIOUS
<1>8. \A i \in 0..len : after[i] = places[i]
  <2>1. ASSUME NEW i \in 0..len PROVE after[i] = places[i]
    <3>1. i \in 0..(len + 1)
      OBVIOUS
    <3>2. CASE i = 0
      BY <1>3, <1>7, <3>1, <3>2
    <3>3. CASE i # 0
      <4>1. i \in 1..len
        BY <3>3
      <4> QED
        BY <1>3, <1>4, <1>6, <1>7, <3>1, <3>3, <4>1
    <3> QED
      BY <3>2, <3>3
  <2> QED
    BY <2>1
<1>9. after[len + 1] = Place(n, m.is, m.fid)
  <2>1. len + 1 \in 0..(len + 1) /\ len + 1 # 0
    OBVIOUS
  <2> QED
    BY <1>4, <1>6, <1>7, <2>1
<1>10. ASSUME NEW i \in 1..(len + 1)
       PROVE  Carries(q, after[i - 1], more[i], chan[q][i])'
  <2>1. i - 1 \in 0..len
    OBVIOUS
  <2>2. after[i - 1] = places[i - 1]
    BY <1>8, <2>1
  <2>3. CASE i = len + 1
    <3>1. after[i - 1] = before /\ more[i] = n /\ chan'[q][i] = m
      BY <1>3, <1>4, <1>6, <2>2, <2>3
    <3> QED
      BY <3>1
  <2>4. CASE i # len + 1
    <3>1. i \in 1..len
      BY <2>4
    <3>2. PICK was : was = chan[q][i]
      OBVIOUS
    <3>3. Carries(q, places[i - 1], numbers[i], was)'
      BY <1>3, <3>1, <3>2 DEF Lasting
    <3>4. chan'[q][i] = was /\ more[i] = numbers[i]
      BY <1>4, <1>6, <3>1, <3>2
    <3> QED
      BY <2>2, <3>3, <3>4
  <2> QED
    BY <2>3, <2>4
<1>11. len + 1 \in Nat /\ after[len + 1] = Last(q, Peer(q))'
  BY <1>9
<1> QED
  BY <1>4, <1>6, <1>7, <1>10, <1>11, ChainIs

\* A message is taken out at the reader's end.
LEMMA ReadOrder ==
    ASSUME NEW q \in Party, InOrder(q), Lasting(q), NEW T, chan[q] \in Seq(T),
           chan[q] # <<>>, chan'[q] = Tail(chan[q]),
           NEW m, m = Head(chan[q]),
           Last(q, Peer(q))' = Last(q, Peer(q)),
           \A n \in 0..MaxCalls : Carries(q, Last(q, q), n, m) =>
                                     Last(q, q)' = Place(n, m.is, m.fid)
    PROVE  InOrder(q)'
<1>1. PICK len \in Nat \ {0} : len = Len(chan[q])
  BY LenProperties
<1>2. PICK numbers \in [1..len -> 0..MaxCalls] : \E places :
              /\ places = [i \in 0..len |->
                              IF i = 0 THEN Last(q, q)
                              ELSE Place(numbers[i], chan[q][i].is, chan[q][i].fid)]
              /\ \A i \in 1..len : Carries(q, places[i - 1], numbers[i], chan[q][i])
              /\ places[len] = Last(q, Peer(q))
  BY <1>1, ChainHas
<1>3. PICK places :
              /\ places = [i \in 0..len |->
                              IF i = 0 THEN Last(q, q)
                              ELSE Place(numbers[i], chan[q][i].is, chan[q][i].fid)]
              /\ \A i \in 1..len : Carries(q, places[i - 1], numbers[i], chan[q][i])
              /\ places[len] = Last(q, Peer(q))
  BY <1>2
<1>4. /\ Len(chan'[q]) = len - 1 /\ len - 1 \in Nat
      /\ \A i \in 1..(len - 1) : chan'[q][i] = chan[q][i + 1]
      /\ m = chan[q][1]
  BY <1>1
<1>5. PICK less : less = [i \in 1..(len - 1) |-> numbers[i + 1]]
  OBVIOUS
<1>6. less \in [1..(len - 1) -> 0..MaxCalls] /\ \A i \in 1..(len - 1) : less[i] = numbers[i + 1]
  BY <1>5
<1>7. PICK after : after = [i \in 0..(len - 1) |->
                               IF i = 0 THEN Last(q, q)'
                               ELSE Place(less[i], chan'[q][i].is, chan'[q][i].fid)]
  OBVIOUS
<1>8. Last(q, q)' = places[1]
  <2>1. Carries(q, places[1 - 1], numbers[1], chan[q][1]) /\ 1 \in 0..len /\ 0 \in 0..len
    BY <1>3
  <2>2. places[0] = Last(q, q) /\ places[1] = Place(numbers[1], m.is, m.fid)
    BY <1>3, <1>4, <2>1
  <2>3. Carries(q, Last(q, q), numbers[1], m)
    BY <1>4, <2>1, <2>2
  <2> QED
    BY <1>2, <2>2, <2>3
<1>9. \A i \in 0..(len - 1) : after[i] = places[i + 1]
  <2>1. ASSUME NEW i \in 0..(len - 1) PROVE after[i] = places[i + 1]
    <3>1. i + 1 \in 0..len /\ i + 1 # 0
      OBVIOUS
    <3>2. CASE i = 0
      BY <1>7, <1>8, <3>2
    <3>3. CASE i # 0
      <4>1. i \in 1..(len - 1)
        BY <3>3
      <4> QED
        BY <1>3, <1>4, <1>6, <1>7, <3>1, <3>3, <4>1
    <3> QED
      BY <3>2, <3>3
  <2> QED
    BY <2>1
<1>10. after[len - 1] = Last(q, Peer(q))'
  <2>1. len - 1 \in 0..(len - 1) /\ (len - 1) + 1 = len
    OBVIOUS
  <2>2. after[len - 1] = places[(len - 1) + 1]
    BY <1>9, <2>1
  <2> QED
    BY <1>3, <2>1, <2>2
<1>11. ASSUME NEW i \in 1..(len - 1)
       PROVE  Carries(q, after[i - 1], less[i], chan[q][i])'
  <2>1. i - 1 \in 0..(len - 1) /\ i + 1 \in 1..len
    OBVIOUS
  <2>2. after[i - 1] = places[i]
    BY SMTT(60), <1>9, <2>1
  <2>3. PICK was : was = chan[q][i + 1]
    OBVIOUS
  <2>4. Carries(q, places[i], numbers[i + 1], was)'
    <3>1. Carries(q, places[(i + 1) - 1], numbers[i + 1], was)
      BY <1>3, <2>1, <2>3
    <3> QED
      BY <3>1 DEF Lasting
  <2>5. chan'[q][i] = was /\ less[i] = numbers[i + 1]
    BY <1>4, <1>6, <2>3
  <2> QED
    BY <2>2, <2>4, <2>5
<1> QED
  BY <1>4, <1>6, <1>7, <1>10, <1>11, ChainIs

\* The message at the head of a channel follows the one its reader has read.
LEMMA HeadFollows ==
    ASSUME AreSequences, NEW q \in Party, InOrder(q), chan[q] # <<>>
    PROVE  \E n \in 0..MaxCalls : Carries(q, Last(q, q), n, Head(chan[q]))
<1>1. PICK len \in Nat \ {0} : len = Len(chan[q])
  BY LenProperties DEF AreSequences
<1>2. PICK numbers \in [1..len -> 0..MaxCalls] : \E places :
              /\ places = [i \in 0..len |->
                              IF i = 0 THEN Last(q, q)
                              ELSE Place(numbers[i], chan[q][i].is, chan[q][i].fid)]
              /\ \A i \in 1..len : Carries(q, places[i - 1], numbers[i], chan[q][i])
              /\ places[len] = Last(q, Peer(q))
  BY <1>1, ChainHas
<1>3. Carries(q, Last(q, q), numbers[1], chan[q][1])
  <2>1. 1 \in 1..len /\ 0 \in 0..len /\ 1 - 1 = 0
    BY <1>1
  <2> QED
    BY <1>2, <2>1
<1>4. Head(chan[q]) = chan[q][1]
  BY <1>1 DEF AreSequences
<1> QED
  BY <1>1, <1>2, <1>3, <1>4

-----------------------------------------------------------------------------
(* Places of messages.                                                     *)

LEMMA PlaceIs ==
    \A n, s, f, k, t, g : Place(n, s, f) = Place(k, t, g) <=> n = k /\ s = t /\ f = g
<1>1. ASSUME NEW n, NEW s, NEW f, NEW k, NEW t, NEW g, Place(n, s, f) = Place(k, t, g)
      PROVE  n = k /\ s = t /\ f = g
  <2>1. Place(n, s, f).call = Place(k, t, g).call /\ Place(n, s, f).is = Place(k, t, g).is
        /\ Place(n, s, f).fid = Place(k, t, g).fid
    BY <1>1
  <2> QED
    BY <2>1 DEF Place
<1> QED
  BY <1>1

\* The message before each, stage by stage.
LEMMA PreviousIs ==
    ASSUME NEW d \in Party, NEW p, NEW n, NEW f
    PROVE  /\ \A s \in InInit : Previous(d, p, n, s, f) = Place(0, InitBefore(s), 1)
           /\ Previous(d, p, n, "threw", f) = Place(0, FirstDifference, 1)
           /\ Previous(d, p, n, "idle", f) = LastOf(d, p, n)
           /\ Previous(d, p, n, "receiver_data", f) = LastOf(d, p, n - 1)
           /\ Previous(d, p, n, "multiplexer", f)
                = IF f = 1 THEN Place(n, "equal", 1) ELSE Place(n, "multiplexer", f - 1)
           /\ d = S =>
                /\ Previous(d, p, n, "receiver_features", f) = Place(n, "receiver_data", 1)
                /\ \A s \in {"sender_data", "sender_features", "hash", "stash"} :
                      Previous(d, p, n, s, f) = Place(n, "receiver_features", 1)
                /\ Previous(d, p, n, "ot", f) = Place(n, "stash", 1)
                /\ \A s \in {"hint_hash", "hint_stash", "hint", "feature_hint", "equal"} :
                      Previous(d, p, n, s, f) = Place(n, "ot", 1)
           /\ d = R =>
                /\ \A s \in {"receiver_features", "sender_data"} :
                      Previous(d, p, n, s, f) = LastOf(d, p, n - 1)
                /\ Previous(d, p, n, "sender_features", f) = Place(n, "sender_data", 1)
                /\ \A s \in {"hash", "stash", "ot", "hint_hash", "hint_stash"} :
                      Previous(d, p, n, s, f) = Place(n, "sender_features", 1)
                /\ Previous(d, p, n, "hint", f) = Place(n, "hint_stash", 1)
                /\ Previous(d, p, n, "feature_hint", f)
                     = IF f = 1 THEN Place(n, "hint", 1) ELSE Place(n, "feature_hint", f - 1)
                /\ Previous(d, p, n, "equal", f)
                     = IF Features(n) = 0 THEN Place(n, "hint", 1)
                       ELSE Place(n, "feature_hint", Features(n))
<1>1. \A s \in InInit : Previous(d, p, n, s, f) = Place(0, InitBefore(s), 1)
  BY InitStages DEF Previous
<1>2. /\ Previous(d, p, n, "threw", f) = Place(0, FirstDifference, 1)
      /\ Previous(d, p, n, "idle", f) = LastOf(d, p, n)
      /\ Previous(d, p, n, "receiver_data", f) = LastOf(d, p, n - 1)
  BY InitStages DEF Previous
<1>3. Previous(d, p, n, "multiplexer", f)
        = IF f = 1 THEN Place(n, "equal", 1) ELSE Place(n, "multiplexer", f - 1)
  BY InitStages DEF Previous
<1>4. ASSUME d = S
      PROVE  /\ Previous(d, p, n, "receiver_features", f) = Place(n, "receiver_data", 1)
             /\ \A s \in {"sender_data", "sender_features", "hash", "stash"} :
                      Previous(d, p, n, s, f) = Place(n, "receiver_features", 1)
             /\ Previous(d, p, n, "ot", f) = Place(n, "stash", 1)
             /\ \A s \in {"hint_hash", "hint_stash", "hint", "feature_hint", "equal"} :
                      Previous(d, p, n, s, f) = Place(n, "ot", 1)
  BY <1>4, InitStages, TwoParties DEF Previous, BeforeAtSender
<1>5. ASSUME d = R
      PROVE  /\ \A s \in {"receiver_features", "sender_data"} :
                      Previous(d, p, n, s, f) = LastOf(d, p, n - 1)
             /\ Previous(d, p, n, "sender_features", f) = Place(n, "sender_data", 1)
             /\ \A s \in {"hash", "stash", "ot", "hint_hash", "hint_stash"} :
                      Previous(d, p, n, s, f) = Place(n, "sender_features", 1)
             /\ Previous(d, p, n, "hint", f) = Place(n, "hint_stash", 1)
  BY <1>5, InitStages, TwoParties DEF Previous, BeforeAtReceiver
<1>6. ASSUME d = R
      PROVE  /\ Previous(d, p, n, "feature_hint", f)
                     = IF f = 1 THEN Place(n, "hint", 1) ELSE Place(n, "feature_hint", f - 1)
             /\ Previous(d, p, n, "equal", f)
                     = IF Features(n) = 0 THEN Place(n, "hint", 1)
                       ELSE Place(n, "feature_hint", Features(n))
  BY <1>6, InitStages, TwoParties DEF Previous
<1> QED
  BY <1>1, <1>2, <1>3, <1>4, <1>5, <1>6

LEMMA PreviousInInit ==
    ASSUME NEW d, NEW p, NEW n, NEW f, NEW s \in InInit
    PROVE  Previous(d, p, n, s, f) = Place(0, InitBefore(s), 1)
BY InitStages DEF Previous

\* The last message of a call, by how the call ended.
LEMMA LastOfIs ==
    ASSUME NEW d \in Party, NEW p \in Party, NEW n \in Nat
    PROVE  /\ LastOf(d, p, n).call = n
           /\ n = 0 => LastOf(d, p, n) = Place(0, "mpc", 1)
           /\ n # 0 => LastOf(d, p, n).is \in
                  {"stash", "sender_features", "ot", "hint_stash", "equal", "multiplexer"}
           /\ n # 0 /\ results[p][n] = Stashed =>
                 LastOf(d, p, n) = Place(n, IF d = S THEN "stash" ELSE "sender_features", 1)
           /\ n # 0 /\ results[p][n] = HintStashed =>
                 LastOf(d, p, n) = Place(n, IF d = S THEN "ot" ELSE "hint_stash", 1)
           /\ n # 0 /\ ~Threw(results[p][n]) =>
                 LastOf(d, p, n) = IF Features(n) = 0 THEN Place(n, "equal", 1)
                                   ELSE Place(n, "multiplexer", Features(n))
<1>1. n = 0 => LastOf(d, p, n) = Place(0, "mpc", 1)
  BY DEF LastOf
<1>2. /\ n # 0 /\ results[p][n] = Stashed =>
                 LastOf(d, p, n) = Place(n, IF d = S THEN "stash" ELSE "sender_features", 1)
      /\ n # 0 /\ results[p][n] = HintStashed =>
                 LastOf(d, p, n) = Place(n, IF d = S THEN "ot" ELSE "hint_stash", 1)
      /\ n # 0 /\ ~Threw(results[p][n]) =>
                 LastOf(d, p, n) = IF Features(n) = 0 THEN Place(n, "equal", 1)
                                   ELSE Place(n, "multiplexer", Features(n))
  BY ThrewIs DEF LastOf
<1>3. \A k, s, f : Place(k, s, f).call = k /\ Place(k, s, f).is = s
  BY DEF Place
<1>4. n # 0 => LastOf(d, p, n).call = n /\ LastOf(d, p, n).is \in
                  {"stash", "sender_features", "ot", "hint_stash", "equal", "multiplexer"}
  BY <1>2, <1>3, ThrewIs
<1> QED
  BY <1>1, <1>2, <1>3, <1>4

LEMMA InitBeforeIs ==
    \A s \in InInit :
        /\ InitBefore(s) # "mpc"
        /\ \A t \in InInit : InitBefore(s) = InitBefore(t) => s = t
BY InitStages DEF InitBefore

\* What follows the last message of a call is the first of the next.
LEMMA AfterCall ==
    ASSUME CircuitInv, NEW p \in Party, NEW k \in Nat, k = 0 \/ k \in DOMAIN results[p],
           NEW n, NEW m, Carries(p, LastOf(p, p, k), n, m)
    PROVE  /\ n = k + 1 /\ m.fid = 1
           /\ m.is = IF p = S THEN "receiver_data" ELSE "sender_data"
<1> DEFINE q == Peer(p)
<1>1. Says(p, n, m) /\ LastOf(p, p, k) = Previous(p, q, n, m.is, m.fid) /\ q \in Party
  BY TwoParties DEF Carries
<1>2. /\ m.is \in To(p)
      /\ m.is \in InInit => n = 0
      /\ m.is \notin InInit => n \in Nat /\ n # 0 /\ n \in DOMAIN calls[q]
      /\ m.is \notin {"feature_hint", "multiplexer"} => m.fid = 1
      /\ m.is \in {"feature_hint", "multiplexer"} => m.fid \in 1..Features(n)
  BY <1>1 DEF Says
<1>3. /\ m.is \in Placed => ThroughStash(n)
      /\ m.is \in Hinted => ThroughHint(n)
  BY <1>1 DEF Says
<1>4. k # 0 /\ results[p][k] = Stashed => ~ThroughStash(k)
  <2>1. p = S /\ k # 0 /\ results[p][k] = Stashed => results[R][k] = Stashed /\ k \in DOMAIN results[R]
    BY DEF CircuitInv, Ended
  <2> QED
    BY <2>1, TwoParties DEF ThroughStash
<1>5. k # 0 /\ results[p][k] = HintStashed => ~ThroughHint(k)
  <2>1. p = R /\ k # 0 /\ results[p][k] = HintStashed
                    => results[S][k] = HintStashed /\ k \in DOMAIN results[S]
    BY DEF CircuitInv, Ended
  <2> QED
    BY <2>1, TwoParties, ThrewIs DEF ThroughHint
<1>6. \A j \in Nat : LastOf(p, q, j).call = j
  BY <1>1, LastOfIs
<1>7. \A a, s, f : Place(a, s, f).call = a /\ Place(a, s, f).is = s /\ Place(a, s, f).fid = f
  BY DEF Place
<1>8. CASE m.is \in InInit
  <2>1. LastOf(p, p, k) = Place(0, InitBefore(m.is), 1)
    BY SMTT(60), <1>1, <1>8, PreviousIs
  <2>2. k = 0 /\ InitBefore(m.is) = "mpc"
    BY <1>7, <2>1, LastOfIs
  <2> QED
    BY <1>8, <2>2, InitBeforeIs
<1>9. CASE m.is = IF p = S THEN "receiver_data" ELSE "sender_data"
  <2>1. LastOf(p, p, k) = LastOf(p, q, n - 1)
    BY <1>1, <1>9, PreviousIs, TwoParties
  <2>2. n \in Nat /\ n # 0
    BY <1>2, <1>9, InitStages
  <2>3. n - 1 \in Nat /\ LastOf(p, p, k).call = k
    BY <2>2, LastOfIs
  <2> QED
    BY <1>2, <1>6, <1>9, <2>1, <2>2, <2>3
<1>10. CASE m.is \notin InInit /\ m.is # IF p = S THEN "receiver_data" ELSE "sender_data"
  <2>1. n \in Nat /\ n # 0
    BY <1>2, <1>10
  <2>2. p = S => m.is \in {"receiver_features", "stash", "ot", "equal", "multiplexer"}
    BY <1>2, <1>10 DEF To, Compared
  <2>3. p = R => m.is \in {"sender_features", "hint_stash", "hint", "feature_hint",
                           "equal", "multiplexer"}
    BY <1>2, <1>10, TwoParties DEF To, Compared
  <2>4. Previous(p, q, n, m.is, m.fid).call = n
    BY <1>7, <2>2, <2>3, PreviousIs, TwoParties
  <2>5. n = k
    BY <1>1, <2>4, LastOfIs
  <2>6. CASE results[p][k] = Stashed
    <3>1. LastOf(p, p, k).is = IF p = S THEN "stash" ELSE "sender_features"
      BY <1>7, <2>1, <2>5, <2>6, LastOfIs
    <3>2. m.is \in Placed
      BY <1>1, <1>7, <2>2, <2>3, <3>1, PreviousIs, TwoParties DEF Placed
    <3> QED
      BY <1>3, <1>4, <2>1, <2>5, <2>6, <3>2
  <2>7. CASE results[p][k] = HintStashed
    <3>1. LastOf(p, p, k).is = IF p = S THEN "ot" ELSE "hint_stash"
      BY <1>7, <2>1, <2>5, <2>7, LastOfIs
    <3>2. m.is \in Hinted
      BY <1>1, <1>7, <2>2, <2>3, <3>1, PreviousIs, TwoParties DEF Hinted, Compared
    <3> QED
      BY <1>3, <1>5, <2>1, <2>5, <2>7, <3>2
  <2>8. CASE ~Threw(results[p][k])
    <3>1. LastOf(p, p, k) = IF Features(k) = 0 THEN Place(k, "equal", 1)
                            ELSE Place(k, "multiplexer", Features(k))
      BY <2>1, <2>5, <2>8, LastOfIs
    <3>2. m.is = "multiplexer"
      <4>1. Previous(p, q, n, m.is, m.fid).is \in {"equal", "multiplexer"}
        BY <1>1, <1>7, <3>1
      <4>2. CASE p = S
        BY <1>7, <2>2, <4>1, <4>2, PreviousIs
      <4>3. CASE p = R
        <5>1. m.is = "equal" => Previous(p, q, n, m.is, m.fid).is \in {"hint", "feature_hint"}
          BY <1>7, <4>3, PreviousIs
        <5>2. m.is = "feature_hint" => Previous(p, q, n, m.is, m.fid).is \in {"hint", "feature_hint"}
          BY <1>7, <4>3, PreviousIs
        <5> QED
          BY <1>7, <2>3, <4>1, <4>3, <5>1, <5>2, PreviousIs
      <4> QED
        BY <4>2, <4>3, TwoParties
    <3>3. m.fid \in 1..Features(k)
      BY <1>2, <2>5, <3>2
    <3>4. LastOf(p, p, k) = IF m.fid = 1 THEN Place(k, "equal", 1)
                            ELSE Place(k, "multiplexer", m.fid - 1)
      BY <1>1, <2>5, <3>2, PreviousIs
    <3>5. Features(k) \in Nat
      <4>1. k \in DOMAIN calls[S]
        BY <1>1, <1>2, <1>10, <2>1, <2>5, CallNumber, TwoParties
      <4>2. calls[S][k] \in Calls[S]
        BY <4>1, Numbers, TwoParties DEF CircuitInv
      <4> QED
        BY <4>2, CallIs, TwoParties DEF Features
    <3>6. CASE Features(k) = 0
      BY <3>3, <3>6
    <3>7. CASE Features(k) # 0
      <4>1. LastOf(p, p, k).is = "multiplexer" /\ LastOf(p, p, k).fid = Features(k)
        BY <1>7, <3>1, <3>7
      <4>2. m.fid - 1 = Features(k)
        BY <1>7, <3>4, <4>1
      <4> QED
        BY <3>3, <3>5, <4>2
    <3> QED
      BY <3>6, <3>7
  <2> QED
    BY <2>6, <2>7, <2>8, ThrewIs
<1> QED
  BY <1>8, <1>9, <1>10

\* The number of features of a call.
LEMMA FeaturesType ==
    ASSUME AreSequences, NEW n \in DOMAIN calls[S]
    PROVE  Features(n) \in Nat
BY Numbers, CallIs, TwoParties DEF Features

\* Where a party reads, it has read all that comes before.
LEMMA Reading ==
    ASSUME CircuitInv, NEW p \in Party, io[p] = "recv"
    PROVE  /\ stage[p] \in To(p)
           /\ Last(p, p) = Previous(p, p, Number(p), stage[p], fid[p])
           /\ stage[p] \in InInit \/ stage[p] \in InCall
<1>1. Control(p) /\ stage[p] \in TwoWay \cup OneWay \cup Rest
  BY DEF CircuitInv, TypeOK
<1>2. stage[p] \notin TwoWay => Starts(stage[p], p) = "recv" /\ (stage[p] = "hint_hash" => p = S)
  BY <1>1 DEF Control
<1>3. stage[p] \in To(p)
  <2>1. CASE stage[p] \in TwoWay
    BY <2>1, CheckedIs DEF To, TwoWay, Compared, InInit
  <2>2. CASE p = S /\ stage[p] \notin TwoWay
    BY <1>1, <1>2, <2>2, CheckedIs DEF To, TwoWay, OneWay, Rest, Sizes, Starts, First, Peer, S
  <2>3. CASE p = R /\ stage[p] \notin TwoWay
    BY <1>1, <1>2, <2>3, CheckedIs, TwoParties
       DEF To, TwoWay, OneWay, Rest, Sizes, Starts, First, Peer, S, R
  <2> QED
    BY <2>1, <2>2, <2>3, TwoParties
<1>4. Last(p, p) = Previous(p, p, Number(p), stage[p], fid[p])
  BY DEF Last, HasRead
<1>5. stage[p] \in InInit \/ stage[p] \in InCall
  BY <1>3 DEF To, InCall, Compared, Sizes
<1> QED
  BY <1>3, <1>4, <1>5

\* What a read finds is what it is for.
LEMMA FoundMessage ==
    ASSUME CircuitInv, NEW p \in Party, io[p] = "recv",
           NEW n, NEW m, Carries(p, Last(p, p), n, m)
    PROVE  n = Number(p) /\ m.is = stage[p] /\ m.fid = fid[p]
<1> DEFINE q == Peer(p)
           first == IF p = S THEN "receiver_data" ELSE "sender_data"
<1>1. /\ Says(p, n, m) /\ q \in Party
      /\ Previous(p, p, Number(p), stage[p], fid[p]) = Previous(p, q, n, m.is, m.fid)
  BY TwoParties, Reading DEF Carries
<1>2. /\ m.is \in To(p)
      /\ m.is \in InInit => n = 0
      /\ m.is \notin InInit => n \in Nat /\ n # 0 /\ n \in DOMAIN calls[q]
      /\ m.is \notin {"feature_hint", "multiplexer"} => m.fid = 1
      /\ m.is \in {"feature_hint", "multiplexer"} => m.fid \in 1..Features(n)
  BY <1>1 DEF Says
<1>3. Control(p) /\ Knows(p) /\ stage[p] \in To(p) /\ Number(p) \in Nat
  BY Reading, CallNumber DEF CircuitInv
<1>4. /\ stage[p] \in {"feature_hint", "multiplexer"} => fid[p] \in 1..Features(Number(p))
      /\ stage[p] \notin {"feature_hint", "multiplexer"} => fid[p] = 1
      /\ stage[p] \in InInit => Number(p) = 0
      /\ stage[p] \in InCall => Number(p) > 0
  BY <1>3 DEF Control
<1>5. \A a, s, f : Place(a, s, f).call = a /\ Place(a, s, f).is = s /\ Place(a, s, f).fid = f
  BY DEF Place
<1>6. CASE stage[p] \in InInit
  <2>1. Previous(p, p, Number(p), stage[p], fid[p]) = Place(0, InitBefore(stage[p]), 1)
    BY <1>6, PreviousInInit
  <2>2. CASE m.is \in InInit
    <3>1. Previous(p, q, n, m.is, m.fid) = Place(0, InitBefore(m.is), 1)
      BY <2>2, PreviousInInit
    <3>2. InitBefore(m.is) = InitBefore(stage[p])
      <4>1. Place(0, InitBefore(m.is), 1) = Place(0, InitBefore(stage[p]), 1)
        BY <1>1, <2>1, <3>1
      <4>2. Place(0, InitBefore(m.is), 1).is = Place(0, InitBefore(stage[p]), 1).is
        BY <4>1
      <4> QED
        BY <1>5, <4>2
    <3>3. m.is = stage[p]
      BY <1>6, <2>2, <3>2, InitBeforeIs
    <3> QED
      BY <1>2, <1>4, <1>6, <2>2, <3>3, InitStages
  <2>3. CASE m.is = first
    <3>1. PICK k \in Nat : n = k + 1
      BY <1>2, <2>3, InitStages
    <3>2. Previous(p, q, n, m.is, m.fid) = LastOf(p, q, k)
      BY <2>3, <3>1, PreviousIs, TwoParties
    <3>4. LastOf(p, q, k).call = k /\ (k = 0 => LastOf(p, q, k) = Place(0, "mpc", 1))
      BY <1>1, LastOfIs
    <3>3. LastOf(p, q, k) = Place(0, "mpc", 1) /\ InitBefore(stage[p]) = "mpc"
      <4>1. Place(0, InitBefore(stage[p]), 1) = LastOf(p, q, k)
        BY <1>1, <2>1, <3>2
      <4>2. Place(0, InitBefore(stage[p]), 1).call = 0
        BY <1>5
      <4>3. LastOf(p, q, k) = Place(0, "mpc", 1)
        BY <3>4, <4>1, <4>2
      <4> QED
        BY <4>1, <4>3, PlaceIs
    <3> QED
      BY <1>6, <3>3, InitBeforeIs
  <2>4. CASE m.is \notin InInit /\ m.is # first
    <3>1. p = S => m.is \in {"receiver_features", "stash", "ot", "equal", "multiplexer"}
      BY <1>2, <2>4 DEF To, Compared
    <3>2. p = R => m.is \in {"sender_features", "hint_stash", "hint", "feature_hint",
                              "equal", "multiplexer"}
      BY <1>2, <2>4, TwoParties DEF To, Compared
    <3>3. Previous(p, q, n, m.is, m.fid).call = n
      BY <1>5, <3>1, <3>2, PreviousIs, TwoParties
    <3> QED
      BY <1>1, <1>2, <1>5, <2>1, <2>4, <3>3
  <2> QED
    BY <2>2, <2>3, <2>4
<1>7. CASE stage[p] = first
  <2>1. stage[p] \in InCall
    BY <1>7 DEF InCall, Sizes
  <2>2. PICK k \in Nat : k = Number(p) - 1
    BY <1>3, <1>4, <2>1
  <2>3. k = 0 \/ k \in DOMAIN results[p]
    BY <2>1, <2>2, CallNumber
  <2>4. Last(p, p) = LastOf(p, p, k)
    BY <1>7, <2>2, PreviousIs, Reading, TwoParties
  <2>5. n = k + 1 /\ m.fid = 1 /\ m.is = first
    BY <2>3, <2>4, AfterCall
  <2> QED
    BY <1>3, <1>4, <1>7, <2>2, <2>5
<1>8. CASE stage[p] \notin InInit /\ stage[p] # first
  <2>1. stage[p] \in InCall
    BY <1>8, Reading
  <2>2. PICK k \in Nat \ {0} : k = Number(p)
    BY <1>3, <1>4, <2>1
  <2>3. k \notin DOMAIN results[p] /\ k \in DOMAIN calls[p]
    BY <2>1, <2>2, CallNumber
  <2>4. p = S => stage[p] \in {"receiver_features", "stash", "ot", "equal", "multiplexer"}
    BY <1>3, <1>8 DEF To, Compared
  <2>5. p = R => stage[p] \in {"sender_features", "hint_stash", "hint", "feature_hint",
                               "equal", "multiplexer"}
    BY <1>3, <1>8, TwoParties DEF To, Compared
  <2>6. Previous(p, p, k, stage[p], fid[p]).call = k
    BY <1>5, <2>4, <2>5, PreviousIs, TwoParties
  <2>7. stage[p] \in {"feature_hint", "multiplexer"} => Features(k) \in Nat
    <3>1. stage[p] \in {"feature_hint", "multiplexer"} => k \in DOMAIN calls[S]
      BY <1>3, <2>1, <2>2, <2>3, TwoParties DEF Knows
    <3> QED
      BY <3>1, FeaturesType DEF CircuitInv
  <2>8. m.is \notin InInit
    BY <1>1, <1>5, <2>2, <2>6, PreviousInInit
  <2>9. n \in Nat \ {0} /\ n \in DOMAIN calls[q]
    BY <1>2, <2>8
  <2>10. m.is # first
    <3>1. SUFFICES ASSUME m.is = first PROVE FALSE
      OBVIOUS
    <3>2. Previous(p, q, n, m.is, m.fid) = LastOf(p, q, n - 1) /\ n - 1 \in Nat
      BY <2>9, <3>1, PreviousIs, TwoParties
    <3>3. n - 1 = k
      BY <1>1, <2>2, <2>6, <3>2, LastOfIs
    <3>4. k \in DOMAIN results[q]
      <4>1. n \in 1..Number(q) /\ Number(q) <= Len(results[q]) + 1 /\ Len(results[q]) \in Nat
            /\ Number(q) \in Nat /\ DOMAIN results[q] = 1..Len(results[q])
        BY <1>1, <2>9, CallNumber
      <4> QED
        BY <3>3, <4>1
    <3>5. Previous(p, p, k, stage[p], fid[p]) = LastOf(p, q, k)
      BY <1>1, <2>2, <3>2, <3>3
    <3>6. CASE results[q][k] = Stashed
      <4>1. LastOf(p, q, k).is = IF p = S THEN "stash" ELSE "sender_features"
        BY <1>1, <1>5, <3>6, LastOfIs
      <4>2. CASE p = S
        <5>1. stage[p] = "ot"
          BY <1>5, <2>4, <3>5, <4>1, <4>2, PreviousIs
        <5>2. ThroughStash(k)
          BY <1>3, <2>2, <4>2, <5>1 DEF Knows, Placed
        <5> QED
          BY <3>4, <3>6, <4>2, <5>2, TwoParties DEF ThroughStash
      <4>3. CASE p = R
        <5>1. k \in DOMAIN results[R]
          BY <3>4, <3>6, <4>3, TwoParties DEF CircuitInv, Ended
        <5> QED
          BY <2>3, <4>3, <5>1
      <4> QED
        BY <4>2, <4>3, TwoParties
    <3>7. CASE results[q][k] = HintStashed
      <4>1. LastOf(p, q, k).is = IF p = S THEN "ot" ELSE "hint_stash"
        BY <1>1, <1>5, <3>7, LastOfIs
      <4>2. CASE p = S
        <5>1. k \in DOMAIN results[S]
          BY <3>4, <3>7, <4>2, TwoParties DEF CircuitInv, Ended
        <5> QED
          BY <2>3, <4>2, <5>1
      <4>3. CASE p = R
        <5>1. stage[p] = "hint"
          BY <1>5, <2>5, <3>5, <4>1, <4>3, PreviousIs, TwoParties
        <5>2. ThroughHint(k)
          BY <1>3, <2>2, <4>3, <5>1 DEF Knows, Hinted
        <5> QED
          BY <3>4, <3>7, <4>3, <5>2, TwoParties, ThrewIs DEF ThroughHint
      <4> QED
        BY <4>2, <4>3, TwoParties
    <3>8. CASE ~Threw(results[q][k])
      <4>1. LastOf(p, q, k) = IF Features(k) = 0 THEN Place(k, "equal", 1)
                              ELSE Place(k, "multiplexer", Features(k))
        BY <1>1, <3>8, LastOfIs
      <4>2. stage[p] = "multiplexer"
        <5>1. Previous(p, p, k, stage[p], fid[p]).is \in {"equal", "multiplexer"}
          BY <1>5, <3>5, <4>1
        <5>2. CASE p = S
          BY <1>5, <2>4, <5>1, <5>2, PreviousIs
        <5>3. CASE p = R
          <6>1. stage[p] = "equal" =>
                   Previous(p, p, k, stage[p], fid[p]).is \in {"hint", "feature_hint"}
            BY <1>5, <5>3, PreviousIs
          <6>2. stage[p] = "feature_hint" =>
                   Previous(p, p, k, stage[p], fid[p]).is \in {"hint", "feature_hint"}
            BY <1>5, <5>3, PreviousIs
          <6> QED
            BY <1>5, <2>5, <5>1, <5>3, <6>1, <6>2, PreviousIs
        <5> QED
          BY <5>2, <5>3, TwoParties
      <4>3. fid[p] \in 1..Features(k) /\ Features(k) \in Nat
        BY <1>4, <2>2, <2>7, <4>2
      <4>4. Place(k, "multiplexer", Features(k)) = Place(k, "equal", 1)
            \/ Place(k, "multiplexer", Features(k)) = Place(k, "multiplexer", fid[p] - 1)
        BY <3>5, <4>1, <4>2, <4>3, PreviousIs
      <4>5. Features(k) = fid[p] - 1
        BY <1>5, <4>4
      <4> QED
        BY <4>3, <4>5
    <3> QED
      BY <3>6, <3>7, <3>8, ThrewIs
  <2>11. p = S => m.is \in {"receiver_features", "stash", "ot", "equal", "multiplexer"}
    BY <1>2, <2>8, <2>10 DEF To, Compared
  <2>12. p = R => m.is \in {"sender_features", "hint_stash", "hint", "feature_hint",
                            "equal", "multiplexer"}
    BY <1>2, <2>8, <2>10, TwoParties DEF To, Compared
  <2>13. n = k
    <3>1. Previous(p, q, n, m.is, m.fid).call = n
      BY <1>5, <2>11, <2>12, PreviousIs, TwoParties
    <3> QED
      BY <1>1, <2>2, <2>6, <3>1
  <2>14. Previous(p, p, k, stage[p], fid[p]) = Previous(p, q, k, m.is, m.fid)
    BY <1>1, <2>2, <2>13
  <2>15. m.is = "multiplexer" \/ m.is = "feature_hint" => Features(k) \in Nat
    <3>1. m.is \in Hinted \cap {"multiplexer", "feature_hint"} => ThroughHint(k)
      BY <1>1, <2>13 DEF Says
    <3>2. ThroughHint(k) => k \in DOMAIN calls[S]
      BY CallNumber, TwoParties DEF ThroughHint, Hinted, InCall, Compared
    <3> QED
      BY <3>1, <3>2, FeaturesType DEF Hinted, Compared, CircuitInv
  <2> HIDE DEF q, first
  <2>16. CASE stage[p] = "multiplexer" \/ m.is = "multiplexer"
    <3>1. m.is = "multiplexer" /\ stage[p] = "multiplexer"
      <4>1. \A r, s : s \in {"receiver_features", "stash", "ot", "equal"} /\ p = S =>
                Previous(p, r, k, s, 1).is \notin {"equal", "multiplexer"}
        BY <1>5, PreviousIs
      <4>2. \A r : \A f : \A s \in {"sender_features", "hint_stash", "hint", "feature_hint", "equal"} :
                p = R => Previous(p, r, k, s, f).is \notin {"equal", "multiplexer"}
        BY <1>5, PreviousIs
      <4>3. \A r, f : Previous(p, r, k, "multiplexer", f).is \in {"equal", "multiplexer"}
        BY <1>5, PreviousIs
      <4> QED
        BY <1>2, <1>4, <2>4, <2>5, <2>11, <2>12, <2>14, <2>16, <4>1, <4>2, <4>3, TwoParties
    <3>2. m.fid \in Nat /\ m.fid > 0 /\ fid[p] \in Nat /\ fid[p] > 0
      BY <1>2, <1>4, <2>2, <2>7, <2>13, <3>1
    <3>3. m.fid = fid[p]
      BY <1>5, <2>14, <3>1, <3>2, PreviousIs
    <3> QED
      BY <2>2, <2>13, <3>1, <3>3
  <2>17. CASE p = S /\ stage[p] # "multiplexer" /\ m.is # "multiplexer"
    <3>1. m.fid = 1 /\ fid[p] = 1
      BY <1>2, <1>4, <2>4, <2>11, <2>17
    <3>2. m.is = stage[p]
      BY <1>5, <2>4, <2>11, <2>14, <2>17, PreviousIs
    <3> QED
      BY <2>2, <2>13, <3>1, <3>2
  <2>18. CASE p = R /\ stage[p] # "multiplexer" /\ m.is # "multiplexer"
    <3>1. CASE stage[p] \in {"sender_features", "hint_stash"} \/ m.is \in {"sender_features", "hint_stash"}
      <4>1. \A r, f : \A s \in {"hint", "feature_hint", "equal"} :
               Previous(p, r, k, s, f).is \notin {"sender_data", "sender_features"}
        BY <1>5, <2>18, PreviousIs
      <4>2. \A r, f : Previous(p, r, k, "sender_features", f).is = "sender_data"
                      /\ Previous(p, r, k, "hint_stash", f).is = "sender_features"
        BY <1>5, <2>18, PreviousIs
      <4>3. m.is = stage[p]
        BY <2>5, <2>12, <2>14, <2>18, <3>1, <4>1, <4>2
      <4> QED
        BY <1>2, <1>4, <2>2, <2>13, <3>1, <4>3
    <3>2. CASE stage[p] = "hint" \/ m.is = "hint"
      <4>1. \A r, f : \A s \in {"sender_features", "hint_stash", "feature_hint", "equal"} :
               Previous(p, r, k, s, f).is # "hint_stash"
        BY <1>5, <2>18, PreviousIs
      <4>2. \A r, f : Previous(p, r, k, "hint", f).is = "hint_stash"
        BY <1>5, <2>18, PreviousIs
      <4>3. m.is = stage[p]
        BY <2>5, <2>12, <2>14, <2>18, <3>2, <4>1, <4>2
      <4> QED
        BY <1>2, <1>4, <2>2, <2>13, <3>2, <4>3
    <3>3. CASE stage[p] \in {"feature_hint", "equal"} /\ m.is \in {"feature_hint", "equal"}
      <4>1. Features(k) \in Nat
        BY <2>7, <2>15, <3>3, <2>1, <2>2, <1>3, <2>18, TwoParties, FeaturesType DEF Knows, CircuitInv
      <4>2. PICK f : Previous(p, p, k, "feature_hint", fid[p]) = f
        OBVIOUS
      <4>3. /\ m.is = "feature_hint" => m.fid \in 1..Features(k)
            /\ m.is # "feature_hint" => m.fid = 1
            /\ stage[p] = "feature_hint" => fid[p] \in 1..Features(k)
            /\ stage[p] # "feature_hint" => fid[p] = 1
        BY <1>2, <1>4, <2>2, <2>13, <3>3
      <4>4. \A r, g : Previous(p, r, k, "feature_hint", g)
                 = IF g = 1 THEN Place(k, "hint", 1) ELSE Place(k, "feature_hint", g - 1)
        BY <2>18, PreviousIs
      <4>5. \A r, g : Previous(p, r, k, "equal", g)
                 = IF Features(k) = 0 THEN Place(k, "hint", 1)
                   ELSE Place(k, "feature_hint", Features(k))
        BY <2>18, PreviousIs
      <4>6. CASE stage[p] = "equal" /\ m.is = "equal"
        BY <2>2, <2>13, <4>3, <4>6
      <4>7. CASE stage[p] = "feature_hint" /\ m.is = "feature_hint"
        <5>1. m.fid = fid[p]
          BY <1>5, <2>14, <4>1, <4>3, <4>4, <4>7
        <5> QED
          BY <2>2, <2>13, <4>7, <5>1
      <4>8. CASE stage[p] = "feature_hint" /\ m.is = "equal"
        <5>1. Features(k) # 0 /\ fid[p] # 1 /\ Features(k) = fid[p] - 1
          BY <1>5, <2>14, <4>1, <4>3, <4>4, <4>5, <4>8
        <5> QED
          BY <4>1, <4>3, <4>8, <5>1
      <4>9. CASE stage[p] = "equal" /\ m.is = "feature_hint"
        <5>1. Features(k) # 0 /\ m.fid # 1 /\ Features(k) = m.fid - 1
          BY <1>5, <2>14, <4>1, <4>3, <4>4, <4>5, <4>9
        <5> QED
          BY <4>1, <4>3, <4>9, <5>1
      <4> QED
        BY <3>3, <4>6, <4>7, <4>8, <4>9
    <3> QED
      BY <2>5, <2>12, <2>18, <3>1, <3>2, <3>3
  <2> QED
    BY <2>16, <2>17, <2>18, TwoParties
<1> QED
  BY <1>6, <1>7, <1>8

-----------------------------------------------------------------------------
(* What lasts over a step.                                                 *)

\* p moves, and its peer is left alone.
Others(p) ==
    LET q == Peer(p) IN
    /\ params' = params
    /\ stage'[q] = stage[q] /\ fid'[q] = fid[q] /\ io'[q] = io[q]
    /\ sent'[q] = sent[q] /\ remote'[q] = remote[q] /\ peer_size'[q] = peer_size[q]
    /\ common_prng'[q] = common_prng[q] /\ stash_size'[q] = stash_size[q]
    /\ calls'[q] = calls[q] /\ results'[q] = results[q]
    /\ output_shares'[q] = output_shares[q]
    /\ p = S => UNCHANGED <<cuckoo_table, opened, hint_features>>
    /\ p = R => UNCHANGED <<hint_table, contents>>

\* Nor is anything undone that p has done.
Alone(p) ==
    /\ Others(p)
    /\ \A n \in DOMAIN calls[p] : n \in DOMAIN calls'[p] /\ calls'[p][n] = calls[p][n]
    /\ \A n \in DOMAIN results[p] :
          n \in DOMAIN results'[p] /\ results'[p][n] = results[p][n]
    /\ \A n : (ThroughStash(n) => ThroughStash(n)') /\ (ThroughHint(n) => ThroughHint(n)')
    /\ \A k \in DOMAIN Checked : Reached(p, k) => Reached(p, k)'

LEMMA CallsLast ==
    ASSUME NEW p \in Party, Alone(p), NEW r \in Party
    PROVE  /\ \A n \in DOMAIN calls[r] : n \in DOMAIN calls'[r] /\ calls'[r][n] = calls[r][n]
           /\ \A n \in DOMAIN results[r] :
                 n \in DOMAIN results'[r] /\ results'[r][n] = results[r][n]
<1>1. CASE r = p
  BY <1>1 DEF Alone
<1>2. CASE r = Peer(p)
  BY <1>2 DEF Alone, Others
<1> QED
  BY <1>1, <1>2, TwoParties

\* The calls before one that a party has made have ended there.
LEMMA EarlierEnded ==
    ASSUME CircuitInv, NEW r \in Party, NEW n \in DOMAIN calls[r]
    PROVE  n \in Nat /\ n > 0 /\ \A k \in 1..(n - 1) : k \in DOMAIN results[r]
<1>1. /\ Number(r) \in Nat /\ DOMAIN calls[r] = 1..Number(r)
      /\ Len(results[r]) \in Nat /\ DOMAIN results[r] = 1..Len(results[r])
      /\ Number(r) = Len(results[r]) + 1 \/ Number(r) = Len(results[r])
  BY CallNumber
<1> QED
  BY <1>1

LEMMA DrawnLast ==
    ASSUME NEW p \in Party, Alone(p), NEW r \in Party, NEW n,
           \A k \in 1..(n - 1) : k \in DOMAIN results[r]
    PROVE  Drawn(r, n)' = Drawn(r, n)
<1>1. \A k \in 1..(n - 1) : results'[r][k] = results[r][k]
  BY CallsLast
<1>2. \A table : {k \in 1..(n - 1) : results'[r][k] = [threw |-> table]}
                   = {k \in 1..(n - 1) : results[r][k] = [threw |-> table]}
  BY <1>1
<1>3. \A table : Failures(r, table, n - 1)' = Failures(r, table, n - 1)
  BY <1>2 DEF Failures
<1> QED
  BY <1>3 DEF Drawn

\* What a call comes to lasts.
LEMMA ComesTo ==
    ASSUME CircuitInv, NEW p \in Party, Alone(p), NEW n
    PROVE  /\ n \in DOMAIN calls[S] =>
                 /\ Features(n)' = Features(n) /\ Drawn(S, n)' = Drawn(S, n)
                 /\ MasksOf(n)' = MasksOf(n) /\ HintsOf(n)' = HintsOf(n)
           /\ n \in DOMAIN calls[R] => BinsOf(n)' = BinsOf(n) /\ Drawn(R, n)' = Drawn(R, n)
           /\ n \in DOMAIN calls[S] /\ n \in DOMAIN calls[R] =>
                 HintBinsOf(n)' = HintBinsOf(n)
<1>1. params' = params
  BY DEF Alone, Others
<1>2. ASSUME n \in DOMAIN calls[S]
      PROVE  /\ Features(n)' = Features(n) /\ Drawn(S, n)' = Drawn(S, n)
             /\ MasksOf(n)' = MasksOf(n) /\ HintsOf(n)' = HintsOf(n)
  <2>1. calls'[S][n] = calls[S][n]
    BY <1>2, CallsLast, TwoParties
  <2>2. Drawn(S, n)' = Drawn(S, n)
    <3>1. \A k \in 1..(n - 1) : k \in DOMAIN results[S]
      BY <1>2, EarlierEnded, TwoParties
    <3> QED
      BY <3>1, DrawnLast, TwoParties
  <2>3. MasksOf(n)' = MasksOf(n)
    BY <1>1, <2>1, <2>2 DEF MasksOf
  <2> QED
    BY <1>1, <2>1, <2>2, <2>3 DEF Features, HintsOf
<1>3. ASSUME n \in DOMAIN calls[R]
      PROVE  BinsOf(n)' = BinsOf(n) /\ Drawn(R, n)' = Drawn(R, n)
  <2>1. calls'[R][n] = calls[R][n]
    BY <1>3, CallsLast, TwoParties
  <2>2. Drawn(R, n)' = Drawn(R, n)
    <3>1. \A k \in 1..(n - 1) : k \in DOMAIN results[R]
      BY <1>3, EarlierEnded, TwoParties
    <3> QED
      BY <3>1, DrawnLast, TwoParties
  <2> QED
    BY <1>1, <2>1, <2>2 DEF BinsOf
<1>4. ASSUME n \in DOMAIN calls[S], n \in DOMAIN calls[R]
      PROVE  HintBinsOf(n)' = HintBinsOf(n)
  <2>1. calls'[S][n] = calls[S][n]
    BY <1>4, CallsLast, TwoParties
  <2> QED
    BY <1>1, <1>3, <1>4, <2>1 DEF HintBinsOf
<1> QED
  BY <1>2, <1>3, <1>4

LEMMA LastOfLasts ==
    ASSUME CircuitInv, NEW p \in Party, Alone(p), NEW d, NEW w \in Party,
           NEW n, n = 0 \/ n \in DOMAIN results[w]
    PROVE  LastOf(d, w, n)' = LastOf(d, w, n)
<1>1. CASE n = 0
  BY <1>1 DEF LastOf
<1>2. CASE n \in DOMAIN results[w]
  <2>1. results'[w][n] = results[w][n]
    BY <1>2, CallsLast
  <2>2. n \in DOMAIN calls[S]
    BY <1>2, CallNumber, TwoParties
  <2>3. Features(n)' = Features(n)
    BY <2>2, ComesTo
  <2> QED
    BY <2>1, <2>3 DEF LastOf
<1> QED
  BY <1>1, <1>2

\* The message before one is the same, if what settles it is there.
LEMMA PreviousLasts ==
    ASSUME CircuitInv, NEW p \in Party, Alone(p), NEW d \in Party, NEW w \in Party,
           NEW n, NEW s, NEW f,
           s = "idle" => n = 0 \/ n \in DOMAIN results[w],
           s \in {"receiver_data", "receiver_features", "sender_data"} =>
               n - 1 = 0 \/ n - 1 \in DOMAIN results[w],
           d = R /\ s = "equal" => n \in DOMAIN calls[S]
    PROVE  Previous(d, w, n, s, f)' = Previous(d, w, n, s, f)
<1>1. s = "idle" => LastOf(d, w, n)' = LastOf(d, w, n)
  BY LastOfLasts
<1>2. s \in {"receiver_data", "receiver_features", "sender_data"} =>
          LastOf(d, w, n - 1)' = LastOf(d, w, n - 1)
  BY LastOfLasts
<1>3. d = R /\ s = "equal" => Features(n)' = Features(n)
  BY ComesTo
<1>4. FirstDifference' = FirstDifference
  <2>1. \A k : Differ(k)' <=> Differ(k)
    BY DEF Alone, Others, Differ
  <2> QED
    BY <2>1 DEF FirstDifference
<1> QED
  BY <1>1, <1>2, <1>3, <1>4 DEF Previous, BeforeAtSender, BeforeAtReceiver

LEMMA ReachedLasts ==
    ASSUME NEW p \in Party, Alone(p), NEW r \in Party, NEW k \in DOMAIN Checked, Reached(r, k)
    PROVE  Reached(r, k)'
<1>1. CASE r = p
  BY <1>1 DEF Alone
<1>2. CASE r = Peer(p)
  BY <1>2 DEF Alone, Others, Reached
<1> QED
  BY <1>1, <1>2, TwoParties

\* What a message says lasts.
LEMMA SaysLasts ==
    ASSUME CircuitInv, NEW p \in Party, Alone(p), NEW d \in Party, NEW n, NEW m, Says(d, n, m)
    PROVE  Says(d, n, m)'
<1> DEFINE w == Peer(d)
<1>1. /\ w \in Party /\ params' = params /\ (d = S \/ d = R)
      /\ d = S => w = R
      /\ d = R => w = S
  BY TwoParties DEF Alone, Others
<1>2. /\ n \in DOMAIN calls[w] => n \in DOMAIN calls'[w] /\ calls'[w][n] = calls[w][n]
      /\ n \in DOMAIN calls[d] => n \in DOMAIN calls'[d]
  BY <1>1, CallsLast
<1>3. /\ \A k \in DOMAIN Checked : Reached(w, k) => Reached(w, k)'
      /\ ThroughStash(n) => ThroughStash(n)'
      /\ ThroughHint(n) => ThroughHint(n)'
      /\ \A r \in Party : n \in DOMAIN results[r] =>
             n \in DOMAIN results'[r] /\ results'[r][n] = results[r][n]
  BY <1>1, ReachedLasts, CallsLast DEF Alone
<1>4. /\ m.is \in To(d)
      /\ IF m.is \in InInit THEN n = 0 ELSE n \in DOMAIN calls[w] /\ n \in Nat \ {0}
      /\ m.is \in Placed \cup {"stash"} => n \in DOMAIN calls[d]
  BY DEF Says
<1>5. /\ m.is \in {"feature_hint", "multiplexer"} =>
            n \in DOMAIN calls[S] /\ Features(n)' = Features(n)
      /\ m.is = "ot" => BinsOf(n)' = BinsOf(n)
      /\ m.is \in {"hint", "feature_hint"} =>
            /\ HintBinsOf(n)' = HintBinsOf(n) /\ Drawn(S, n)' = Drawn(S, n)
            /\ HintsOf(n)' = HintsOf(n) /\ MasksOf(n)' = MasksOf(n)
  <2>1. m.is \in Placed => n \in DOMAIN calls[S] /\ n \in DOMAIN calls[R]
    BY <1>1, <1>4, InitStages DEF Placed, Hinted, Compared
  <2> QED
    BY <2>1, ComesTo DEF Placed, Hinted, Compared
<1> HIDE DEF w
<1>6. /\ m.is \in To(d)
      /\ IF m.is \in InInit THEN n = 0 ELSE n \in DOMAIN calls'[w] /\ n \in Nat \ {0}
      /\ IF m.is \in {"feature_hint", "multiplexer"} THEN m.fid \in 1..Features(n)'
         ELSE m.fid = 1
  BY <1>2, <1>4, <1>5 DEF Says
<1>7. \A k \in DOMAIN Checked : m.is = Checked[k] =>
          m.width = Words(1) /\ m.value = params'[w][m.is] /\ Reached(w, k)'
  BY <1>1, <1>3 DEF Says, w
<1>8. /\ m.is \in {"seed", "base_ot", "mpc"} => m.width = Bytes(m.is) /\ m.value = Block(w)
      /\ m.is \in Sizes => m.width = Words(1) /\ m.value = SizeIn(m.is, calls'[w][n])
  <2>1. m.is \in Sizes => n \in DOMAIN calls[w]
    BY <1>4, InitStages DEF Sizes
  <2> QED
    BY <1>2, <2>1 DEF Says, w
<1>9. /\ m.is \in Placed \cup {"stash"} => n \in DOMAIN calls'[d]
      /\ m.is = "stash" =>
          /\ m.width = Words(1)
          /\ \/ m.value = 0 /\ ThroughStash(n)'
             \/ m.value = 1 /\ n \in DOMAIN results'[R] /\ results'[R][n] = Stashed
      /\ m.is \in Placed => ThroughStash(n)'
      /\ m.is = "ot" => m.width = [unit |-> "ot", number |-> BinsOf(n)']
  BY <1>2, <1>3, <1>5, TwoParties DEF Says
<1>10. /\ m.is = "hint_stash" =>
          /\ m.width = Words(1)
          /\ \/ m.value = 0 /\ ThroughHint(n)'
             \/ m.value = 1 /\ n \in DOMAIN results'[S] /\ results'[S][n] = HintStashed
       /\ m.is \in Hinted => ThroughHint(n)'
  BY <1>3, TwoParties DEF Says
<1>11. /\ m.is \in {"hint", "feature_hint"} => m.width = Words(HintBinsOf(n)')
       /\ m.is = "hint" => m.value.seed = Stream(Drawn(S, n)' + 2)
                           /\ m.value.entries \in HintsOf(n)'
       /\ m.is = "feature_hint" => m.value \in [MasksOf(n)' -> Word]
  BY <1>5 DEF Says
<1>12. /\ m.is \in Compared => m.width = Bytes(m.is)
       /\ m.is = "equal" /\ d = R => m.value \in {0, 1}
       /\ m.is = "multiplexer" /\ d = R => m.value \in [input : Randoms, share : Randoms]
  BY DEF Says
<1> QED
  BY <1>6, <1>7, <1>8, <1>9, <1>10, <1>11, <1>12
  DEF Says, w, Words, Bytes, SizeIn, Block, Stream, Word, Stashed, HintStashed

\* What was sent stays what it is, and where it is.
LEMMA MessagesLast ==
    ASSUME CircuitInv, NEW p \in Party, Alone(p), NEW q \in Party
    PROVE  Lasting(q)
<1>1. ASSUME NEW x, NEW n, NEW m, Carries(q, x, n, m)
      PROVE  Carries(q, x, n, m)'
  <2>1. Says(q, n, m) /\ x = Previous(q, Peer(q), n, m.is, m.fid) /\ Peer(q) \in Party
    BY <1>1, TwoParties DEF Carries
  <2>2. Says(q, n, m)'
    BY <2>1, SaysLasts
  <2>3. /\ m.is \in To(q)
        /\ m.is \notin InInit => n \in DOMAIN calls[Peer(q)]
    BY <2>1 DEF Says
  <2>4. m.is \in {"receiver_data", "receiver_features", "sender_data"} =>
           n - 1 = 0 \/ n - 1 \in DOMAIN results[Peer(q)]
    <3>1. SUFFICES ASSUME m.is \in {"receiver_data", "receiver_features", "sender_data"}
                   PROVE  n - 1 = 0 \/ n - 1 \in DOMAIN results[Peer(q)]
      OBVIOUS
    <3>2. n \in DOMAIN calls[Peer(q)]
      BY <2>3, <3>1, InitStages
    <3>3. n \in Nat /\ n > 0 /\ \A k \in 1..(n - 1) : k \in DOMAIN results[Peer(q)]
      BY <2>1, <3>2, EarlierEnded
    <3> QED
      BY <3>3
  <2>5. q = R /\ m.is = "equal" => n \in DOMAIN calls[S]
    BY <2>3, InitStages, TwoParties
  <2>6. m.is # "idle"
    BY <2>3, InitStages DEF To, Compared
  <2>7. Previous(q, Peer(q), n, m.is, m.fid)' = Previous(q, Peer(q), n, m.is, m.fid)
    BY <2>1, <2>4, <2>5, <2>6, PreviousLasts
  <2> QED
    BY <2>1, <2>2, <2>7 DEF Carries
<1> QED
  BY <1>1 DEF Lasting

\* The peer's end of both channels stays.
LEMMA EndsStay ==
    ASSUME CircuitInv, NEW p \in Party, Alone(p), NEW d \in Party
    PROVE  Last(d, Peer(p))' = Last(d, Peer(p))
<1>1. PICK q \in Party : q = Peer(p)
  BY TwoParties
<1>2. /\ stage'[q] = stage[q] /\ fid'[q] = fid[q] /\ io'[q] = io[q] /\ calls'[q] = calls[q]
  BY <1>1 DEF Alone, Others
<1>3. HasRead(q)' = HasRead(q) /\ HasWritten(q)' = HasWritten(q) /\ Number(q)' = Number(q)
  BY <1>2 DEF HasRead, HasWritten, Number
<1>4. PICK n : n = Number(q)
  OBVIOUS
<1>5. n \in Nat /\ Control(q) /\ Knows(q)
  BY <1>4, CallNumber DEF CircuitInv
<1>6. stage[q] = "idle" => n = 0 \/ n \in DOMAIN results[q]
  BY <1>4, CallNumber, InitStages DEF InCall, Sizes, Compared
<1>7. stage[q] \in {"receiver_data", "receiver_features", "sender_data"} =>
         n - 1 = 0 \/ n - 1 \in DOMAIN results[q]
  BY <1>4, CallNumber DEF InCall, Sizes
<1>8. d = R /\ stage[q] = "equal" => n \in DOMAIN calls[S]
  <2>1. SUFFICES ASSUME stage[q] = "equal" PROVE n \in DOMAIN calls[S]
    OBVIOUS
  <2>2. stage[q] \in InCall
    BY <2>1 DEF InCall, Compared
  <2>3. q = S => n \in DOMAIN calls[S]
    BY <1>4, <2>2, CallNumber
  <2>4. q = R => n \in DOMAIN calls[S]
    BY <1>4, <1>5, <2>1, <2>2, TwoParties DEF Knows
  <2> QED
    BY <2>3, <2>4, TwoParties
<1>9. Previous(d, q, n, stage[q], fid[q])' = Previous(d, q, n, stage[q], fid[q])
  <2>1. PICK s, f : s = stage[q] /\ f = fid[q]
    OBVIOUS
  <2>2. Previous(d, q, n, s, f)' = Previous(d, q, n, s, f)
    BY <1>6, <1>7, <1>8, <2>1, PreviousLasts
  <2>3. (n = Number(q))' /\ s = stage'[q] /\ f = fid'[q]
    BY <1>2, <1>3, <1>4, <2>1
  <2> QED
    BY <1>2, <2>1, <2>2
<1>10. Last(d, q)' = Last(d, q)
  BY <1>2, <1>3, <1>4, <1>9 DEF Last, Place
<1> QED
  BY <1>1, <1>10

-----------------------------------------------------------------------------
(* What a party knows, over a step of its peer.                            *)

\* Past the sizes, both have made the call, and each knows what is in it.
LEMMA BothCalled ==
    ASSUME CircuitInv, NEW p \in Party, stage[p] \in InCall, stage[p] \notin Sizes
    PROVE  /\ Number(p) \in DOMAIN calls[S] /\ Number(p) \in DOMAIN calls[R]
           /\ Number(p) \in Nat /\ Number(p) > 0 /\ Number(p) \notin DOMAIN results[p]
           /\ peer_size[p].data = Len(calls[Peer(p)][Number(p)].keys)
           /\ peer_size[p].features = Len(calls[Peer(p)][Number(p)].features)
<1>1. Knows(p)
  BY DEF CircuitInv
<1>2. /\ Number(p) \in DOMAIN calls[p] /\ Number(p) \notin DOMAIN results[p]
      /\ Number(p) \in Nat /\ DOMAIN calls[p] = 1..Number(p)
  BY CallNumber
<1>3. Number(p) \in DOMAIN calls[Peer(p)]
      /\ peer_size[p].data = Len(calls[Peer(p)][Number(p)].keys)
      /\ peer_size[p].features = Len(calls[Peer(p)][Number(p)].features)
  BY <1>1 DEF Knows, Sizes
<1> QED
  BY <1>2, <1>3, TwoParties

LEMMA PeerControlStays ==
    ASSUME CircuitInv, NEW p \in Party, Alone(p)
    PROVE  Control(Peer(p))'
<1>1. PICK q \in Party : q = Peer(p)
  BY TwoParties
<1>2. /\ stage'[q] = stage[q] /\ fid'[q] = fid[q] /\ io'[q] = io[q] /\ calls'[q] = calls[q]
      /\ results'[q] = results[q] /\ common_prng'[q] = common_prng[q]
      /\ output_shares'[q] = output_shares[q]
  BY <1>1 DEF Alone, Others
<1>3. \A k, t : Failures(q, t, k)' = Failures(q, t, k)
  BY <1>2 DEF Failures
<1>4. Number(q)' = Number(q)
  BY <1>2 DEF Number
<1>5. Draws(q)' = Draws(q)
  BY <1>2, <1>3, <1>4 DEF Draws, Drawn
<1>6. stage[q] \in {"feature_hint", "multiplexer"} =>
         Features(Number(q))' = Features(Number(q))
  <2>1. stage[q] \in {"feature_hint", "multiplexer"} => Number(q) \in DOMAIN calls[S]
    BY BothCalled DEF InCall, Sizes
  <2>2. PICK n : n = Number(q)
    OBVIOUS
  <2>3. stage[q] \in {"feature_hint", "multiplexer"} => Features(n)' = Features(n)
    BY <2>1, <2>2, ComesTo
  <2> QED
    BY <1>4, <2>2, <2>3 DEF Features
<1>7. Control(q)
  BY DEF CircuitInv
<1>8. Control(q)'
  BY <1>2, <1>4, <1>5, <1>6, <1>7 DEF Control
<1> QED
  BY <1>1, <1>8

LEMMA PeerKnowsStays ==
    ASSUME CircuitInv, NEW p \in Party, Alone(p)
    PROVE  Knows(Peer(p))'
<1>1. PICK q \in Party : q = Peer(p) /\ p = Peer(q)
  BY TwoParties
<1>2. /\ stage'[q] = stage[q] /\ fid'[q] = fid[q] /\ io'[q] = io[q] /\ calls'[q] = calls[q]
      /\ remote'[q] = remote[q] /\ peer_size'[q] = peer_size[q] /\ params' = params
      /\ \A n \in DOMAIN calls[p] : n \in DOMAIN calls'[p] /\ calls'[p][n] = calls[p][n]
      /\ \A n : (ThroughStash(n) => ThroughStash(n)') /\ (ThroughHint(n) => ThroughHint(n)')
      /\ \A k \in DOMAIN Checked : Reached(p, k) => Reached(p, k)'
  BY <1>1 DEF Alone, Others
<1>3. Number(q)' = Number(q) /\ HasRead(q)' = HasRead(q)
  BY <1>2 DEF Number, HasRead
<1>4. \A k : Differ(k)' = Differ(k)
  BY <1>2 DEF Differ
<1>5. Knows(q)
  BY DEF CircuitInv
<1> DEFINE n == Number(q)
<1>6. /\ \A k \in DOMAIN Checked :
          /\ stage'[q] \notin {Checked[j] : j \in 1..k} \cup {"threw"}
                => params'[q][Checked[k]] = params'[p][Checked[k]]
          /\ stage'[q] = Checked[k] =>
                /\ \A j \in 1..(k - 1) : params'[q][Checked[j]] = params'[p][Checked[j]]
                /\ HasRead(q)' => remote'[q] = params'[p][Checked[k]] /\ Reached(p, k)'
      /\ stage'[q] = "threw" => \E k \in DOMAIN Checked : Differ(k)' /\ Reached(p, k)'
      /\ stage'[q] = "seed" /\ HasRead(q)' => remote'[q] = Block(p)
  BY <1>1, <1>2, <1>3, <1>4, <1>5 DEF Knows
<1>7. stage'[q] \in InCall =>
          LET first == IF q = S THEN "receiver_data" ELSE "sender_data"
              second == IF q = S THEN "receiver_features" ELSE "sender_features"
              earlier == IF q = S THEN {} ELSE {"receiver_data", "receiver_features"}
          IN
          /\ stage'[q] \notin {first} \cup earlier =>
                n \in DOMAIN calls'[p] /\ peer_size'[q].data = Len(calls'[p][n].keys)
          /\ stage'[q] \notin {first, second} \cup earlier =>
                peer_size'[q].features = Len(calls'[p][n].features)
  <2>1. stage[q] \in InCall =>
          LET first == IF q = S THEN "receiver_data" ELSE "sender_data"
              second == IF q = S THEN "receiver_features" ELSE "sender_features"
              earlier == IF q = S THEN {} ELSE {"receiver_data", "receiver_features"}
          IN
          /\ stage[q] \notin {first} \cup earlier =>
                n \in DOMAIN calls[p] /\ peer_size[q].data = Len(calls[p][n].keys)
          /\ stage[q] \notin {first, second} \cup earlier =>
                peer_size[q].features = Len(calls[p][n].features)
    BY <1>1, <1>5 DEF Knows
  <2>2. n \in DOMAIN calls[p] => n \in DOMAIN calls'[p] /\ calls'[p][n] = calls[p][n]
    BY <1>2
  <2> HIDE DEF n
  <2> QED
    BY <1>2, <2>1, <2>2
<1>8. /\ q = S /\ stage'[q] \in Placed => ThroughStash(n)'
      /\ q = R /\ stage'[q] \in Hinted => ThroughHint(n)'
  <2>1. /\ q = S /\ stage[q] \in Placed => ThroughStash(n)
        /\ q = R /\ stage[q] \in Hinted => ThroughHint(n)
    BY <1>5 DEF Knows
  <2>2. PICK k : k = n
    OBVIOUS
  <2>3. /\ q = S /\ stage[q] \in Placed => ThroughStash(k)'
        /\ q = R /\ stage[q] \in Hinted => ThroughHint(k)'
    BY <1>2, <2>1, <2>2
  <2>4. k = n'
    BY <1>3, <2>2
  <2> QED
    BY <1>2, <2>3, <2>4
<1>9. n' = n
  BY <1>3
<1> HIDE DEF n
<1>10. Knows(q)'
  BY <1>1, <1>6, <1>7, <1>8, <1>9 DEF Knows, Block, n
<1> QED
  BY <1>1, <1>10

\* The sender's table and what it shares stay over a step of the receiver.
LEMMA SenderLocalsStay ==
    ASSUME CircuitInv, Alone(R)
    PROVE  SenderLocals'
<1>1. /\ stage'[S] = stage[S] /\ fid'[S] = fid[S] /\ io'[S] = io[S] /\ calls'[S] = calls[S]
      /\ stash_size'[S] = stash_size[S] /\ sent'[S] = sent[S]
      /\ hint_table' = hint_table /\ contents' = contents
  BY TwoParties DEF Alone, Others
<1>2. Number(S)' = Number(S) /\ HasWritten(S)' = HasWritten(S)
  BY <1>1 DEF Number, HasWritten
<1>3. stage[S] \in {"hint_stash"} \cup Hinted =>
         /\ HintsOf(Number(S))' = HintsOf(Number(S))
         /\ Features(Number(S))' = Features(Number(S))
  <2>1. stage[S] \in {"hint_stash"} \cup Hinted => Number(S) \in DOMAIN calls[S]
    BY BothCalled, TwoParties DEF InCall, Sizes, Hinted, Compared
  <2>2. PICK n : n = Number(S)
    OBVIOUS
  <2>3. stage[S] \in {"hint_stash"} \cup Hinted =>
            HintsOf(n)' = HintsOf(n) /\ Features(n)' = Features(n)
    BY <2>1, <2>2, ComesTo, TwoParties
  <2>4. n = Number(S)'
    BY <1>2, <2>2
  <2> QED
    BY <2>2, <2>3, <2>4
<1>4. SenderLocals
  BY DEF CircuitInv
<1> QED
  BY <1>1, <1>2, <1>3, <1>4 DEF SenderLocals, Hinted, Compared

LEMMA TableStays ==
    ASSUME CircuitInv, NEW p \in Party, Alone(p), cuckoo_table' = cuckoo_table,
           NEW n \in DOMAIN calls[R], TableOf(n)
    PROVE  TableOf(n)'
<1>1. calls'[R][n] = calls[R][n] /\ BinsOf(n)' = BinsOf(n) /\ Drawn(R, n)' = Drawn(R, n)
      /\ params' = params
  BY CallsLast, ComesTo, TwoParties DEF Alone, Others
<1>2. DOMAIN cuckoo_table' = DOMAIN calls'[R][n].keys
  BY <1>1 DEF TableOf
<1>3. ASSUME NEW i \in DOMAIN cuckoo_table
      PROVE  /\ cuckoo_table[i].bin \in 1..BinsOf(n)'
             /\ \E f \in 1..params'[R].num_of_fun :
                  cuckoo_table[i].mask = Mask(Stream(Drawn(R, n)' + 1), f, calls'[R][n].keys[i])
  BY <1>1 DEF TableOf
<1>4. \A i, j \in DOMAIN cuckoo_table : cuckoo_table[i].bin = cuckoo_table[j].bin => i = j
  BY DEF TableOf
<1> QED
  BY <1>2, <1>3, <1>4 DEF TableOf, Mask, Stream

\* The receiver's table and what it has opened stay over a step of the sender.
LEMMA ReceiverLocalsStay ==
    ASSUME CircuitInv, Alone(S)
    PROVE  ReceiverLocals'
<1>1. /\ stage'[R] = stage[R] /\ fid'[R] = fid[R] /\ io'[R] = io[R] /\ calls'[R] = calls[R]
      /\ stash_size'[R] = stash_size[R] /\ remote'[R] = remote[R]
      /\ cuckoo_table' = cuckoo_table /\ opened' = opened /\ hint_features' = hint_features
  BY TwoParties DEF Alone, Others
<1>2. Number(R)' = Number(R) /\ HasRead(R)' = HasRead(R)
  BY <1>1 DEF Number, HasRead
<1>3. PICK n : n = Number(R) /\ n = Number(R)'
  BY <1>2
<1>4. /\ stage[R] \in {"stash"} \cup Placed => n \in DOMAIN calls[S] /\ n \in DOMAIN calls[R]
      /\ Opened \subseteq Placed /\ Compared \subseteq Opened /\ "feature_hint" \in Placed
  BY <1>3, BothCalled, TwoParties DEF InCall, Sizes, Placed, Hinted, Opened, Compared
<1>5. /\ stage[R] \in {"stash"} \cup Placed /\ TableOf(n) => TableOf(n)'
      /\ stage[R] \in Placed => MasksOf(n)' = MasksOf(n) /\ Features(n)' = Features(n)
  BY <1>1, <1>4, TableStays, ComesTo, TwoParties
<1>6. ReceiverLocals
  BY DEF CircuitInv
<1>7. /\ stage[R] = "stash" =>
          \/ stash_size[R] = 0 /\ TableOf(n)'
          \/ stash_size[R] = 1 /\ cuckoo_table = <<>>
      /\ stage[R] \in Placed => stash_size[R] = 0 /\ TableOf(n)'
      /\ stage[R] \notin {"stash"} \cup Placed => stash_size[R] = 0 /\ cuckoo_table = <<>>
  BY <1>3, <1>5, <1>6 DEF ReceiverLocals
<1>8. /\ stage[R] \notin Opened => opened = {}
      /\ \A o \in opened : cuckoo_table[o[1]].mask \in MasksOf(n)'
  BY <1>3, <1>4, <1>5, <1>6 DEF ReceiverLocals
<1>9. /\ stage[R] = "feature_hint" => Len(hint_features) = fid[R] - 1
      /\ stage[R] \in Compared => Len(hint_features) = Features(n)'
      /\ stage[R] \notin Opened => hint_features = <<>>
      /\ HasRead(R) =>
          /\ stage[R] = "equal" => remote[R] \in {0, 1}
          /\ stage[R] = "multiplexer" => remote[R] \in [input : Randoms, share : Randoms]
  BY <1>3, <1>4, <1>5, <1>6 DEF ReceiverLocals
<1> QED
  BY <1>1, <1>2, <1>3, <1>7, <1>8, <1>9 DEF ReceiverLocals

-----------------------------------------------------------------------------
(* Steps.                                                                  *)

\* A step inside init or a call.
LEMMA MovesOn ==
    ASSUME NEW p \in Party, Others(p),
           calls'[p] = calls[p], results'[p] = results[p],
           stage[p] \in Placed => stage'[p] \in Placed,
           stage[p] \in Hinted => stage'[p] \in Hinted,
           \A k \in DOMAIN Checked : Reached(p, k) => Reached(p, k)'
    PROVE  Alone(p)
<1>1. \A r \in Party : /\ calls'[r] = calls[r] /\ results'[r] = results[r]
                       /\ stage[r] \in Placed => stage'[r] \in Placed
                       /\ stage[r] \in Hinted => stage'[r] \in Hinted
  BY TwoParties DEF Others
<1>2. \A n : (ThroughStash(n) => ThroughStash(n)') /\ (ThroughHint(n) => ThroughHint(n)')
  <2>1. /\ calls'[R] = calls[R] /\ results'[R] = results[R]
        /\ calls'[S] = calls[S] /\ results'[S] = results[S]
        /\ stage[R] \in Placed => stage'[R] \in Placed
        /\ stage[S] \in Hinted => stage'[S] \in Hinted
    BY <1>1, TwoParties
  <2>2. Number(R)' = Number(R) /\ Number(S)' = Number(S)
    BY <2>1 DEF Number
  <2>3. Placed' = Placed /\ Hinted' = Hinted /\ Stashed' = Stashed
    BY DEF Placed, Hinted, Compared, Stashed
  <2>4. \A n : ThroughStash(n) => ThroughStash(n)'
    BY <2>1, <2>2, <2>3 DEF ThroughStash
  <2>5. \A n : ThroughHint(n) => ThroughHint(n)'
    BY <2>1, <2>2, <2>3, ThrewIs DEF ThroughHint, Threw, Ideal!Thrown
  <2> QED
    BY <2>4, <2>5
<1> QED
  BY <1>1, <1>2 DEF Alone

\* Nobody who calls is at a parameter.
LEMMA OutOfInit ==
    ASSUME NEW p \in Party, stage'[p] \in InCall \cup Rest
    PROVE  \A k \in DOMAIN Checked : Reached(p, k)'
BY CheckedIs DEF Reached, InCall, Rest, Sizes, Compared

\* A step that starts a call.
LEMMA CallStarts ==
    ASSUME CircuitInv, NEW p \in Party, Others(p), stage[p] = "idle",
           stage'[p] = "receiver_data", NEW call,
           calls'[p] = Append(calls[p], call), results'[p] = results[p]
    PROVE  Alone(p)
<1>1. \A n \in DOMAIN calls[p] : n \in DOMAIN calls'[p] /\ calls'[p][n] = calls[p][n]
  <2>1. calls[p] \in Seq(Calls[p])
    BY DEF CircuitInv, AreSequences
  <2> QED
    BY <2>1
<1>2. /\ results'[R] = results[R] /\ results'[S] = results[S]
      /\ p = R \/ (stage'[R] = stage[R] /\ calls'[R] = calls[R])
      /\ p = S \/ (stage'[S] = stage[S] /\ calls'[S] = calls[S])
  BY TwoParties DEF Others
<1>3. \A n : ThroughStash(n) => ThroughStash(n)'
  BY <1>2 DEF ThroughStash, Placed, Hinted, Compared, Number, Stashed
<1>4. \A n : ThroughHint(n) => ThroughHint(n)'
  BY <1>2, ThrewIs DEF ThroughHint, Hinted, Compared, Number, Threw, Ideal!Thrown
<1>5. \A k \in DOMAIN Checked : Reached(p, k)'
  BY OutOfInit DEF InCall, Sizes
<1> QED
  BY <1>1, <1>2, <1>3, <1>4, <1>5 DEF Alone

\* The result of a call comes after those of the calls before.
LEMMA ResultAdded ==
    ASSUME CircuitInv, NEW p \in Party, stage[p] \in InCall,
           NEW result, results'[p] = Append(results[p], result)
    PROVE  /\ Number(p) \in Nat \ {0} /\ DOMAIN results'[p] = 1..Number(p)
           /\ results'[p][Number(p)] = result
           /\ DOMAIN results[p] = 1..(Number(p) - 1)
           /\ \A k \in DOMAIN results[p] : results'[p][k] = results[p][k]
<1>1. PICK n : n = Number(p)
  OBVIOUS
<1>2. PICK len \in Nat : len = Len(results[p]) /\ n = len + 1
                         /\ DOMAIN results[p] = 1..len
  BY <1>1, CallNumber
<1>3. PICK s : s = results[p]
  OBVIOUS
<1>4. s \in Seq(Range(s)) /\ len = Len(s)
  BY <1>2, <1>3 DEF CircuitInv, AreSequences
<1>5. /\ Len(Append(s, result)) = len + 1 /\ DOMAIN Append(s, result) = 1..(len + 1)
      /\ Append(s, result)[len + 1] = result
      /\ \A k \in 1..len : Append(s, result)[k] = s[k]
  BY <1>4
<1> QED
  BY <1>1, <1>2, <1>3, <1>5

\* A step that ends one.
LEMMA CallEnds ==
    ASSUME CircuitInv, NEW p \in Party, Others(p), stage[p] \in InCall,
           NEW result, results'[p] = Append(results[p], result),
           calls'[p] = calls[p], stage'[p] = "idle",
           p = R /\ stage[R] \in Placed => result # Stashed,
           p = S /\ stage[S] \in Hinted => ~Threw(result)
    PROVE  Alone(p)
<1>1. PICK n : n = Number(p)
  OBVIOUS
<1>2. /\ n \in Nat \ {0} /\ DOMAIN results'[p] = 1..n /\ results'[p][n] = result
      /\ DOMAIN results[p] = 1..(n - 1)
      /\ \A k \in DOMAIN results[p] : results'[p][k] = results[p][k]
  BY <1>1, ResultAdded
<1>3. \A k \in DOMAIN results[p] : k \in DOMAIN results'[p] /\ k # n
  BY <1>2
<1>4. n \in DOMAIN results'[p]
  BY <1>2
<1>5. \A k : ThroughStash(k) => ThroughStash(k)'
  <2>1. CASE p = R
    BY <1>1, <1>2, <1>3, <1>4, <2>1 DEF ThroughStash, Stashed
  <2>2. CASE p = S
    <3>1. stage'[R] = stage[R] /\ calls'[R] = calls[R] /\ results'[R] = results[R]
      BY <2>2, TwoParties DEF Others
    <3> QED
      BY <3>1 DEF ThroughStash, Number, Stashed, Placed, Hinted, Compared
  <2> QED
    BY <2>1, <2>2, TwoParties
<1>6. \A k : ThroughHint(k) => ThroughHint(k)'
  <2>1. CASE p = S
    BY <1>1, <1>2, <1>3, <1>4, <2>1 DEF ThroughHint, Threw, Ideal!Thrown
  <2>2. CASE p = R
    <3>1. stage'[S] = stage[S] /\ calls'[S] = calls[S] /\ results'[S] = results[S]
      BY <2>2, TwoParties DEF Others
    <3> QED
      BY <3>1 DEF ThroughHint, Number, Threw, Ideal!Thrown, Hinted, Compared
  <2> QED
    BY <2>1, <2>2, TwoParties
<1>7. \A k \in DOMAIN Checked : Reached(p, k)'
  BY OutOfInit DEF Rest
<1> QED
  BY <1>2, <1>3, <1>5, <1>6, <1>7 DEF Alone

LEMMA OldResults ==
    ASSUME CircuitInv, NEW p \in Party, Alone(p), NEW r \in Party, NEW n \in DOMAIN results[r]
    PROVE  /\ n \in DOMAIN calls'[Peer(r)]
           /\ r = S => IF results[S][n] = Stashed
                       THEN n \in DOMAIN results'[R] /\ results'[R][n] = Stashed
                       ELSE ThroughStash(n)'
           /\ r = R => /\ results[R][n] = HintStashed =>
                             n \in DOMAIN results'[S] /\ results'[S][n] = HintStashed
                       /\ ~Threw(results[R][n]) => ThroughHint(n)'
<1>1. n \in DOMAIN calls'[Peer(r)]
  BY CallNumber, CallsLast, TwoParties
<1>2. \A q \in Party : n \in DOMAIN results[q] =>
         n \in DOMAIN results'[q] /\ results'[q][n] = results[q][n]
  BY CallsLast
<1>3. Ended /\ (ThroughStash(n) => ThroughStash(n)') /\ (ThroughHint(n) => ThroughHint(n)')
  BY DEF CircuitInv, Alone
<1> QED
  BY <1>1, <1>2, <1>3, TwoParties DEF Ended

\* A step that ends no call.
LEMMA ResultsStay ==
    ASSUME CircuitInv, NEW p \in Party, Alone(p), results'[p] = results[p]
    PROVE  Ended'
<1>1. \A r \in Party : results'[r] = results[r]
  BY TwoParties DEF Alone, Others
<1>2. \A r \in Party : \A n \in DOMAIN results'[r] : n \in DOMAIN calls'[Peer(r)]
  BY <1>1, OldResults
<1>3. \A n \in DOMAIN results'[S] :
         IF results'[S][n] = Stashed THEN n \in DOMAIN results'[R] /\ results'[R][n] = Stashed
         ELSE ThroughStash(n)'
  BY <1>1, OldResults, TwoParties
<1>4. \A n \in DOMAIN results'[R] :
         /\ results'[R][n] = HintStashed =>
                n \in DOMAIN results'[S] /\ results'[S][n] = HintStashed
         /\ ~Threw(results'[R][n]) => ThroughHint(n)'
  BY <1>1, OldResults, TwoParties
<1> QED
  BY <1>2, <1>3, <1>4 DEF Ended, Stashed, HintStashed, Threw, Ideal!Thrown

\* A step that ends one.
LEMMA ResultsGrow ==
    ASSUME CircuitInv, NEW p \in Party, Alone(p), stage[p] \in InCall,
           NEW result, results'[p] = Append(results[p], result),
           NEW n, n = Number(p), n \in DOMAIN calls[Peer(p)],
           p = S => IF result = Stashed THEN n \in DOMAIN results[R] /\ results[R][n] = Stashed
                    ELSE ThroughStash(n),
           p = R => /\ result = HintStashed =>
                          n \in DOMAIN results[S] /\ results[S][n] = HintStashed
                    /\ ~Threw(result) => ThroughHint(n)
    PROVE  Ended'
<1>1. /\ n \in Nat \ {0} /\ DOMAIN results'[p] = 1..n /\ results'[p][n] = result
      /\ DOMAIN results[p] = 1..(n - 1)
      /\ \A k \in DOMAIN results[p] : results'[p][k] = results[p][k]
  BY ResultAdded
<1>2. results'[Peer(p)] = results[Peer(p)] /\ calls'[Peer(p)] = calls[Peer(p)]
  BY DEF Alone, Others
<1>3. ASSUME NEW r \in Party, NEW k \in DOMAIN results'[r], ~(r = p /\ k = n)
      PROVE  k \in DOMAIN results[r] /\ results'[r][k] = results[r][k]
  BY <1>1, <1>2, <1>3, TwoParties
<1>4. (ThroughStash(n) => ThroughStash(n)') /\ (ThroughHint(n) => ThroughHint(n)')
  BY DEF Alone
<1>5. \A q \in Party : n \in DOMAIN results[q] =>
         n \in DOMAIN results'[q] /\ results'[q][n] = results[q][n]
  BY CallsLast
<1>6. \A r \in Party : \A k \in DOMAIN results'[r] : k \in DOMAIN calls'[Peer(r)]
  <2>1. ASSUME NEW r \in Party, NEW k \in DOMAIN results'[r]
        PROVE  k \in DOMAIN calls'[Peer(r)]
    <3>1. CASE r = p /\ k = n
      BY <1>2, <3>1
    <3>2. CASE ~(r = p /\ k = n)
      BY <1>3, <3>2, OldResults
    <3> QED
      BY <3>1, <3>2
  <2> QED
    BY <2>1
<1>7. \A k \in DOMAIN results'[S] :
         IF results'[S][k] = Stashed THEN k \in DOMAIN results'[R] /\ results'[R][k] = Stashed
         ELSE ThroughStash(k)'
  <2>1. ASSUME NEW k \in DOMAIN results'[S]
        PROVE  IF results'[S][k] = Stashed
               THEN k \in DOMAIN results'[R] /\ results'[R][k] = Stashed
               ELSE ThroughStash(k)'
    <3>1. CASE S = p /\ k = n
      BY <1>1, <1>4, <1>5, <3>1, TwoParties
    <3>2. CASE ~(S = p /\ k = n)
      <4>1. k \in DOMAIN results[S] /\ results'[S][k] = results[S][k]
        BY <1>3, <3>2, TwoParties
      <4> QED
        BY <4>1, OldResults, TwoParties
    <3> QED
      BY <3>1, <3>2
  <2> QED
    BY <2>1
<1>8. \A k \in DOMAIN results'[R] :
         /\ results'[R][k] = HintStashed =>
                k \in DOMAIN results'[S] /\ results'[S][k] = HintStashed
         /\ ~Threw(results'[R][k]) => ThroughHint(k)'
  <2>1. ASSUME NEW k \in DOMAIN results'[R]
        PROVE  /\ results'[R][k] = HintStashed =>
                      k \in DOMAIN results'[S] /\ results'[S][k] = HintStashed
               /\ ~Threw(results'[R][k]) => ThroughHint(k)'
    <3>1. CASE R = p /\ k = n
      BY <1>1, <1>4, <1>5, <3>1, TwoParties
    <3>2. CASE ~(R = p /\ k = n)
      <4>1. k \in DOMAIN results[R] /\ results'[R][k] = results[R][k]
        BY <1>3, <3>2, TwoParties
      <4> QED
        BY <4>1, OldResults, TwoParties
    <3> QED
      BY <3>1, <3>2
  <2> QED
    BY <2>1
<1> QED
  BY <1>6, <1>7, <1>8 DEF Ended, Stashed, HintStashed, Threw, Ideal!Thrown

\* What is left to show of a step of p.
LEMMA Together ==
    ASSUME CircuitInv, NEW p \in Party, Alone(p), TypeOK', AreSequences', Control(p)',
           Knows(p)', \A q \in Party : InOrder(q)',
           p = S => SenderLocals', p = R => ReceiverLocals', Ended'
    PROVE  CircuitInv'
<1>1. \A q \in Party : Control(q)' /\ Knows(q)'
  BY PeerControlStays, PeerKnowsStays, TwoParties
<1>2. SenderLocals' /\ ReceiverLocals'
  BY SenderLocalsStay, ReceiverLocalsStay, TwoParties
<1> QED
  BY <1>1, <1>2 DEF CircuitInv

-----------------------------------------------------------------------------
(* Channels over a step of p.                                              *)

\* A sequence is one of its own elements.
LEMMA OwnRange ==
    ASSUME NEW T, NEW s \in Seq(T)
    PROVE  s \in Seq(Range(s))
<1>1. PICK len \in Nat : len = Len(s) /\ DOMAIN s = 1..len /\ s \in [1..len -> T]
  BY LenProperties
<1>2. \A i \in 1..len : s[i] \in Range(s)
  BY <1>1 DEF Range
<1>3. s \in [1..len -> Range(s)]
  BY <1>1, <1>2
<1> QED
  BY <1>1, <1>3

LEMMA QuietOrder ==
    ASSUME CircuitInv, NEW p \in Party, Alone(p), chan' = chan,
           \A d \in Party : Last(d, p)' = Last(d, p)
    PROVE  \A q \in Party : InOrder(q)'
<1>1. \A q \in Party : \A d \in Party : Last(d, q)' = Last(d, q)
  BY EndsStay, TwoParties
<1>2. \A q \in Party : Lasting(q) /\ InOrder(q) /\ Peer(q) \in Party
  BY MessagesLast, TwoParties DEF CircuitInv
<1> QED
  BY <1>1, <1>2, KeepOrder

\* In init and in the calls, what comes before a stage lasts.
LEMMA BeforeStage ==
    ASSUME CircuitInv, NEW p \in Party, Alone(p), NEW d \in Party,
           NEW s \in InInit \cup InCall, NEW f, NEW n, n = Number(p),
           s \in Sizes => stage[p] \in InCall,
           s = "equal" => stage[p] \in InCall \ Sizes
    PROVE  Previous(d, p, n, s, f)' = Previous(d, p, n, s, f)
<1>1. s # "idle"
  BY InitStages DEF InCall, Sizes, Compared
<1>2. s \in Sizes => n - 1 = 0 \/ n - 1 \in DOMAIN results[p]
  BY CallNumber
<1>3. s = "equal" => n \in DOMAIN calls[S]
  BY BothCalled
<1> QED
  BY <1>1, <1>2, <1>3, PreviousLasts DEF Sizes

\* A step that writes the message of its stage.
LEMMA SendsOrder ==
    ASSUME CircuitInv, NEW p \in Party, Alone(p), stage[p] \in InInit \cup InCall,
           ~HasWritten(p), NEW q \in Party, q = Peer(p),
           NEW width, NEW value, Post(p, width, value),
           NEW m, m = [is |-> stage[p], fid |-> fid[p], width |-> width, value |-> value],
           Last(p, p)' = Last(p, p),
           NEW n, n = Number(p), Says(q, n, m)',
           Last(q, p)' = Place(n, stage[p], fid[p])
    PROVE  /\ \A r \in Party : InOrder(r)'
           /\ DOMAIN chan' = Party /\ \A r \in Party : chan'[r] \in Seq(Range(chan'[r]))
<1>1. /\ Peer(q) = p /\ q # p /\ Lasting(q) /\ Lasting(p) /\ InOrder(q) /\ InOrder(p)
      /\ \A d \in Party : Last(d, q)' = Last(d, q)
  BY MessagesLast, EndsStay, TwoParties DEF CircuitInv
<1>2. DOMAIN chan = Party /\ \A r \in Party : chan[r] \in Seq(Range(chan[r]))
  BY DEF CircuitInv, AreSequences
<1>3. chan' = [chan EXCEPT ![q] = Append(@, m)]
  BY DEF Post
<1>4. chan'[p] = chan[p] /\ chan'[q] = Append(chan[q], m) /\ DOMAIN chan' = Party
  BY <1>1, <1>2, <1>3
<1>5. InOrder(p)'
  BY <1>1, <1>4, KeepOrder
<1>6. n \in 0..MaxCalls
  <2>1. n \in Nat /\ n <= MaxCalls /\ MaxCalls \in Nat
    BY CallNumber, CircuitBoundsAssumption
  <2> QED
    BY <2>1
<1>7. m.is = stage[p] /\ m.fid = fid[p]
  OBVIOUS
<1>8. Last(q, p) = Previous(q, p, n, m.is, m.fid)
  BY <1>1, <1>7 DEF Last
<1>9. Previous(q, p, n, m.is, m.fid)' = Previous(q, p, n, m.is, m.fid)
  <2>1. m.is \in Sizes => stage[p] \in InCall
    BY <1>7 DEF InCall
  <2>2. m.is = "equal" => stage[p] \in InCall \ Sizes
    BY <1>7 DEF InCall, Compared, Sizes
  <2> QED
    BY <1>7, <2>1, <2>2, BeforeStage
<1>10. PICK before : before = Last(q, p)
  OBVIOUS
<1>11. Carries(q, before, n, m)'
  BY <1>1, <1>8, <1>9, <1>10 DEF Carries
<1>12. Last(q, Peer(q))' = Place(n, m.is, m.fid) /\ before = Last(q, Peer(q))
  BY <1>1, <1>7, <1>10
<1>13. chan[q] \in Seq(Range(chan[q])) /\ Last(q, q)' = Last(q, q)
  BY <1>1, <1>2
<1>14. InOrder(q)'
  BY <1>1, <1>4, <1>6, <1>11, <1>12, <1>13, SendOrder
<1>15. chan'[q] \in Seq(Range(chan'[q]))
  <2>1. PICK T : T = Range(chan[q]) \cup {m}
    OBVIOUS
  <2>2. chan[q] \in Seq(T)
    BY <1>2, <2>1, SeqMonotonic
  <2>3. chan'[q] \in Seq(T)
    BY <1>4, <2>1, <2>2
  <2> QED
    BY <2>3, OwnRange
<1> QED
  BY <1>1, <1>2, <1>4, <1>5, <1>14, <1>15, TwoParties

\* What a read finds.
LEMMA Found ==
    ASSUME CircuitInv, NEW p \in Party, io[p] = "recv", NEW width, Take(p, width)
    PROVE  /\ Says(p, Number(p), Head(chan[p]))
           /\ Head(chan[p]).is = stage[p] /\ Head(chan[p]).fid = fid[p]
           /\ Head(chan[p]).width = width
<1>1. chan[p] # <<>> /\ Head(chan[p]).width = width
  BY DEF Take
<1>2. PICK n \in 0..MaxCalls : Carries(p, Last(p, p), n, Head(chan[p]))
  BY <1>1, HeadFollows DEF CircuitInv
<1>3. n = Number(p) /\ Head(chan[p]).is = stage[p] /\ Head(chan[p]).fid = fid[p]
  BY <1>2, FoundMessage
<1> QED
  BY <1>1, <1>2, <1>3 DEF Carries

\* A step that reads the message of its stage.
LEMMA ReadsOrder ==
    ASSUME CircuitInv, NEW p \in Party, Alone(p), io[p] = "recv",
           NEW width, Take(p, width),
           Last(Peer(p), p)' = Last(Peer(p), p),
           Last(p, p)' = Place(Number(p), stage[p], fid[p])
    PROVE  /\ \A r \in Party : InOrder(r)'
           /\ DOMAIN chan' = Party /\ \A r \in Party : chan'[r] \in Seq(Range(chan'[r]))
<1>1. PICK q \in Party : q = Peer(p) /\ q # p /\ p = Peer(q)
  BY TwoParties
<1>2. /\ Lasting(q) /\ Lasting(p) /\ InOrder(q) /\ InOrder(p)
      /\ \A d \in Party : Last(d, q)' = Last(d, q)
  BY <1>1, MessagesLast, EndsStay DEF CircuitInv
<1>3. DOMAIN chan = Party /\ \A r \in Party : chan[r] \in Seq(Range(chan[r]))
  BY DEF CircuitInv, AreSequences
<1>4. chan[p] # <<>> /\ chan' = [chan EXCEPT ![p] = Tail(@)]
  BY DEF Take
<1>5. chan'[q] = chan[q] /\ chan'[p] = Tail(chan[p]) /\ DOMAIN chan' = Party
  BY <1>1, <1>3, <1>4
<1>6. InOrder(q)'
  BY <1>1, <1>2, <1>5, KeepOrder
<1>7. PICK m : m = Head(chan[p])
  OBVIOUS
<1>8. \A n \in 0..MaxCalls : Carries(p, Last(p, p), n, m) =>
                                Last(p, p)' = Place(n, m.is, m.fid)
  BY FoundMessage
<1>9. chan[p] \in Seq(Range(chan[p])) /\ Last(p, Peer(p))' = Last(p, Peer(p))
  BY <1>1, <1>2, <1>3
<1>10. InOrder(p)'
  BY <1>2, <1>4, <1>5, <1>7, <1>8, <1>9, ReadOrder
<1>11. chan'[p] \in Seq(Range(chan'[p]))
  <2>1. Tail(chan[p]) \in Seq(Range(chan[p]))
    BY <1>3, <1>4
  <2> QED
    BY <1>5, <2>1, OwnRange
<1> QED
  BY <1>1, <1>3, <1>5, <1>6, <1>10, <1>11, TwoParties

-----------------------------------------------------------------------------
(* Entering a stage.                                                       *)

Stages == TwoWay \cup OneWay \cup Rest

LEMMA StagesAre ==
    /\ InInit \cup InCall \cup Rest = Stages
    /\ InInit \cap InCall = {} /\ InInit \cap Rest = {} /\ InCall \cap Rest = {}
    /\ Compared \subseteq Opened /\ Opened \subseteq Hinted /\ Hinted \subseteq Placed
    /\ Placed \subseteq InCall /\ Placed \cap Sizes = {} /\ Sizes \subseteq InCall
<1>1. /\ InCall = {"receiver_data", "receiver_features", "sender_data", "sender_features",
                   "hash", "stash", "ot", "hint_hash", "hint_stash", "hint",
                   "feature_hint", "equal", "multiplexer"}
      /\ Rest = {"idle", "threw"}
  BY DEF InCall, Sizes, Rest
<1>2. Stages = {"epsilon", "epsilon_hint", "num_of_fun", "num_of_fun_hint", "seed",
                "base_ot", "mpc"} \cup InCall \cup Rest
  BY <1>1, CheckedIs DEF Stages, TwoWay, OneWay, Sizes
<1> QED
  BY <1>1, <1>2, InitStages DEF Compared, Opened, Hinted, Placed, Sizes

\* A party enters a stage with its exchange, if it has one, still to come.
LEMMA Entered ==
    ASSUME CircuitInv, NEW p \in Party, NEW s \in Stages, NEW f \in Nat \ {0},
           EnterAt(p, s, f)
    PROVE  /\ stage' \in [Party -> Stages] /\ fid' \in [Party -> Nat \ {0}]
           /\ io' \in [Party -> {"send", "recv", "done", "none"}]
           /\ stage'[p] = s /\ io'[p] = Starts(s, p) /\ fid'[p] = f
           /\ \A q \in Party \ {p} :
                 stage'[q] = stage[q] /\ io'[q] = io[q] /\ fid'[q] = fid[q]
           /\ ~HasRead(p)' /\ ~HasWritten(p)'
<1>1. /\ stage \in [Party -> Stages] /\ fid \in [Party -> Nat \ {0}]
      /\ io \in [Party -> {"send", "recv", "done", "none"}]
  BY DEF CircuitInv, TypeOK, Stages
<1>2. Starts(s, p) \in {"send", "recv", "none"}
  BY DEF Starts, First, Peer
<1>3. /\ stage' = [stage EXCEPT ![p] = s] /\ io' = [io EXCEPT ![p] = Starts(s, p)]
      /\ fid' = [fid EXCEPT ![p] = f]
  BY DEF EnterAt
<1>4. /\ stage' \in [Party -> Stages] /\ fid' \in [Party -> Nat \ {0}]
      /\ io' \in [Party -> {"send", "recv", "done", "none"}]
      /\ stage'[p] = s /\ io'[p] = Starts(s, p) /\ fid'[p] = f
      /\ \A q \in Party \ {p} :
            stage'[q] = stage[q] /\ io'[q] = io[q] /\ fid'[q] = fid[q]
  BY <1>1, <1>2, <1>3
<1>5. Starts(stage[p], p)' = Starts(s, p)
  BY <1>4 DEF Starts
<1> QED
  BY <1>2, <1>4, <1>5 DEF HasRead, HasWritten

\* The last messages of a party that has entered a stage.
LEMMA EnteredLast ==
    ASSUME CircuitInv, NEW p \in Party, Alone(p), NEW s \in InInit \cup InCall,
           NEW f \in Nat \ {0}, EnterAt(p, s, f), calls'[p] = calls[p],
           s \in Sizes => stage[p] \in InCall,
           s = "equal" => stage[p] \in InCall \ Sizes,
           NEW d \in Party
    PROVE  Last(d, p)' = Previous(d, p, Number(p), s, f)
<1>1. PICK n : n = Number(p) /\ n = Number(p)'
  BY Zenon DEF Number
<1>2. Previous(d, p, n, s, f)' = Previous(d, p, n, s, f)
  <2>1. n = Number(p) /\ (s \in Sizes => stage[p] \in InCall)
        /\ (s = "equal" => stage[p] \in InCall \ Sizes)
    BY <1>1
  <2> QED
    BY <2>1, BeforeStage
<1>3. stage'[p] = s /\ fid'[p] = f /\ ~HasRead(p)' /\ ~HasWritten(p)'
  BY Entered, StagesAre
<1>4. Last(d, p)' = Previous(d, p, n, s, f)'
  BY <1>1, <1>3 DEF Last
<1> QED
  BY <1>1, <1>2, <1>4

\* The last messages of a party whose exchange is still to come.
LEMMA AtStart ==
    ASSUME CircuitInv, NEW p \in Party, stage[p] \notin TwoWay
    PROVE  /\ io[p] = Starts(stage[p], p) /\ ~HasRead(p) /\ ~HasWritten(p)
           /\ \A d \in Party : Last(d, p) = Previous(d, p, Number(p), stage[p], fid[p])
<1>1. io[p] = Starts(stage[p], p)
  BY Zenon DEF CircuitInv, Control
<1>2. Starts(stage[p], p) \in {"send", "recv", "none"}
  BY DEF Starts, First, Peer
<1>3. ~HasRead(p) /\ ~HasWritten(p)
  BY <1>1, <1>2 DEF HasRead, HasWritten
<1> QED
  BY <1>1, <1>3 DEF Last

\* And of one whose exchange is over.
LEMMA AtEnd ==
    ASSUME NEW p \in Party, io[p] = "done", NEW d \in Party
    PROVE  Last(d, p) = Place(Number(p), stage[p], fid[p])
BY DEF Last, HasRead, HasWritten

\* The types of what a party computes with in a call.
LocalsType ==
    /\ cuckoo_table \in Seq([bin : Nat \ {0}, mask : Masks])
    /\ \A mask \in DOMAIN hint_table : mask \in Masks /\ hint_table[mask] \in Nat \ {0}
    /\ stash_size \in [Party -> Nat]
    /\ contents \in Seq(Randoms)
    /\ opened \subseteq (DOMAIN cuckoo_table) \X (Nat \ {0})
    /\ \A o1, o2 \in opened : o1[1] = o2[1] => o1 = o2
    /\ \A k \in DOMAIN hint_features : hint_features[k] \in [opened -> Word]
    /\ output_shares \in [Party -> Seq(Seq(Word))]

ControlType ==
    /\ stage \in [Party -> Stages] /\ fid \in [Party -> Nat \ {0}]
    /\ io \in [Party -> {"send", "recv", "done", "none"}]

CallsType ==
    /\ params \in [Party -> Params]
    /\ \A p \in Party : \A n \in DOMAIN calls[p] : calls[p][n] \in Calls[p]

ResultsType ==
    \A p \in Party : \A n \in DOMAIN results[p] :
        Threw(results[p][n]) \/ results[p][n].columns \in Seq(Seq(Word))

LEMMA TypeParts ==
    TypeOK <=> /\ CallsType /\ ResultsType /\ ControlType /\ LocalsType
               /\ peer_size \in [Party -> [data : Nat, features : Nat]]
               /\ common_prng \in [Party -> Prng]
BY Zenon DEF TypeOK, CallsType, ResultsType, ControlType, LocalsType, Stages

\* A step that leaves the calls and their results alone.
LEMMA TypeAfter ==
    ASSUME TypeOK, UNCHANGED <<params, calls, results>>, ControlType', LocalsType',
           peer_size' \in [Party -> [data : Nat, features : Nat]],
           common_prng' \in [Party -> Prng]
    PROVE  TypeOK'
<1>1. CallsType' /\ ResultsType'
  BY TypeParts DEF CallsType, ResultsType, Threw, Ideal!Thrown
<1> QED
  BY Zenon, <1>1 DEF TypeOK, CallsType, ResultsType, ControlType, LocalsType, Stages

LEMMA LocalsTypeStays ==
    ASSUME TypeOK, UNCHANGED locals
    PROVE  LocalsType'
BY DEF TypeOK, LocalsType, locals, tables, Masks, Prng, Word

LEMMA EnteredType ==
    ASSUME CircuitInv, NEW p \in Party, NEW s \in Stages, NEW f \in Nat \ {0},
           EnterAt(p, s, f)
    PROVE  ControlType'
BY Entered DEF ControlType, Stages

LEMMA DrawType ==
    ASSUME TypeOK, NEW p \in Party, Draw(p)
    PROVE  /\ common_prng' \in [Party -> Prng]
           /\ common_prng'[p] = [seed |-> common_prng[p].seed, draws |-> common_prng[p].draws + 1]
           /\ \A q \in Party \ {p} : common_prng'[q] = common_prng[q]
<1>1. common_prng \in [Party -> [seed : SUBSET (Nat \ {0}), draws : Nat]]
  BY DEF TypeOK, Prng
<1>2. common_prng' = [common_prng EXCEPT ![p].draws = @ + 1]
  BY DEF Draw
<1> QED
  BY <1>1, <1>2 DEF Prng

\* Calls, results and columns stay sequences.
LEMMA SequencesStay ==
    ASSUME CircuitInv, UNCHANGED <<calls, results, hint_features>>, DOMAIN chan' = Party,
           \A r \in Party : chan'[r] \in Seq(Range(chan'[r])),
           DOMAIN sent' = Party, DOMAIN remote' = Party
    PROVE  AreSequences'
BY DEF CircuitInv, AreSequences

-----------------------------------------------------------------------------
(* Draws.                                                                  *)

LEMMA FailuresType ==
    ASSUME NEW r, NEW table, NEW n \in Int
    PROVE  Failures(r, table, n) \in Nat
<1>1. IsFiniteSet(1..n)
  BY FS_Interval
<1>2. IsFiniteSet({k \in 1..n : results[r][k] = [threw |-> table]})
  BY <1>1, FS_Subset
<1> QED
  BY <1>2, FS_CardinalityType DEF Failures

LEMMA DrawnType ==
    ASSUME NEW r, NEW n \in Int
    PROVE  Drawn(r, n) \in Int
<1>1. n - 1 \in Int
  OBVIOUS
<1>2. Failures(r, "stash", n - 1) \in Nat /\ Failures(r, "hint_stash", n - 1) \in Nat
  BY <1>1, FailuresType
<1> QED
  BY <1>2 DEF Drawn

\* A step from one stage of a call to another, past the sizes.
LEMMA StepsInCall ==
    ASSUME CircuitInv, NEW p \in Party, Others(p),
           stage[p] \in InCall, stage[p] \notin Sizes, NEW s \in InCall, s \notin Sizes,
           NEW f \in Nat \ {0}, EnterAt(p, s, f),
           calls'[p] = calls[p], results'[p] = results[p], peer_size'[p] = peer_size[p],
           stage[p] \in Placed => s \in Placed, stage[p] \in Hinted => s \in Hinted,
           s = "hint_hash" => p = S,
           IF s \in {"feature_hint", "multiplexer"} THEN f \in 1..Features(Number(p)) ELSE f = 1,
           NEW k \in Nat, DrawsIn(p, s) = DrawsIn(p, stage[p]) + k,
           common_prng'[p] = [seed |-> common_prng[p].seed, draws |-> common_prng[p].draws + k],
           s = "multiplexer" => Len(output_shares'[p]) = f,
           s # "multiplexer" => output_shares'[p] = <<>>,
           p = S /\ s \in Placed => ThroughStash(Number(p)),
           p = R /\ s \in Hinted => ThroughHint(Number(p))
    PROVE  /\ Alone(p) /\ Control(p)' /\ Knows(p)' /\ Ended'
           /\ \A d \in Party : Last(d, p)' = Previous(d, p, Number(p), s, f)
<1>1. s \in Stages /\ s \notin InInit /\ s \notin Rest /\ s \notin Range(Checked)
      /\ stage[p] \notin InInit /\ stage[p] \notin Rest
  BY StagesAre DEF InInit
<1>2. /\ stage'[p] = s /\ io'[p] = Starts(s, p) /\ fid'[p] = f
      /\ ~HasRead(p)' /\ ~HasWritten(p)'
  BY <1>1, Entered
<1>3. Alone(p)
  <2>1. \A j \in DOMAIN Checked : Reached(p, j)'
    BY <1>2, OutOfInit
  <2> QED
    BY <1>2, <2>1, MovesOn
<1>4. PICK n : n = Number(p) /\ n = Number(p)'
  BY Zenon DEF Number
<1>5. /\ n \in DOMAIN calls[S] /\ n \in DOMAIN calls[R]
      /\ n \in Nat /\ n > 0 /\ n <= MaxCalls /\ n = Len(results[p]) + 1
      /\ n \in DOMAIN calls[Peer(p)]
      /\ peer_size[p].data = Len(calls[Peer(p)][n].keys)
      /\ peer_size[p].features = Len(calls[Peer(p)][n].features)
  <2>1. /\ n \in DOMAIN calls[S] /\ n \in DOMAIN calls[R] /\ n \in Nat /\ n > 0
        /\ peer_size[p].data = Len(calls[Peer(p)][n].keys)
        /\ peer_size[p].features = Len(calls[Peer(p)][n].features)
    BY Zenon, <1>4, BothCalled
  <2>2. n <= MaxCalls /\ n = Len(results[p]) + 1
    BY Zenon, <1>4, CallNumber
  <2> QED
    BY <2>1, <2>2, TwoParties
<1>6. Control(p)'
  <2>1. Draws(p)' = common_prng[p].draws + k
    <3>1. Draws(p) = Drawn(p, n) + DrawsIn(p, stage[p]) /\ common_prng[p].draws = Draws(p)
      <4>1. Control(p)
        BY DEF CircuitInv
      <4>2. common_prng[p].draws = Draws(p)
        BY <4>1 DEF Control
      <4> QED
        BY Zenon, <1>4, <4>2 DEF Draws
    <3>2. Draws(p)' = Drawn(p, n)' + DrawsIn(p, s)
      <4>1. DrawsIn(p, s)' = DrawsIn(p, s)
        BY DEF DrawsIn
      <4> QED
        BY <1>2, <1>4, <4>1 DEF Draws, InCall, Sizes, Compared
    <3>3. Drawn(p, n)' = Drawn(p, n)
      BY DEF Drawn, Failures
    <3>4. Drawn(p, n) \in Int /\ DrawsIn(p, stage[p]) \in Int /\ DrawsIn(p, s) \in Int
      BY <1>5, DrawnType DEF DrawsIn
    <3> QED
      BY <3>1, <3>2, <3>3, <3>4
  <2>2. common_prng[p].seed = {1, 2}
    <3>1. Control(p) /\ stage[p] \notin Range(Checked) \cup {"seed", "threw"}
      BY <1>1 DEF CircuitInv, InInit, Rest
    <3>2. common_prng[p] = [seed |-> {1, 2}, draws |-> Draws(p)]
      BY <3>1 DEF Control
    <3> QED
      BY <3>2
  <2>3. Features(n)' = Features(n)
    BY <1>3, <1>5, ComesTo
  <2>4. /\ s \in {"feature_hint", "multiplexer"} => fid'[p] \in 1..Features(n)'
        /\ s \notin {"feature_hint", "multiplexer"} => fid'[p] = 1
    BY <1>2, <1>4, <2>3
  <2>5. /\ s \in TwoWay => io'[p] # "none"
        /\ s \notin TwoWay => io'[p] = Starts(s, p)
    BY <1>2 DEF Starts, First, Peer, TwoWay, Rest
  <2>6. common_prng'[p] = [seed |-> {1, 2}, draws |-> Draws(p)']
    BY <2>1, <2>2
  <2>7. s \notin Range(Checked) \cup {"seed", "threw"} /\ s # "threw"
    BY <1>1 DEF InInit, Rest
  <2>8. /\ s \in InInit \cup {"threw"} => Number(p)' = 0
        /\ s \in InCall => Number(p)' > 0
        /\ s = "hint_hash" => p = S
        /\ Number(p)' <= MaxCalls
        /\ s \in InCall => Number(p)' = Len(results'[p]) + 1
        /\ s \notin InCall => Number(p)' = Len(results'[p])
    BY <1>1, <1>4, <1>5, <2>7
  <2> QED
    BY <1>2, <1>4, <2>4, <2>5, <2>6, <2>7, <2>8 DEF Control, Starts
<1>7. Knows(p)'
  <2>1. params' = params
    BY DEF Others
  <2>2. \A j \in DOMAIN Checked : params[p][Checked[j]] = params[Peer(p)][Checked[j]]
    <3>1. stage[p] \notin {Checked[j] : j \in DOMAIN Checked} /\ stage[p] # "threw"
      BY <1>1 DEF InInit, Range, Rest
    <3>2. \A j \in DOMAIN Checked : stage[p] \notin {Checked[i] : i \in 1..j}
      BY <3>1, CheckedIs
    <3> QED
      BY <3>1, <3>2 DEF CircuitInv, Knows
  <2>3. calls'[Peer(p)] = calls[Peer(p)]
    BY DEF Others
  <2>4. \A j \in DOMAIN Checked : s # Checked[j]
    BY <1>1 DEF Range
  <2>5. /\ p = S /\ s \in Placed => ThroughStash(n)'
        /\ p = R /\ s \in Hinted => ThroughHint(n)'
    BY <1>3, <1>4 DEF Alone
  <2> QED
    BY <1>1, <1>2, <1>4, <1>5, <2>1, <2>2, <2>3, <2>4, <2>5, InitStages
    DEF Knows, Rest
<1>8. Ended'
  BY <1>3, ResultsStay
<1>9. \A d \in Party : Last(d, p)' = Previous(d, p, Number(p), s, f)
  BY <1>3, EnteredLast
<1> QED
  BY <1>3, <1>6, <1>7, <1>8, <1>9

\* A step that draws nothing.
LEMMA StepsWithoutDraw ==
    ASSUME CircuitInv, NEW p \in Party, Others(p), NEW n, n = Number(p),
           stage[p] \in InCall \ Sizes, NEW s \in InCall \ Sizes, NEW f \in Nat \ {0},
           EnterAt(p, s, f), UNCHANGED <<calls, results, peer_size, common_prng>>,
           stage[p] \in Placed => s \in Placed, stage[p] \in Hinted => s \in Hinted,
           s = "hint_hash" => p = S,
           IF s \in {"feature_hint", "multiplexer"} THEN f \in 1..Features(n) ELSE f = 1,
           DrawsIn(p, s) = DrawsIn(p, stage[p]),
           s = "multiplexer" => Len(output_shares'[p]) = f,
           s # "multiplexer" => output_shares'[p] = <<>>,
           p = S /\ s \in Placed => ThroughStash(n),
           p = R /\ s \in Hinted => ThroughHint(n)
    PROVE  /\ Alone(p) /\ Control(p)' /\ Knows(p)' /\ Ended'
           /\ \A d \in Party : Last(d, p)' = Previous(d, p, n, s, f)
<1>1. PICK k \in Nat : k = 0
  OBVIOUS
<1>2. DrawsIn(p, s) \in Nat
  BY DEF DrawsIn
<1>3. DrawsIn(p, s) = DrawsIn(p, stage[p]) + k
  BY <1>1, <1>2
<1>4. common_prng[p] = [seed |-> common_prng[p].seed, draws |-> common_prng[p].draws]
      /\ common_prng[p].draws \in Nat
  BY DEF CircuitInv, TypeOK, Prng
<1>5. common_prng'[p] = [seed |-> common_prng[p].seed, draws |-> common_prng[p].draws + k]
  BY <1>1, <1>4
<1>6. /\ stage[p] \in InCall /\ stage[p] \notin Sizes /\ s \in InCall /\ s \notin Sizes
      /\ calls'[p] = calls[p] /\ results'[p] = results[p] /\ peer_size'[p] = peer_size[p]
  OBVIOUS
<1>7. /\ IF s \in {"feature_hint", "multiplexer"} THEN f \in 1..Features(Number(p)) ELSE f = 1
      /\ p = S /\ s \in Placed => ThroughStash(Number(p))
      /\ p = R /\ s \in Hinted => ThroughHint(Number(p))
  OBVIOUS
<1>8. /\ Alone(p) /\ Control(p)' /\ Knows(p)' /\ Ended'
      /\ \A d \in Party : Last(d, p)' = Previous(d, p, Number(p), s, f)
  BY Zenon, <1>3, <1>5, <1>6, <1>7, StepsInCall
<1> QED
  BY <1>8

-----------------------------------------------------------------------------
(* Tables.                                                                 *)

\* Before its hints the sender has nothing.
LEMMA NoHints ==
    /\ CircuitInv /\ stage[S] \notin {"hint_stash"} \cup Hinted =>
          stash_size[S] = 0 /\ hint_table = <<>> /\ contents = <<>>
    /\ /\ stage'[S] \notin {"hint_stash"} \cup Hinted
       /\ stash_size'[S] = 0 /\ hint_table' = <<>> /\ contents' = <<>>
       => SenderLocals'
<1>1. "feature_hint" \in Hinted /\ "equal" \in Hinted /\ "multiplexer" \in Hinted
      /\ Compared \subseteq Hinted /\ Opened \subseteq Hinted
  BY DEF Hinted, Compared, Opened
<1>2. CircuitInv /\ stage[S] \notin {"hint_stash"} \cup Hinted =>
          stash_size[S] = 0 /\ hint_table = <<>> /\ contents = <<>>
  BY <1>1 DEF CircuitInv, SenderLocals
<1>3. /\ stage'[S] \notin {"hint_stash"} \cup Hinted
      /\ stash_size'[S] = 0 /\ hint_table' = <<>> /\ contents' = <<>>
      => SenderLocals'
  BY <1>1 DEF SenderLocals
<1> QED
  BY <1>2, <1>3

\* Nor has the receiver before its table.
LEMMA NoTable ==
    /\ CircuitInv /\ stage[R] \notin {"stash"} \cup Placed =>
          stash_size[R] = 0 /\ cuckoo_table = <<>> /\ opened = {} /\ hint_features = <<>>
    /\ /\ stage'[R] \notin {"stash"} \cup Placed
       /\ stash_size'[R] = 0 /\ cuckoo_table' = <<>> /\ opened' = {} /\ hint_features' = <<>>
       => ReceiverLocals'
<1>1. "feature_hint" \in Placed /\ "equal" \in Placed /\ "multiplexer" \in Placed
      /\ Compared \subseteq Placed /\ Opened \subseteq Placed
  BY DEF Placed, Hinted, Compared, Opened
<1>2. CircuitInv /\ stage[R] \notin {"stash"} \cup Placed =>
          stash_size[R] = 0 /\ cuckoo_table = <<>> /\ opened = {} /\ hint_features = <<>>
  BY <1>1 DEF CircuitInv, ReceiverLocals
<1>3. /\ stage'[R] \notin {"stash"} \cup Placed
      /\ stash_size'[R] = 0 /\ cuckoo_table' = <<>> /\ opened' = {} /\ hint_features' = <<>>
      => ReceiverLocals'
  BY <1>1 DEF ReceiverLocals
<1> QED
  BY <1>2, <1>3

\* What a call has at the places that count.
LEMMA CurrentIs ==
    ASSUME CircuitInv, NEW p \in Party, stage[p] \in InCall
    PROVE  /\ Current(p) \in Calls[p] /\ Current(p) = calls[p][Number(p)]
           /\ Current(p).keys \in Seq(Keys) /\ Len(Current(p).keys) \in Nat
           /\ DOMAIN Current(p).keys = 1..Len(Current(p).keys)
           /\ Current(p).features \in Seq([DOMAIN Current(p).keys -> Word])
           /\ Len(Current(p).features) \in Nat
<1>1. Current(p) \in Calls[p]
  BY CallNumber, Numbers DEF CircuitInv, Current
<1> QED
  BY Zenon, <1>1, CallIs DEF Current

\* A party has no column until it is at the features.
LEMMA NoColumns ==
    ASSUME CircuitInv, NEW p \in Party, stage[p] # "multiplexer"
    PROVE  output_shares[p] = <<>>
BY Zenon DEF CircuitInv, Control

LEMMA SimpleHashKeeps ==
    ASSUME CircuitInv, SimpleHash
    PROVE  CircuitInv'
<1>1. /\ stage[S] = "hash" /\ Draw(S) /\ EnterAt(S, "stash", 1)
      /\ UNCHANGED <<params, calls, results, sent, remote, peer_size, locals, chan>>
  BY DEF SimpleHash, Enter, S, values
<1>2. UNCHANGED <<cuckoo_table, hint_table, stash_size, contents, opened, hint_features,
                  output_shares>>
  BY <1>1 DEF locals, tables
<1>3. /\ stage[S] \in InCall \ Sizes /\ "stash" \in InCall \ Sizes /\ "stash" \in Stages
      /\ stage[S] \notin TwoWay /\ stage[S] \notin Placed /\ stage[S] \notin Hinted
      /\ stage[S] \notin {"hint_stash"} \cup Hinted /\ "stash" \notin {"hint_stash"} \cup Hinted
      /\ "stash" \notin Placed /\ 1 \in Nat \ {0}
  BY <1>1, CheckedIs, StagesAre DEF InCall, Sizes, TwoWay, Placed, Hinted, Compared
<1>4. /\ common_prng' \in [Party -> Prng]
      /\ common_prng'[S] = [seed |-> common_prng[S].seed, draws |-> common_prng[S].draws + 1]
      /\ \A q \in Party \ {S} : common_prng'[q] = common_prng[q]
  BY <1>1, DrawType, TwoParties DEF CircuitInv
<1>5. Others(S)
  <2>1. Peer(S) \in Party \ {S}
    BY TwoParties
  <2> QED
    BY <1>1, <1>2, <1>3, <1>4, <2>1, Entered, TwoParties DEF Others
<1>6. DrawsIn(S, "stash") = DrawsIn(S, stage[S]) + 1
  BY <1>1 DEF DrawsIn, Sizes, Hinted, Compared
<1>7. output_shares'[S] = <<>>
  BY <1>1, <1>2, NoColumns, TwoParties
<1>8. /\ Alone(S) /\ Control(S)' /\ Knows(S)' /\ Ended'
      /\ \A d \in Party : Last(d, S)' = Previous(d, S, Number(S), "stash", 1)
  BY <1>1, <1>3, <1>4, <1>5, <1>6, <1>7, StepsInCall, TwoParties
<1>9. \A d \in Party : Last(d, S)' = Last(d, S)
  <2>1. \A d \in Party : Last(d, S) = Previous(d, S, Number(S), "hash", fid[S])
    BY <1>1, <1>3, AtStart, TwoParties
  <2> QED
    BY <1>8, <2>1, PreviousIs, TwoParties
<1>10. \A r \in Party : InOrder(r)'
  BY <1>1, <1>8, <1>9, QuietOrder, TwoParties
<1>11. TypeOK'
  BY Zenon, <1>1, <1>3, <1>4, EnteredType, LocalsTypeStays, TypeAfter, TwoParties DEF CircuitInv, TypeOK
<1>12. AreSequences'
  BY <1>1, <1>2, SequencesStay DEF CircuitInv, AreSequences
<1>13. SenderLocals'
  <2>1. stage'[S] = "stash"
    BY <1>1, <1>3, Entered, TwoParties
  <2> QED
    BY <1>2, <1>3, <2>1, NoHints
<1> QED
  BY <1>8, <1>10, <1>11, <1>12, <1>13, Together, TwoParties

LEMMA ParamsType ==
    ASSUME TypeOK, NEW p \in Party
    PROVE  /\ params[p].epsilon \in Nat \ {0} /\ params[p].epsilon_hint \in Nat \ {0}
           /\ params[p].num_of_fun \in Nat \ {0} /\ params[p].num_of_fun_hint \in Nat \ {0}
           /\ \A k \in DOMAIN Checked : params[p][Checked[k]] \in Nat \ {0}
<1>1. params[p] \in Params
  BY DEF TypeOK
<1>2. params[p] \in [Range(Checked) -> Nat \ {0}]
  BY <1>1, CircuitParamsAssumption
<1>3. \A k \in DOMAIN Checked : Checked[k] \in Range(Checked)
  BY DEF Range
<1> QED
  BY <1>2, <1>3, CheckedIs

LEMMA CeilType ==
    ASSUME NEW size \in Nat, NEW hundredths \in Nat
    PROVE  Ceil(size, hundredths) \in Nat
<1>1. size * hundredths \in Nat
  OBVIOUS
<1>2. PICK k \in Nat : k = size * hundredths + 99
  BY <1>1
<1>3. k \div 100 \in Nat
  BY <1>2
<1> QED
  BY <1>2, <1>3 DEF Ceil

LEMMA BinsType ==
    ASSUME CircuitInv, NEW n \in DOMAIN calls[R]
    PROVE  BinsOf(n) \in Nat
<1>1. Len(calls[R][n].keys) \in Nat
  BY Numbers, CallIs, TwoParties DEF CircuitInv
<1> QED
  BY Zenon, <1>1, CeilType, ParamsType, TwoParties DEF BinsOf, CircuitInv

\* Both know how many bins there are, once the sizes are exchanged.
LEMMA BinsAgree ==
    ASSUME CircuitInv, NEW p \in Party, stage[p] \in InCall, stage[p] \notin Sizes
    PROVE  /\ DataSize(p, R) = Len(calls[R][Number(p)].keys)
           /\ DataSize(p, S) = Len(calls[S][Number(p)].keys)
           /\ FeatureSize(p, S) = Features(Number(p))
           /\ FeatureSize(p, R) = Len(calls[R][Number(p)].features)
           /\ params[S] = params[R]
           /\ Bins(p) = BinsOf(Number(p)) /\ HintBins(p) = HintBinsOf(Number(p))
<1>1. /\ peer_size[p].data = Len(calls[Peer(p)][Number(p)].keys)
      /\ peer_size[p].features = Len(calls[Peer(p)][Number(p)].features)
  BY BothCalled
<1>2. /\ DataSize(p, R) = Len(calls[R][Number(p)].keys)
      /\ DataSize(p, S) = Len(calls[S][Number(p)].keys)
      /\ FeatureSize(p, S) = Features(Number(p))
      /\ FeatureSize(p, R) = Len(calls[R][Number(p)].features)
  BY <1>1, TwoParties DEF DataSize, FeatureSize, Current, Features
<1>3. params[S] = params[R]
  <2>1. stage[p] \notin Range(Checked) /\ stage[p] # "threw"
    BY StagesAre DEF InInit, Rest
  <2>2. \A k \in DOMAIN Checked : stage[p] \notin {Checked[j] : j \in 1..k} \cup {"threw"}
    BY <2>1, CheckedIs DEF Range
  <2>3. Knows(p)
    BY DEF CircuitInv
  <2>4. \A k \in DOMAIN Checked : params[p][Checked[k]] = params[Peer(p)][Checked[k]]
    BY <2>2, <2>3 DEF Knows
  <2>5. \A s \in Range(Checked) : params[p][s] = params[Peer(p)][s]
    BY <2>4 DEF Range
  <2>6. \A r \in Party : params[r] \in [Range(Checked) -> Nat \ {0}]
    BY CircuitParamsAssumption DEF CircuitInv, TypeOK
  <2>7. params[p] = params[Peer(p)]
    BY <2>5, <2>6, TwoParties
  <2> QED
    BY <2>7, TwoParties
<1>4. Bins(p) = BinsOf(Number(p))
  BY Zenon, <1>2, <1>3, TwoParties DEF Bins, BinsOf, R
<1>5. HintBins(p) = HintBinsOf(Number(p))
  BY <1>2, <1>3, <1>4, TwoParties DEF HintBins, HintBinsOf, S
<1> QED
  BY <1>2, <1>3, <1>4, <1>5

\* The common stream of a party in a call.
LEMMA StreamIs ==
    ASSUME CircuitInv, NEW p \in Party, stage[p] \in InCall
    PROVE  /\ common_prng[p] = Stream(Drawn(p, Number(p)) + DrawsIn(p, stage[p]))
           /\ common_prng[p] \in Prng
           /\ Drawn(p, Number(p)) + DrawsIn(p, stage[p]) \in Nat
           /\ Drawn(p, Number(p)) \in Int
<1>1. Control(p) /\ stage[p] \notin Range(Checked) \cup {"seed", "threw"}
  BY StagesAre DEF CircuitInv, InInit, Rest
<1>2. common_prng[p] = [seed |-> {1, 2}, draws |-> Draws(p)]
  BY <1>1 DEF Control
<1>3. common_prng[p] \in Prng
  BY DEF CircuitInv, TypeOK
<1>4. Drawn(p, Number(p)) \in Int
  BY CallNumber, DrawnType
<1> QED
  BY <1>2, <1>3, <1>4 DEF Draws, Stream, Prng

LEMMA MaskType ==
    ASSUME NEW seed \in Prng, NEW f \in Nat \ {0}, NEW key \in Keys
    PROVE  Mask(seed, f, key) \in Masks
BY DEF Mask, Masks

\* The receiver's first table.
LEMMA FilledTable ==
    ASSUME CircuitInv, stage[R] = "hash", NEW seed \in Prng, seed = Stream(Drawn(R, Number(R)) + 1),
           params' = params, calls' = calls, results' = results,
           NEW placement \in Placements(Len(Current(R).keys), params[R].num_of_fun, Bins(R)),
           cuckoo_table' = [i \in DOMAIN placement |->
                              [bin |-> placement[i].bin,
                               mask |-> Mask(seed, placement[i].function, Current(R).keys[i])]]
    PROVE  /\ cuckoo_table' \in Seq([bin : Nat \ {0}, mask : Masks])
           /\ TableOf(Number(R))'
<1>1. stage[R] \in InCall /\ stage[R] \notin Sizes
  BY DEF InCall, Sizes
<1>2. PICK n : n = Number(R) /\ n = Number(R)'
  BY DEF Number
<1>3. PICK len \in Nat : len = Len(Current(R).keys)
  BY <1>1, CurrentIs, TwoParties
<1>4. /\ Current(R) = calls[R][n] /\ Current(R).keys \in Seq(Keys)
      /\ DOMAIN Current(R).keys = 1..len
      /\ Bins(R) = BinsOf(n) /\ n \in DOMAIN calls[R]
  <2>1. /\ Current(R) = calls[R][n] /\ Current(R).keys \in Seq(Keys)
        /\ DOMAIN Current(R).keys = 1..len
    BY Zenon, <1>1, <1>2, <1>3, CurrentIs, TwoParties
  <2>2. Bins(R) = BinsOf(n)
    BY Zenon, <1>1, <1>2, BinsAgree, TwoParties
  <2>3. n \in DOMAIN calls[R]
    BY Zenon, <1>1, <1>2, BothCalled, TwoParties
  <2> QED
    BY <2>1, <2>2, <2>3
<1>5. PICK bins \in Nat : bins = BinsOf(n)
  BY <1>4, BinsType
<1>6. PICK num \in Nat : num = params[R].num_of_fun
  BY ParamsType, TwoParties DEF CircuitInv
<1>7. /\ placement \in [1..len -> [bin : 1..bins, function : 1..num]]
      /\ \A i, j \in 1..len : placement[i].bin = placement[j].bin => i = j
  BY <1>3, <1>4, <1>5, <1>6 DEF Placements
<1>8. \A i \in 1..len : /\ placement[i].bin \in 1..bins /\ placement[i].function \in 1..num
                        /\ Current(R).keys[i] \in Keys
  BY <1>4, <1>7
<1>9. /\ DOMAIN cuckoo_table' = 1..len
      /\ \A i \in 1..len : cuckoo_table'[i] =
            [bin |-> placement[i].bin,
             mask |-> Mask(seed, placement[i].function, Current(R).keys[i])]
  BY <1>7
<1>10. \A i \in 1..len : cuckoo_table'[i] \in [bin : Nat \ {0}, mask : Masks]
  <2>1. ASSUME NEW i \in 1..len
        PROVE  cuckoo_table'[i] \in [bin : Nat \ {0}, mask : Masks]
    <3>1. placement[i].bin \in Nat \ {0} /\ placement[i].function \in Nat \ {0}
      BY <1>8
    <3>2. Mask(seed, placement[i].function, Current(R).keys[i]) \in Masks
      BY <1>8, <3>1, MaskType
    <3> QED
      BY <1>9, <3>1, <3>2
  <2> QED
    BY Zenon, <2>1
<1>11. cuckoo_table' \in [1..len -> [bin : Nat \ {0}, mask : Masks]]
  BY <1>7, <1>9, <1>10
<1>12. TableOf(n)'
  <2>1. calls'[R][n].keys = Current(R).keys /\ params'[R].num_of_fun = num
    BY <1>4, <1>6
  <2>2. BinsOf(n)' = bins /\ Drawn(R, n)' = Drawn(R, n)
    BY <1>5 DEF BinsOf, Drawn, Failures
  <2>3. \A i \in 1..len : cuckoo_table'[i].bin = placement[i].bin
           /\ cuckoo_table'[i].mask = Mask(seed, placement[i].function, Current(R).keys[i])
    BY <1>9
  <2>4. DOMAIN cuckoo_table' = DOMAIN calls'[R][n].keys
    BY <1>4, <1>9, <2>1
  <2>5. \A i \in DOMAIN cuckoo_table' :
          /\ cuckoo_table'[i].bin \in 1..BinsOf(n)'
          /\ \E f \in 1..params'[R].num_of_fun :
                cuckoo_table'[i].mask = Mask(Stream(Drawn(R, n)' + 1), f, calls'[R][n].keys[i])
    BY <1>2, <1>8, <1>9, <2>1, <2>2, <2>3
  <2>6. \A i, j \in DOMAIN cuckoo_table' :
           cuckoo_table'[i].bin = cuckoo_table'[j].bin => i = j
    BY <1>7, <1>9, <2>3
  <2> QED
    BY Zenon, <2>4, <2>5, <2>6 DEF TableOf, Mask, Stream
<1> QED
  BY <1>2, <1>11, <1>12

LEMMA CuckooHashKeeps ==
    ASSUME CircuitInv, CuckooHash
    PROVE  CircuitInv'
<1>1. /\ stage[R] = "hash" /\ Draw(R) /\ EnterAt(R, "stash", 1)
      /\ UNCHANGED <<params, calls, results, sent, remote, peer_size, hint_table, contents,
                     opened, hint_features, output_shares, chan>>
  BY DEF CuckooHash, Enter, R, values
<1>2. /\ stage[R] \in InCall \ Sizes /\ "stash" \in InCall \ Sizes /\ "stash" \in Stages
      /\ stage[R] \notin TwoWay /\ stage[R] \notin Placed /\ stage[R] \notin Hinted
      /\ stage[R] \notin {"stash"} \cup Placed
      /\ "stash" \notin Placed /\ "stash" \notin Hinted /\ "stash" \notin Opened
      /\ "stash" \notin Compared /\ 1 \in Nat \ {0}
  BY <1>1, CheckedIs, StagesAre DEF InCall, Sizes, TwoWay, Placed, Hinted, Compared
<1>3. /\ common_prng' \in [Party -> Prng]
      /\ common_prng'[R] = [seed |-> common_prng[R].seed, draws |-> common_prng[R].draws + 1]
      /\ \A q \in Party \ {R} : common_prng'[q] = common_prng[q]
  BY <1>1, DrawType, TwoParties DEF CircuitInv
<1>4. PICK n : n = Number(R) /\ n = Number(R)'
  BY Zenon, <1>1 DEF Number
<1>5. common_prng'[R] = Stream(Drawn(R, n) + 1)
  <2>1. DrawsIn(R, stage[R]) = 0
    BY <1>1, TwoParties DEF DrawsIn, Opened, Compared
  <2>2. common_prng[R] = Stream(Drawn(R, n)) /\ Drawn(R, n) \in Nat
    <3>1. /\ common_prng[R] = Stream(Drawn(R, n) + DrawsIn(R, stage[R]))
          /\ Drawn(R, n) + DrawsIn(R, stage[R]) \in Nat /\ Drawn(R, n) \in Int
      BY Zenon, <1>2, <1>4, StreamIs, TwoParties
    <3> QED
      BY <2>1, <3>1
  <2> QED
    BY <1>3, <2>2 DEF Stream
<1>6. /\ stash_size' \in [Party -> Nat] /\ stash_size'[S] = stash_size[S]
      /\ cuckoo_table' \in Seq([bin : Nat \ {0}, mask : Masks])
      /\ \/ stash_size'[R] = 0 /\ TableOf(n)'
         \/ stash_size'[R] = 1 /\ cuckoo_table' = <<>>
  <2>1. stash_size \in [Party -> Nat] /\ cuckoo_table = <<>>
    BY Zenon, <1>2, NoTable DEF CircuitInv, TypeOK
  <2>2. CASE \E placement \in Placements(Len(Current(R).keys), params[R].num_of_fun, Bins(R)) :
                /\ cuckoo_table' = [i \in DOMAIN placement |->
                     [bin |-> placement[i].bin,
                      mask |-> Mask(common_prng'[R], placement[i].function,
                                    Current(R).keys[i])]]
                /\ stash_size' = [stash_size EXCEPT ![R] = 0]
    <3>1. PICK seed \in Prng : seed = common_prng'[R]
      BY <1>3, TwoParties
    <3>2. PICK placement \in
                Placements(Len(Current(R).keys), params[R].num_of_fun, Bins(R)) :
              cuckoo_table' = [i \in DOMAIN placement |->
                   [bin |-> placement[i].bin,
                    mask |-> Mask(seed, placement[i].function, Current(R).keys[i])]]
      BY <2>2, <3>1
    <3>3. seed = Stream(Drawn(R, Number(R)) + 1)
      BY <1>4, <1>5, <3>1
    <3>4. cuckoo_table' \in Seq([bin : Nat \ {0}, mask : Masks]) /\ TableOf(Number(R))'
      BY Zenon, <1>1, <3>2, <3>3, FilledTable
    <3>5. TableOf(n)'
      BY <1>4, <3>4
    <3> QED
      BY <2>1, <2>2, <3>4, <3>5, TwoParties
  <2>3. CASE stash_size' = [stash_size EXCEPT ![R] = 1] /\ cuckoo_table' = cuckoo_table
    BY <2>1, <2>3, TwoParties
  <2> QED
    BY <2>2, <2>3 DEF CuckooHash, R
<1>7. Others(R)
  <2>1. Peer(R) \in Party \ {R} /\ Peer(R) = S
    BY TwoParties
  <2> QED
    BY <1>1, <1>2, <1>3, <1>6, <2>1, Entered, TwoParties DEF Others
<1>8. DrawsIn(R, "stash") = DrawsIn(R, stage[R]) + 1
  BY <1>1, TwoParties DEF DrawsIn, Sizes, Opened, Compared
<1>9. output_shares'[R] = <<>>
  BY <1>1, NoColumns, TwoParties
<1>10. /\ Alone(R) /\ Control(R)' /\ Knows(R)' /\ Ended'
       /\ \A d \in Party : Last(d, R)' = Previous(d, R, Number(R), "stash", 1)
  BY <1>1, <1>2, <1>3, <1>7, <1>8, <1>9, StepsInCall, TwoParties
<1>11. \A d \in Party : Last(d, R)' = Last(d, R)
  <2>1. \A d \in Party : Last(d, R) = Previous(d, R, Number(R), "hash", fid[R])
    BY <1>1, <1>2, AtStart, TwoParties
  <2> QED
    BY <1>10, <2>1, PreviousIs, TwoParties
<1>12. \A r \in Party : InOrder(r)'
  BY <1>1, <1>10, <1>11, QuietOrder, TwoParties
<1>13. opened = {} /\ hint_features = <<>>
  BY <1>2, NoTable
<1>14. TypeOK'
  <2>1. LocalsType'
    BY Zenon, <1>1, <1>6, <1>13, TypeParts DEF LocalsType, CircuitInv, Masks, Prng, Word
  <2> QED
    BY Zenon, <1>1, <1>2, <1>3, <2>1, EnteredType, TypeAfter, TwoParties DEF CircuitInv, TypeOK
<1>15. AreSequences'
  BY <1>1, SequencesStay DEF CircuitInv, AreSequences
<1>16. ReceiverLocals'
  <2>1. stage'[R] = "stash" /\ ~HasRead(R)'
    BY <1>1, <1>2, Entered, TwoParties
  <2>2. opened' = {} /\ hint_features' = <<>> /\ n = Number(R)'
    BY <1>1, <1>4, <1>13
  <2> QED
    BY <1>2, <1>6, <2>1, <2>2 DEF ReceiverLocals
<1> QED
  BY <1>10, <1>12, <1>14, <1>15, <1>16, Together, TwoParties

\* The peer has got through, if a party is past its message.
LEMMA Through ==
    ASSUME CircuitInv
    PROVE  /\ stage[S] \in Placed => ThroughStash(Number(S))
           /\ stage[R] \in Hinted => ThroughHint(Number(R))
BY TwoParties DEF CircuitInv, Knows

\* The masks of the sender's items.
LEMMA MasksOfType ==
    ASSUME CircuitInv, NEW n \in DOMAIN calls[S], Stream(Drawn(S, n) + 1) \in Prng
    PROVE  \A mask \in MasksOf(n) : mask \in Masks
<1>1. calls[S][n].keys \in Seq(Keys)
  BY Zenon, Numbers, CallIs, TwoParties DEF CircuitInv
<1>2. \A key \in Range(calls[S][n].keys) : key \in Keys
  BY <1>1, ElementOfSeq, LenProperties DEF Range
<1>3. PICK num \in Nat : num = params[S].num_of_fun
  BY ParamsType, TwoParties DEF CircuitInv
<1>4. PICK seed \in Prng : seed = Stream(Drawn(S, n) + 1)
  OBVIOUS
<1>5. \A f \in 1..num : \A key \in Range(calls[S][n].keys) : Mask(seed, f, key) \in Masks
  BY <1>2, MaskType
<1> QED
  BY <1>3, <1>4, <1>5 DEF MasksOf

LEMMA HintHashKeeps ==
    ASSUME CircuitInv, HintHash
    PROVE  CircuitInv'
<1>1. /\ stage[S] = "hint_hash" /\ Draw(S) /\ EnterAt(S, "hint_stash", 1)
      /\ UNCHANGED <<params, calls, results, sent, remote, peer_size, cuckoo_table, contents,
                     opened, hint_features, output_shares, chan>>
  BY DEF HintHash, Enter, S, values
<1>2. /\ stage[S] \in InCall \ Sizes /\ "hint_stash" \in InCall \ Sizes
      /\ "hint_stash" \in Stages /\ 1 \in Nat \ {0}
      /\ stage[S] \notin TwoWay /\ stage[S] \in Placed /\ stage[S] \notin Hinted
      /\ stage[S] \notin {"hint_stash"} \cup Hinted
      /\ "hint_stash" \in Placed /\ "hint_stash" \notin Hinted /\ "hint_stash" \notin Opened
      /\ "hint_stash" \notin Compared
  BY <1>1, CheckedIs, StagesAre DEF InCall, Sizes, TwoWay, Placed, Hinted, Compared
<1>3. /\ common_prng' \in [Party -> Prng]
      /\ common_prng'[S] = [seed |-> common_prng[S].seed, draws |-> common_prng[S].draws + 1]
      /\ \A q \in Party \ {S} : common_prng'[q] = common_prng[q]
  BY <1>1, DrawType, TwoParties DEF CircuitInv
<1>4. PICK n : n = Number(S) /\ n = Number(S)'
  BY Zenon, <1>1 DEF Number
<1>5. ItemMasks = MasksOf(n) /\ \A mask \in MasksOf(n) : mask \in Masks
  <2>1. DrawsIn(S, stage[S]) = 1
    BY <1>1 DEF DrawsIn, Sizes, Hinted, Compared
  <2>2. common_prng[S] = Stream(Drawn(S, n) + 1) /\ common_prng[S] \in Prng
    BY Zenon, <1>2, <1>4, <2>1, StreamIs, TwoParties
  <2>3. Current(S) = calls[S][n] /\ n \in DOMAIN calls[S]
    <3>1. Current(S) = calls[S][n]
      BY <1>4 DEF Current
    <3>2. n \in DOMAIN calls[S]
      BY Zenon, <1>2, <1>4, BothCalled, TwoParties
    <3> QED
      BY <3>1, <3>2
  <2>4. ItemMasks = MasksOf(n)
    BY <2>2, <2>3 DEF ItemMasks, MasksOf, S
  <2> QED
    BY <2>2, <2>3, <2>4, MasksOfType
<1>6. PICK num \in Nat : num = params[S].num_of_fun_hint
  BY ParamsType, TwoParties DEF CircuitInv
<1>7. /\ stash_size' \in [Party -> Nat] /\ stash_size'[R] = stash_size[R]
      /\ \/ stash_size'[S] = 0 /\ hint_table' \in [MasksOf(n) -> 1..num]
         \/ stash_size'[S] = 1 /\ hint_table' = <<>>
  <2>1. stash_size \in [Party -> Nat] /\ hint_table = <<>>
    BY Zenon, <1>2, NoHints DEF CircuitInv, TypeOK
  <2>2. CASE /\ hint_table' \in [ItemMasks -> 1..num]
             /\ stash_size' = [stash_size EXCEPT ![S] = 0]
    BY <1>5, <2>1, <2>2, TwoParties
  <2>3. CASE stash_size' = [stash_size EXCEPT ![S] = 1] /\ hint_table' = hint_table
    BY <2>1, <2>3, TwoParties
  <2> QED
    BY <1>6, <2>2, <2>3 DEF HintHash, S
<1>8. \A mask \in DOMAIN hint_table' : mask \in Masks /\ hint_table'[mask] \in Nat \ {0}
  BY <1>5, <1>7
<1>9. Others(S)
  <2>1. Peer(S) \in Party \ {S} /\ Peer(S) = R
    BY TwoParties
  <2> QED
    BY <1>1, <1>2, <1>3, <1>7, <2>1, Entered, TwoParties DEF Others
<1>10. DrawsIn(S, "hint_stash") = DrawsIn(S, stage[S]) + 1
  BY <1>1 DEF DrawsIn, Sizes, Hinted, Compared
<1>11. output_shares'[S] = <<>>
  BY <1>1, NoColumns, TwoParties
<1>12. /\ Alone(S) /\ Control(S)' /\ Knows(S)' /\ Ended'
       /\ \A d \in Party : Last(d, S)' = Previous(d, S, Number(S), "hint_stash", 1)
  BY <1>1, <1>2, <1>3, <1>9, <1>10, <1>11, StepsInCall, Through, TwoParties
<1>13. \A d \in Party : Last(d, S)' = Last(d, S)
  <2>1. \A d \in Party : Last(d, S) = Previous(d, S, Number(S), "hint_hash", fid[S])
    BY <1>1, <1>2, AtStart, TwoParties
  <2> QED
    BY <1>12, <2>1, PreviousIs, TwoParties
<1>14. \A r \in Party : InOrder(r)'
  BY <1>1, <1>12, <1>13, QuietOrder, TwoParties
<1>15. contents = <<>>
  BY <1>2, NoHints
<1>16. TypeOK'
  <2>1. LocalsType'
    BY Zenon, <1>1, <1>7, <1>8, <1>15, TypeParts DEF LocalsType, CircuitInv, Masks, Prng, Word
  <2> QED
    BY Zenon, <1>1, <1>2, <1>3, <2>1, EnteredType, TypeAfter, TwoParties DEF CircuitInv, TypeOK
<1>17. AreSequences'
  BY <1>1, SequencesStay DEF CircuitInv, AreSequences
<1>18. SenderLocals'
  <2>1. stage'[S] = "hint_stash"
    BY <1>1, <1>2, Entered, TwoParties
  <2>2. contents' = <<>> /\ n = Number(S)'
    BY <1>1, <1>4, <1>15
  <2>3. HintsOf(n)' = [MasksOf(n) -> 1..num]
    <3>1. MasksOf(n)' = MasksOf(n)
      BY <1>1 DEF MasksOf, Drawn, Failures, Mask, Stream
    <3> QED
      BY <1>1, <1>6, <3>1 DEF HintsOf
  <2> QED
    BY <1>2, <1>7, <2>1, <2>2, <2>3 DEF SenderLocals
<1> QED
  BY <1>12, <1>14, <1>16, <1>17, <1>18, Together, TwoParties

-----------------------------------------------------------------------------
(* The messages of a call.                                                 *)

\* Where a party is in a call, before a one-way message.
LEMMA InMidCall ==
    ASSUME CircuitInv, NEW p \in Party, stage[p] \in InCall \ Sizes, stage[p] \notin TwoWay,
           NEW n, n = Number(p)
    PROVE  /\ n \in DOMAIN calls[S] /\ n \in DOMAIN calls[R] /\ n \in Nat \ {0}
           /\ n \notin DOMAIN results[p] /\ n \in 0..MaxCalls
           /\ ~HasRead(p) /\ ~HasWritten(p)
           /\ \A d \in Party : Last(d, p) = Previous(d, p, n, stage[p], fid[p])
           /\ IF stage[p] = "feature_hint" THEN fid[p] \in 1..Features(n) ELSE fid[p] = 1
<1>1. /\ n \in DOMAIN calls[S] /\ n \in DOMAIN calls[R] /\ n \in Nat /\ n > 0
      /\ n \notin DOMAIN results[p]
  BY BothCalled
<1>2. n <= MaxCalls
  BY CallNumber
<1>3. /\ ~HasRead(p) /\ ~HasWritten(p)
      /\ \A d \in Party : Last(d, p) = Previous(d, p, n, stage[p], fid[p])
  BY AtStart
<1>4. IF stage[p] = "feature_hint" THEN fid[p] \in 1..Features(n) ELSE fid[p] = 1
  <2>1. Control(p) /\ stage[p] # "multiplexer"
    BY DEF CircuitInv, TwoWay
  <2> QED
    BY <2>1 DEF Control
<1> QED
  BY <1>1, <1>2, <1>3, <1>4, CircuitBoundsAssumption

LEMMA SendsOn ==
    ASSUME CircuitInv, NEW p \in Party, stage[p] \in InCall \ Sizes, stage[p] \notin TwoWay,
           Alone(p), NEW q, q = Peer(p), NEW n, n = Number(p),
           NEW width, NEW value, Post(p, width, value),
           NEW m, m = [is |-> stage[p], fid |-> fid[p], width |-> width, value |-> value],
           Says(q, n, m)',
           Last(p, p)' = Previous(p, p, n, stage[p], fid[p]),
           Last(q, p)' = Place(n, stage[p], fid[p])
    PROVE  /\ \A r \in Party : InOrder(r)'
           /\ DOMAIN chan' = Party /\ \A r \in Party : chan'[r] \in Seq(Range(chan'[r]))
<1>1. q \in Party /\ stage[p] \in InInit \cup InCall
  BY TwoParties
<1>2. ~HasWritten(p) /\ Last(p, p)' = Last(p, p)
  BY InMidCall
<1> QED
  BY <1>1, <1>2, SendsOrder

LEMMA ReadsOn ==
    ASSUME CircuitInv, NEW p \in Party, stage[p] \in InCall \ Sizes, stage[p] \notin TwoWay,
           Alone(p), io[p] = "recv", NEW q, q = Peer(p), NEW n, n = Number(p),
           NEW width, Take(p, width),
           Last(q, p)' = Previous(q, p, n, stage[p], fid[p]),
           Last(p, p)' = Place(n, stage[p], fid[p])
    PROVE  /\ \A r \in Party : InOrder(r)'
           /\ DOMAIN chan' = Party /\ \A r \in Party : chan'[r] \in Seq(Range(chan'[r]))
<1>1. q \in Party /\ Peer(p) = q
  BY TwoParties
<1>2. Last(q, p)' = Last(q, p)
  BY <1>1, InMidCall
<1> QED
  BY <1>1, <1>2, ReadsOrder

-----------------------------------------------------------------------------
(* The transfers.                                                          *)

LEMMA OtReceiveKeeps ==
    ASSUME CircuitInv, OtReceive
    PROVE  CircuitInv'
<1>1. /\ stage[R] = "ot" /\ io[R] = "send" /\ EnterAt(R, "hint_stash", 1)
      /\ Post(R, [unit |-> "ot", number |-> Bins(R)], 0)
      /\ UNCHANGED <<params, calls, results, sent, remote, peer_size, common_prng, locals>>
  BY DEF OtReceive, At, Enter, R, values
<1>2. UNCHANGED <<cuckoo_table, hint_table, stash_size, contents, opened, hint_features,
                  output_shares>>
  BY <1>1 DEF locals, tables
<1>3. /\ stage[R] \in InCall \ Sizes /\ "hint_stash" \in InCall \ Sizes
      /\ "hint_stash" \in Stages /\ 1 \in Nat \ {0}
      /\ stage[R] \notin TwoWay /\ stage[R] \in Placed /\ stage[R] \notin Hinted
      /\ stage[R] \notin Opened /\ stage[R] # "stash" /\ stage[R] \in InInit \cup InCall
      /\ "hint_stash" \in Placed /\ "hint_stash" \notin Hinted /\ "hint_stash" \notin Opened
      /\ "hint_stash" \notin Compared
  BY <1>1, CheckedIs, StagesAre DEF InCall, Sizes, TwoWay, Placed, Hinted, Compared, Opened
<1>4. PICK n : n = Number(R) /\ n = Number(R)'
  BY Zenon, <1>1 DEF Number
<1>5. Others(R)
  <2>1. Peer(R) \in Party \ {R} /\ Peer(R) = S
    BY TwoParties
  <2> QED
    BY <1>1, <1>2, <1>3, <2>1, Entered, TwoParties DEF Others
<1>6. DrawsIn(R, "hint_stash") = DrawsIn(R, stage[R])
  BY <1>1, TwoParties DEF DrawsIn, Sizes, Opened, Compared
<1>7. output_shares'[R] = <<>>
  BY <1>1, <1>2, NoColumns, TwoParties
<1>8. n = Number(R) /\ UNCHANGED <<calls, results, peer_size, common_prng>>
  BY <1>1, <1>4
<1>9. /\ Alone(R) /\ Control(R)' /\ Knows(R)' /\ Ended'
      /\ \A d \in Party : Last(d, R)' = Previous(d, R, n, "hint_stash", 1)
  BY <1>1, <1>3, <1>5, <1>6, <1>7, <1>8, StepsWithoutDraw, TwoParties
<1>10. /\ n \in DOMAIN calls[S] /\ n \in DOMAIN calls[R] /\ n \in Nat \ {0}
       /\ n \notin DOMAIN results[R] /\ fid[R] = 1
  BY Zenon, <1>1, <1>3, <1>4, InMidCall, TwoParties
<1>11. /\ Last(R, R)' = Previous(R, R, n, stage[R], fid[R])
       /\ Last(S, R)' = Place(n, stage[R], fid[R])
  BY <1>1, <1>9, <1>10, PreviousIs, TwoParties
<1>12. PICK width, m : /\ width = [unit |-> "ot", number |-> Bins(R)]
                       /\ m = [is |-> stage[R], fid |-> fid[R], width |-> width, value |-> 0]
  BY Zenon
<1>13. Says(S, n, m)'
  <2>1. Bins(R) = BinsOf(n)
    BY Zenon, <1>3, <1>4, BinsAgree, TwoParties
  <2>2. m.is = "ot" /\ m.fid = 1 /\ m.width = [unit |-> "ot", number |-> BinsOf(n)]
    BY <1>1, <1>10, <1>12, <2>1
  <2>3. ThroughStash(n)
    BY <1>3, <1>4, <1>10 DEF ThroughStash
  <2>4. Says(S, n, m)
    <3>1. "ot" \notin InInit /\ "ot" \notin Sizes /\ "ot" \notin Hinted /\ "ot" \notin Compared
          /\ \A k \in DOMAIN Checked : "ot" # Checked[k]
      BY InitStages, CheckedIs DEF Sizes, Hinted, Compared
    <3> QED
      BY <1>10, <2>2, <2>3, <3>1, TwoParties DEF Says, To
  <2> QED
    BY <1>9, <2>4, SaysLasts, TwoParties
<1>14. /\ \A r \in Party : InOrder(r)'
       /\ DOMAIN chan' = Party /\ \A r \in Party : chan'[r] \in Seq(Range(chan'[r]))
  <2>1. /\ Post(R, width, 0) /\ S = Peer(R) /\ n = Number(R) /\ R \in Party
        /\ stage[R] \in InCall \ Sizes /\ stage[R] \notin TwoWay
    BY <1>1, <1>3, <1>4, <1>12, TwoParties
  <2> QED
    BY <1>9, <1>11, <1>12, <1>13, <2>1, SendsOn
<1>15. TypeOK'
  BY Zenon, <1>1, <1>3, EnteredType, LocalsTypeStays, TypeAfter, TwoParties DEF CircuitInv, TypeOK
<1>16. AreSequences'
  BY <1>1, <1>2, <1>14, SequencesStay DEF CircuitInv, AreSequences
<1>17. ReceiverLocals'
  <2>1. stage'[R] = "hint_stash" /\ ~HasRead(R)'
    BY <1>1, <1>3, Entered, TwoParties
  <2>2. n = Number(R)'
    BY <1>4
  <2>3. /\ stash_size[R] = 0 /\ TableOf(n) /\ opened = {} /\ hint_features = <<>>
    BY <1>3, <1>4 DEF CircuitInv, ReceiverLocals
  <2>4. TableOf(n)'
    BY <1>2, <1>9, <1>10, <2>3, TableStays, TwoParties
  <2> QED
    BY <1>2, <1>3, <2>1, <2>2, <2>3, <2>4 DEF ReceiverLocals
<1> QED
  BY <1>9, <1>14, <1>15, <1>16, <1>17, Together, TwoParties

-----------------------------------------------------------------------------
(* The end of a call.                                                      *)

\* The result of a call adds to the failures it is one of.
LEMMA FailuresAfter ==
    ASSUME CircuitInv, NEW p \in Party, stage[p] \in InCall, NEW n, n = Number(p),
           NEW result, results'[p] = Append(results[p], result), NEW table
    PROVE  /\ Failures(p, table, n - 1)' = Failures(p, table, n - 1)
           /\ result = [threw |-> table] =>
                 Failures(p, table, n)' = Failures(p, table, n - 1) + 1
           /\ result # [threw |-> table] =>
                 Failures(p, table, n)' = Failures(p, table, n - 1)
<1>1. /\ n \in Nat \ {0} /\ results'[p][n] = result
      /\ \A k \in 1..(n - 1) : results'[p][k] = results[p][k]
  BY Zenon, ResultAdded
<1> DEFINE old == {k \in 1..(n - 1) : results[p][k] = [threw |-> table]}
           new == {k \in 1..n : results'[p][k] = [threw |-> table]}
<1>2. Failures(p, table, n - 1) = Cardinality(old) /\ Failures(p, table, n)' = Cardinality(new)
  BY DEF Failures
<1>3. Failures(p, table, n - 1)' = Failures(p, table, n - 1)
  <2>1. {k \in 1..(n - 1) : results'[p][k] = [threw |-> table]} = old
    BY Zenon, <1>1
  <2> QED
    BY Zenon, <2>1 DEF Failures
<1>4. IsFiniteSet(old) /\ n \notin old
  <2>1. n - 1 \in Int /\ n \notin 1..(n - 1)
    BY <1>1
  <2>2. IsFiniteSet(1..(n - 1)) /\ old \subseteq 1..(n - 1)
    BY <2>1, FS_Interval
  <2> QED
    BY <2>1, <2>2, FS_Subset
<1>5. 1..n = 1..(n - 1) \cup {n}
  BY <1>1
<1>6. \A k : k \in new <=> k \in old \/ (k = n /\ result = [threw |-> table])
  BY Zenon, <1>1, <1>5
<1>7. ASSUME result = [threw |-> table]
      PROVE  new = old \cup {n}
  BY Zenon, <1>6, <1>7
<1>8. ASSUME result # [threw |-> table]
      PROVE  new = old
  BY Zenon, <1>6, <1>8
<1>9. Cardinality(old \cup {n}) = Cardinality(old) + 1
  BY Zenon, <1>4, FS_AddElement
<1> QED
  BY Zenon, <1>2, <1>3, <1>7, <1>8, <1>9

\* The draws of a call that has ended.
LEMMA DrawnAfter ==
    ASSUME CircuitInv, NEW p \in Party, stage[p] \in InCall, NEW n, n = Number(p),
           NEW result, results'[p] = Append(results[p], result)
    PROVE  /\ result = Stashed => Drawn(p, n + 1)' = Drawn(p, n) + 1
           /\ result = HintStashed /\ p = R => Drawn(p, n + 1)' = Drawn(p, n) + 1
           /\ result = HintStashed /\ p = S => Drawn(p, n + 1)' = Drawn(p, n) + 2
           /\ ~Threw(result) => Drawn(p, n + 1)' = Drawn(p, n) + 2
<1>1. n \in Nat /\ n > 0
  BY CallNumber
<1>2. PICK a \in Nat, b \in Nat :
          a = Failures(p, "stash", n - 1) /\ b = Failures(p, "hint_stash", n - 1)
  BY <1>1, FailuresType
<1>3. /\ result = Stashed => Failures(p, "stash", n)' = a + 1
      /\ result # Stashed => Failures(p, "stash", n)' = a
  BY <1>2, FailuresAfter DEF Stashed
<1>4. /\ result = HintStashed => Failures(p, "hint_stash", n)' = b + 1
      /\ result # HintStashed => Failures(p, "hint_stash", n)' = b
  BY <1>2, FailuresAfter DEF HintStashed
<1>5. /\ p = R => Drawn(p, n) = 2 * (n - 1) - a - b
      /\ p # R => Drawn(p, n) = 2 * (n - 1) - a - 0
  BY <1>2 DEF Drawn
<1>6. PICK k \in Nat : k = n + 1 /\ k - 1 = n
  BY <1>1
<1>7. /\ p = R => Drawn(p, k)' = 2 * n - Failures(p, "stash", n)'
                                     - Failures(p, "hint_stash", n)'
      /\ p # R => Drawn(p, k)' = 2 * n - Failures(p, "stash", n)' - 0
  BY <1>6 DEF Drawn
<1>8. Stashed # HintStashed /\ ~Threw(Stashed) = FALSE /\ ~Threw(HintStashed) = FALSE
  BY ThrewIs
<1> QED
  BY <1>1, <1>3, <1>4, <1>5, <1>6, <1>7, <1>8, TwoParties

\* What a party computed with in a call ends with it.
LEMMA EndedLocals ==
    ASSUME CircuitInv, NEW p \in Party, NEW result, End(p, result)
    PROVE  /\ EnterAt(p, "idle", 1) /\ LocalsType'
           /\ stash_size'[p] = 0 /\ output_shares'[p] = <<>>
           /\ results'[p] = Append(results[p], result)
           /\ \A q \in Party \ {p} : /\ results'[q] = results[q]
                                     /\ stash_size'[q] = stash_size[q]
                                     /\ output_shares'[q] = output_shares[q]
           /\ p = S => /\ hint_table' = <<>> /\ contents' = <<>>
                       /\ UNCHANGED <<cuckoo_table, opened, hint_features>>
           /\ p = R => /\ cuckoo_table' = <<>> /\ opened' = {} /\ hint_features' = <<>>
                       /\ UNCHANGED <<hint_table, contents>>
<1>1. /\ EnterAt(p, "idle", 1)
      /\ stash_size' = [stash_size EXCEPT ![p] = 0]
      /\ output_shares' = [output_shares EXCEPT ![p] = <<>>]
      /\ results' = [results EXCEPT ![p] = Append(@, result)]
  BY DEF End, Enter
<1>2. /\ p = S => /\ hint_table' = <<>> /\ contents' = <<>>
                  /\ UNCHANGED <<cuckoo_table, opened, hint_features>>
      /\ p = R => /\ cuckoo_table' = <<>> /\ opened' = {} /\ hint_features' = <<>>
                  /\ UNCHANGED <<hint_table, contents>>
  BY TwoParties DEF End, S, R
<1>3. /\ stash_size \in [Party -> Nat] /\ output_shares \in [Party -> Seq(Seq(Word))]
      /\ DOMAIN results = Party
  BY DEF CircuitInv, TypeOK, AreSequences
<1>4. <<>> \in Seq(Seq(Word)) /\ <<>> \in Seq(Randoms)
      /\ <<>> \in Seq([bin : Nat \ {0}, mask : Masks])
  OBVIOUS
<1>5. stash_size' \in [Party -> Nat] /\ output_shares' \in [Party -> Seq(Seq(Word))]
  BY <1>1, <1>3, <1>4
<1>6. LocalsType'
  <2>1. CASE p = S
    BY SMTT(60), <1>2, <1>4, <1>5, <2>1, TypeParts
       DEF LocalsType, CircuitInv, Masks, Prng, Word
  <2>2. CASE p = R
    BY SMTT(60), <1>2, <1>4, <1>5, <2>2, TypeParts
       DEF LocalsType, CircuitInv, Masks, Prng, Word
  <2> QED
    BY <2>1, <2>2, TwoParties
<1> QED
  BY <1>1, <1>2, <1>3, <1>6, TwoParties

\* And its result comes after the others.
LEMMA EndedResults ==
    ASSUME CircuitInv, NEW p \in Party, stage[p] \in InCall, NEW n, n = Number(p),
           NEW result, End(p, result)
    PROVE  /\ n \in DOMAIN results'[p] /\ results'[p][n] = result /\ DOMAIN results'[p] = 1..n
           /\ \A q \in Party : \A k \in DOMAIN results'[q] :
                 \/ k \in DOMAIN results[q] /\ results'[q][k] = results[q][k]
                 \/ results'[q][k] = result
<1>1. /\ results'[p] = Append(results[p], result)
      /\ \A q \in Party \ {p} : results'[q] = results[q]
  BY EndedLocals
<1>2. /\ n \in Nat \ {0} /\ DOMAIN results'[p] = 1..n /\ results'[p][n] = result
      /\ DOMAIN results[p] = 1..(n - 1)
      /\ \A k \in DOMAIN results[p] : results'[p][k] = results[p][k]
  BY Zenon, <1>1, ResultAdded
<1>3. \A k \in 1..n : k \in 1..(n - 1) \/ k = n
  BY <1>2
<1> QED
  BY SMTT(60), <1>1, <1>2, <1>3

LEMMA EndsInCall ==
    ASSUME CircuitInv, NEW p \in Party, NEW n, n = Number(p),
           stage[p] \in InCall \ Sizes, NEW result, End(p, result),
           UNCHANGED <<params, calls, sent, remote, peer_size, common_prng>>,
           DOMAIN chan' = Party, \A r \in Party : chan'[r] \in Seq(Range(chan'[r])),
           Threw(result) \/ result.columns \in Seq(Seq(Word)),
           result = Stashed => DrawsIn(p, stage[p]) = 1,
           result = HintStashed /\ p = R => DrawsIn(p, stage[p]) = 1,
           result = HintStashed /\ p = S => DrawsIn(p, stage[p]) = 2,
           ~Threw(result) => DrawsIn(p, stage[p]) = 2,
           p = R /\ stage[R] \in Placed => result # Stashed,
           p = S /\ stage[S] \in Hinted => ~Threw(result),
           p = S => IF result = Stashed THEN n \in DOMAIN results[R] /\ results[R][n] = Stashed
                    ELSE ThroughStash(n),
           p = R => /\ result = HintStashed =>
                          n \in DOMAIN results[S] /\ results[S][n] = HintStashed
                    /\ ~Threw(result) => ThroughHint(n)
    PROVE  /\ Alone(p) /\ Control(p)' /\ Knows(p)' /\ Ended' /\ TypeOK' /\ AreSequences'
           /\ (p = S => SenderLocals') /\ (p = R => ReceiverLocals')
           /\ n \in DOMAIN results'[p] /\ results'[p][n] = result
           /\ \A d \in Party : Last(d, p)' = LastOf(d, p, n)'
<1>1. /\ EnterAt(p, "idle", 1) /\ LocalsType'
      /\ stash_size'[p] = 0 /\ output_shares'[p] = <<>>
      /\ results'[p] = Append(results[p], result)
      /\ \A q \in Party \ {p} : /\ results'[q] = results[q]
                                /\ stash_size'[q] = stash_size[q]
                                /\ output_shares'[q] = output_shares[q]
      /\ p = S => /\ hint_table' = <<>> /\ contents' = <<>>
                  /\ UNCHANGED <<cuckoo_table, opened, hint_features>>
      /\ p = R => /\ cuckoo_table' = <<>> /\ opened' = {} /\ hint_features' = <<>>
                  /\ UNCHANGED <<hint_table, contents>>
  BY EndedLocals
<1>2. /\ "idle" \in Stages /\ "idle" \notin InInit /\ "idle" \notin InCall
      /\ "idle" \notin TwoWay /\ "idle" \in Rest /\ "idle" # "threw"
      /\ "idle" \notin Range(Checked) \cup {"seed", "threw"}
      /\ stage[p] \notin Range(Checked) \cup {"seed", "threw"}
      /\ "idle" \notin Opened /\ "idle" \notin Compared
      /\ "idle" \notin {"hint_stash"} \cup Hinted /\ "idle" \notin {"stash"} \cup Placed
      /\ 1 \in Nat \ {0}
  BY StagesAre, InitStages, CheckedIs DEF Rest, InInit, TwoWay, InCall, Sizes, Placed, Hinted, Opened, Compared
<1>3. /\ stage'[p] = "idle" /\ io'[p] = Starts("idle", p) /\ fid'[p] = 1
      /\ ~HasRead(p)' /\ ~HasWritten(p)'
      /\ \A q \in Party \ {p} :
            stage'[q] = stage[q] /\ io'[q] = io[q] /\ fid'[q] = fid[q]
  BY <1>1, <1>2, Entered
<1>4. Others(p)
  <2>1. Peer(p) \in Party \ {p}
    BY TwoParties
  <2> QED
    BY <1>1, <1>3, <2>1, TwoParties DEF Others
<1>5. Alone(p)
  BY Zenon, <1>1, <1>3, <1>4, CallEnds
<1>6. n = Number(p)' /\ n \in Nat /\ n > 0 /\ n <= MaxCalls /\ n \in DOMAIN calls[Peer(p)]
  <2>1. n \in DOMAIN calls[S] /\ n \in DOMAIN calls[R] /\ n \in Nat /\ n > 0
    BY BothCalled
  <2>2. n <= MaxCalls
    BY CallNumber
  <2>3. n = Number(p)'
    BY DEF Number
  <2> QED
    BY <2>1, <2>2, <2>3, TwoParties
<1>7. Ended'
  BY Zenon, <1>1, <1>5, <1>6, ResultsGrow
<1>8. /\ n \in DOMAIN results'[p] /\ results'[p][n] = result /\ DOMAIN results'[p] = 1..n
      /\ \A q \in Party : \A k \in DOMAIN results'[q] :
            \/ k \in DOMAIN results[q] /\ results'[q][k] = results[q][k]
            \/ results'[q][k] = result
  BY EndedResults
<1>9. TypeOK'
  <2>1. ResultsType'
    <3>1. ResultsType
      BY TypeParts DEF CircuitInv
    <3> QED
      BY ZenonT(60), <1>8, <3>1 DEF ResultsType, Threw, Ideal!Thrown, Word
  <2>2. CallsType'
    BY TypeParts DEF CircuitInv, CallsType
  <2>3. ControlType'
    BY <1>1, <1>2, EnteredType
  <2>4. /\ peer_size' \in [Party -> [data : Nat, features : Nat]]
        /\ common_prng' \in [Party -> Prng]
    BY TypeParts DEF CircuitInv, Prng
  <2> QED
    BY Zenon, <1>1, <2>1, <2>2, <2>3, <2>4 DEF TypeOK, CallsType, ResultsType, ControlType, LocalsType, Stages
<1>10. AreSequences'
  <2>1. results' = [results EXCEPT ![p] = Append(results[p], result)]
    BY DEF End
  <2>2. \A r \in Party : results'[r] \in Seq(Range(results'[r]))
    <3>1. results[p] \in Seq(Range(results[p]) \cup {result})
      BY DEF CircuitInv, AreSequences
    <3>2. results'[p] \in Seq(Range(results[p]) \cup {result})
      BY <1>1, <3>1
    <3>3. results'[p] \in Seq(Range(results'[p]))
      BY <3>2, OwnRange
    <3>4. \A r \in Party \ {p} : results'[r] = results[r]
      BY <1>1
    <3> QED
      BY Zenon, <3>3, <3>4 DEF CircuitInv, AreSequences
  <2>3. hint_features' \in Seq(Range(hint_features'))
    <3>1. <<>> \in Seq({}) /\ hint_features \in Seq(Range(hint_features))
      BY DEF CircuitInv, AreSequences
    <3>2. hint_features' = <<>> \/ hint_features' = hint_features
      BY <1>1, TwoParties
    <3> QED
      BY Zenon, <3>1, <3>2, OwnRange
  <2> QED
    BY <2>1, <2>2, <2>3 DEF CircuitInv, AreSequences
<1>11. Control(p)'
  <2>1. DrawsIn(p, stage[p]) \in Nat /\ Drawn(p, n) \in Int
    BY <1>6, DrawnType DEF DrawsIn
  <2>2. Drawn(p, n + 1)' = Drawn(p, n) + DrawsIn(p, stage[p])
    <3>1. /\ result = Stashed => Drawn(p, n + 1)' = Drawn(p, n) + 1
          /\ result = HintStashed /\ p = R => Drawn(p, n + 1)' = Drawn(p, n) + 1
          /\ result = HintStashed /\ p = S => Drawn(p, n + 1)' = Drawn(p, n) + 2
          /\ ~Threw(result) => Drawn(p, n + 1)' = Drawn(p, n) + 2
      BY <1>1, DrawnAfter
    <3> QED
      BY <3>1, ThrewIs, TwoParties
  <2>3. Draws(p)' = Drawn(p, n + 1)'
    BY <1>2, <1>3, <1>6 DEF Draws, InCall, Sizes, Compared
  <2>4. common_prng'[p] = [seed |-> {1, 2}, draws |-> Draws(p)']
    <3>1. common_prng[p] = Stream(Drawn(p, n) + DrawsIn(p, stage[p]))
      BY StreamIs
    <3> QED
      BY Zenon, <2>2, <2>3, <3>1 DEF Stream
  <2>5. n = Len(results'[p])
    BY <1>6, <1>8, <1>10, Numbers DEF AreSequences
  <2> QED
    BY <1>1, <1>2, <1>3, <1>6, <2>4, <2>5 DEF Control, Starts
<1>12. Knows(p)'
  <2>1. \A j \in DOMAIN Checked : params[p][Checked[j]] = params[Peer(p)][Checked[j]]
    <3>1. stage[p] \notin {Checked[j] : j \in DOMAIN Checked} /\ stage[p] # "threw"
      BY <1>2 DEF Range
    <3>2. \A j \in DOMAIN Checked : stage[p] \notin {Checked[i] : i \in 1..j}
      BY <3>1, CheckedIs
    <3> QED
      BY <3>1, <3>2 DEF CircuitInv, Knows
  <2>2. \A j \in DOMAIN Checked : "idle" # Checked[j]
    BY <1>2 DEF Range
  <2> QED
    BY <1>2, <1>3, <2>1, <2>2 DEF Knows
<1>13. p = S => SenderLocals'
  BY <1>1, <1>2, <1>3, NoHints
<1>14. p = R => ReceiverLocals'
  BY <1>1, <1>2, <1>3, NoTable
<1>15. \A d \in Party : Last(d, p)' = LastOf(d, p, n)'
  <2>1. \A d \in Party : Last(d, p)' = Previous(d, p, n, "idle", 1)'
    BY <1>3, <1>6 DEF Last
  <2> QED
    BY <2>1, <1>2 DEF Previous, InInit
<1> QED
  BY <1>5, <1>7, <1>8, <1>9, <1>10, <1>11, <1>12, <1>13, <1>14, <1>15

\* The last messages of a call that has ended.
LEMMA LastOfEnded ==
    ASSUME NEW d, NEW p, NEW n \in Nat \ {0}
    PROVE  /\ results'[p][n] = Stashed =>
                 LastOf(d, p, n)' = Place(n, IF d = S THEN "stash" ELSE "sender_features", 1)
           /\ results'[p][n] = HintStashed =>
                 LastOf(d, p, n)' = Place(n, IF d = S THEN "ot" ELSE "hint_stash", 1)
           /\ ~Threw(results'[p][n]) /\ Features(n)' = 0 =>
                 LastOf(d, p, n)' = Place(n, "equal", 1)
           /\ ~Threw(results'[p][n]) /\ Features(n)' # 0 =>
                 LastOf(d, p, n)' = Place(n, "multiplexer", Features(n)')
BY ThrewIs DEF LastOf, Place

\* The stages whose messages the transfers and the sizes of the stashes are.
LEMMA SomeStages ==
    /\ \A s \in {"stash", "ot", "hint_hash", "hint_stash", "hint", "feature_hint"} :
          /\ s \in InCall \ Sizes /\ s \in Stages /\ s \notin TwoWay /\ s \notin InInit
          /\ s \notin Compared /\ s \notin Rest
          /\ \A k \in DOMAIN Checked : s # Checked[k]
    /\ \A s \in {"ot", "hint_hash", "hint_stash", "hint", "feature_hint"} : s \in Placed
    /\ \A s \in {"stash", "ot", "hint_hash", "hint_stash"} : s \notin Hinted
    /\ \A s \in {"stash", "ot", "hint_hash", "hint_stash", "hint"} : s \notin Opened
    /\ \A s \in {"hint", "feature_hint"} : s \in Hinted
    /\ "stash" \notin Placed /\ "feature_hint" \in Opened
    /\ 1 \in Nat \ {0}
BY InitStages, CheckedIs, StagesAre
DEF InCall, Sizes, TwoWay, Placed, Hinted, Compared, Opened, Rest

LEMMA OtSendKeeps ==
    ASSUME CircuitInv, OtSend
    PROVE  CircuitInv'
<1>1. /\ stage[S] = "ot" /\ io[S] = "recv" /\ EnterAt(S, "hint_hash", 1)
      /\ Take(S, [unit |-> "ot", number |-> Bins(S)])
      /\ UNCHANGED <<params, calls, results, sent, remote, peer_size, common_prng, locals>>
  BY DEF OtSend, At, Enter, S, values
<1>2. UNCHANGED <<cuckoo_table, hint_table, stash_size, contents, opened, hint_features,
                  output_shares>>
  BY <1>1 DEF locals, tables
<1>3. /\ stage[S] \in InCall \ Sizes /\ stage[S] \notin TwoWay /\ stage[S] \in Placed
      /\ stage[S] \notin Hinted /\ stage[S] \notin {"hint_stash"} \cup Hinted
      /\ "hint_hash" \in InCall \ Sizes /\ "hint_hash" \in Stages /\ 1 \in Nat \ {0}
      /\ "hint_hash" \in Placed /\ "hint_hash" \notin {"hint_stash"} \cup Hinted
  BY <1>1, SomeStages
<1>4. PICK n : n = Number(S)
  OBVIOUS
<1>5. Others(S)
  <2>1. Peer(S) \in Party \ {S} /\ Peer(S) = R
    BY TwoParties
  <2> QED
    BY <1>1, <1>2, <1>3, <2>1, Entered, TwoParties DEF Others
<1>6. DrawsIn(S, "hint_hash") = DrawsIn(S, stage[S])
  BY <1>1, TwoParties DEF DrawsIn, Sizes, Hinted, Compared
<1>7. output_shares'[S] = <<>>
  BY <1>1, <1>2, NoColumns, TwoParties
<1>8. /\ n = Number(S) /\ UNCHANGED <<calls, results, peer_size, common_prng>>
      /\ ThroughStash(n)
  BY <1>1, <1>3, <1>4, Through
<1>9. /\ Alone(S) /\ Control(S)' /\ Knows(S)' /\ Ended'
      /\ \A d \in Party : Last(d, S)' = Previous(d, S, n, "hint_hash", 1)
  BY <1>1, <1>3, <1>5, <1>6, <1>7, <1>8, StepsWithoutDraw, TwoParties
<1>10. fid[S] = 1
  BY <1>1, <1>3, <1>4, InMidCall, TwoParties
<1>11. /\ Last(R, S)' = Previous(R, S, n, stage[S], fid[S])
       /\ Last(S, S)' = Place(n, stage[S], fid[S])
  BY <1>1, <1>9, <1>10, PreviousIs, TwoParties
<1>12. /\ \A r \in Party : InOrder(r)'
       /\ DOMAIN chan' = Party /\ \A r \in Party : chan'[r] \in Seq(Range(chan'[r]))
  <2>1. PICK width : width = [unit |-> "ot", number |-> Bins(S)]
    BY Zenon
  <2>2. /\ Take(S, width) /\ R = Peer(S) /\ n = Number(S) /\ S \in Party /\ io[S] = "recv"
        /\ stage[S] \in InCall \ Sizes /\ stage[S] \notin TwoWay
    BY <1>1, <1>3, <1>4, <2>1, TwoParties
  <2> QED
    BY <1>9, <1>11, <2>2, ReadsOn
<1>13. TypeOK'
  BY Zenon, <1>1, <1>3, EnteredType, LocalsTypeStays, TypeAfter, TwoParties DEF CircuitInv, TypeOK
<1>14. AreSequences'
  BY <1>1, <1>2, <1>12, SequencesStay DEF CircuitInv, AreSequences
<1>15. SenderLocals'
  <2>1. stage'[S] = "hint_hash"
    BY <1>1, <1>3, Entered, TwoParties
  <2> QED
    BY <1>2, <1>3, <2>1, NoHints
<1> QED
  BY <1>9, <1>12, <1>13, <1>14, <1>15, Together, TwoParties

LEMMA PostedType ==
    ASSUME CircuitInv, NEW p \in Party, NEW width, NEW value, Post(p, width, value)
    PROVE  DOMAIN chan' = Party /\ \A r \in Party : chan'[r] \in Seq(Range(chan'[r]))
<1>1. PICK q \in Party : q = Peer(p)
  BY TwoParties
<1>2. PICK m : chan' = [chan EXCEPT ![q] = Append(chan[q], m)]
  BY Zenon, <1>1 DEF Post
<1>3. DOMAIN chan = Party /\ \A r \in Party : chan[r] \in Seq(Range(chan[r]))
  BY DEF CircuitInv, AreSequences
<1>4. chan'[q] \in Seq(Range(chan[q]) \cup {m})
  <2>1. chan[q] \in Seq(Range(chan[q]) \cup {m})
    BY <1>3
  <2> QED
    BY <1>2, <1>3, <2>1
<1>5. chan'[q] \in Seq(Range(chan'[q]))
  BY <1>4, OwnRange
<1> QED
  BY Zenon, <1>2, <1>3, <1>5

LEMMA TakenType ==
    ASSUME CircuitInv, NEW p \in Party, NEW width, Take(p, width)
    PROVE  DOMAIN chan' = Party /\ \A r \in Party : chan'[r] \in Seq(Range(chan'[r]))
<1>1. chan' = [chan EXCEPT ![p] = Tail(chan[p])] /\ chan[p] # <<>>
  BY DEF Take
<1>2. DOMAIN chan = Party /\ \A r \in Party : chan[r] \in Seq(Range(chan[r]))
  BY DEF CircuitInv, AreSequences
<1>3. chan'[p] \in Seq(Range(chan[p]))
  BY <1>1, <1>2
<1>4. chan'[p] \in Seq(Range(chan'[p]))
  BY <1>3, OwnRange
<1> QED
  BY Zenon, <1>1, <1>2, <1>4
-----------------------------------------------------------------------------
(* The sizes of the stashes.                                               *)

LEMMA SendStashSizeKeeps ==
    ASSUME CircuitInv, SendStashSize
    PROVE  CircuitInv'
<1>1. /\ stage[R] = "stash" /\ io[R] = "send" /\ Post(R, Words(1), stash_size[R])
      /\ UNCHANGED <<params, calls, sent, remote, peer_size, common_prng>>
      /\ IF stash_size[R] > 0 THEN End(R, Stashed)
         ELSE EnterAt(R, "ot", 1) /\ UNCHANGED <<results, locals>>
  BY DEF SendStashSize, At, Enter, R, values, Throw, Stashed
<1>2. /\ stage[R] \in InCall \ Sizes /\ stage[R] \notin TwoWay /\ stage[R] \notin Placed
      /\ stage[R] \notin Hinted /\ "ot" \in InCall \ Sizes /\ "ot" \in Stages
      /\ 1 \in Nat \ {0} /\ "ot" \in Placed /\ "ot" \notin Hinted /\ "ot" \notin Opened
      /\ "ot" \notin Compared /\ stage[R] \notin Opened
  BY <1>1, SomeStages
<1>3. PICK n : n = Number(R) /\ n = Number(R)'
  BY Zenon, <1>1 DEF Number
<1>4. /\ n \in DOMAIN calls[S] /\ n \in DOMAIN calls[R] /\ n \in Nat \ {0}
      /\ n \notin DOMAIN results[R] /\ fid[R] = 1
  BY Zenon, <1>1, <1>2, <1>3, InMidCall, TwoParties
<1>5. DrawsIn(R, stage[R]) = 1 /\ DrawsIn(R, "ot") = 1
  BY <1>1, TwoParties DEF DrawsIn, Sizes, Opened, Compared
<1>6. \/ stash_size[R] = 0 /\ TableOf(n)
      \/ stash_size[R] = 1 /\ cuckoo_table = <<>>
  BY <1>1, <1>3 DEF CircuitInv, ReceiverLocals
<1>7. /\ Previous(R, R, n, stage[R], fid[R]) = Place(n, "sender_features", 1)
      /\ Previous(R, R, n, "ot", 1) = Place(n, "sender_features", 1)
      /\ Previous(S, R, n, "ot", 1) = Place(n, "stash", 1)
  BY <1>1, PreviousIs, TwoParties
<1>8. PICK width, value, m :
          /\ width = Words(1) /\ value = stash_size[R]
          /\ m = [is |-> stage[R], fid |-> fid[R], width |-> width, value |-> value]
  BY Zenon
<1>9. /\ m.is = "stash" /\ m.fid = 1 /\ m.width = Words(1) /\ m.value = stash_size[R]
  BY <1>1, <1>4, <1>8
<1>10. ASSUME \/ stash_size[R] = 0 /\ ThroughStash(n)'
              \/ stash_size[R] = 1 /\ n \in DOMAIN results'[R] /\ results'[R][n] = Stashed
       PROVE  Says(S, n, m)'
  <2>1. "stash" \in To(S) /\ "stash" \notin InInit /\ "stash" \notin Sizes
        /\ "stash" \notin Placed /\ "stash" \notin Hinted /\ "stash" \notin Compared
        /\ \A k \in DOMAIN Checked : "stash" # Checked[k]
    BY SomeStages DEF To
  <2>2. To(S)' = To(S)
    BY DEF To
  <2> QED
    BY <1>1, <1>4, <1>9, <1>10, <2>1, <2>2, TwoParties DEF Says
<1>11. ASSUME Alone(R), Says(S, n, m)', Last(R, R)' = Place(n, "sender_features", 1),
              Last(S, R)' = Place(n, "stash", 1)
       PROVE  /\ \A r \in Party : InOrder(r)'
              /\ DOMAIN chan' = Party /\ \A r \in Party : chan'[r] \in Seq(Range(chan'[r]))
  <2>1. /\ Post(R, width, value) /\ S = Peer(R) /\ n = Number(R) /\ R \in Party
        /\ stage[R] \in InCall \ Sizes /\ stage[R] \notin TwoWay
        /\ Last(R, R)' = Previous(R, R, n, stage[R], fid[R])
        /\ Last(S, R)' = Place(n, stage[R], fid[R])
    BY <1>1, <1>2, <1>3, <1>4, <1>7, <1>8, <1>11, TwoParties
  <2> QED
    BY <1>8, <1>11, <2>1, SendsOn
<1>12. CASE stash_size[R] = 0
  <2>1. EnterAt(R, "ot", 1) /\ UNCHANGED <<results, locals>> /\ TableOf(n)
    BY <1>1, <1>6, <1>12
  <2>2. UNCHANGED <<cuckoo_table, hint_table, stash_size, contents, opened, hint_features,
                    output_shares>>
    BY <2>1 DEF locals, tables
  <2>3. Others(R)
    <3>1. Peer(R) \in Party \ {R} /\ Peer(R) = S
      BY TwoParties
    <3> QED
      BY <1>1, <1>2, <2>1, <2>2, <3>1, Entered, TwoParties DEF Others
  <2>4. output_shares'[R] = <<>>
    BY <1>1, <2>2, NoColumns, TwoParties
  <2>5. /\ Alone(R) /\ Control(R)' /\ Knows(R)' /\ Ended'
        /\ \A d \in Party : Last(d, R)' = Previous(d, R, n, "ot", 1)
    <3>1. n = Number(R) /\ UNCHANGED <<calls, results, peer_size, common_prng>>
          /\ DrawsIn(R, "ot") = DrawsIn(R, stage[R])
      BY <1>1, <1>3, <1>5, <2>1
    <3> QED
      BY <1>1, <1>2, <2>1, <2>3, <2>4, <3>1, StepsWithoutDraw, TwoParties
  <2>6. stage'[R] = "ot" /\ ~HasRead(R)'
    BY <1>2, <2>1, Entered, TwoParties
  <2>7. ThroughStash(n)'
    BY <1>2, <1>3, <1>4, <2>1, <2>6 DEF ThroughStash, Placed
  <2>8. /\ \A r \in Party : InOrder(r)'
        /\ DOMAIN chan' = Party /\ \A r \in Party : chan'[r] \in Seq(Range(chan'[r]))
    <3>1. Says(S, n, m)'
      BY <1>10, <1>12, <2>7
    <3>2. Last(R, R)' = Place(n, "sender_features", 1) /\ Last(S, R)' = Place(n, "stash", 1)
      BY <1>7, <2>5, TwoParties
    <3> QED
      BY <1>11, <2>5, <3>1, <3>2
  <2>9. TypeOK'
    BY Zenon, <1>1, <1>2, <2>1, EnteredType, LocalsTypeStays, TypeAfter, TwoParties
    DEF CircuitInv, TypeOK
  <2>10. AreSequences'
    BY <1>1, <2>1, <2>2, <2>8, SequencesStay DEF CircuitInv, AreSequences
  <2>11. ReceiverLocals'
    <3>1. TableOf(n)'
      BY <1>4, <2>1, <2>2, <2>5, TableStays, TwoParties
    <3>2. opened = {} /\ hint_features = <<>>
      BY <1>2 DEF CircuitInv, ReceiverLocals
    <3> QED
      BY <1>2, <1>3, <1>12, <2>2, <2>6, <3>1, <3>2 DEF ReceiverLocals
  <2> QED
    BY <2>5, <2>8, <2>9, <2>10, <2>11, Together, TwoParties
<1>13. CASE stash_size[R] = 1
  <2>1. End(R, Stashed) /\ Threw(Stashed) /\ Stashed # HintStashed
    BY <1>1, <1>13, ThrewIs
  <2>2. DOMAIN chan' = Party /\ \A r \in Party : chan'[r] \in Seq(Range(chan'[r]))
    BY <1>1, <1>4, <1>8, PostedType, TwoParties DEF CircuitInv
  <2>3. /\ Alone(R) /\ Control(R)' /\ Knows(R)' /\ Ended' /\ TypeOK' /\ AreSequences'
        /\ ReceiverLocals' /\ n \in DOMAIN results'[R] /\ results'[R][n] = Stashed
        /\ \A d \in Party : Last(d, R)' = LastOf(d, R, n)'
    <3>1. n = Number(R) /\ R \in Party /\ R # S
      BY <1>3, TwoParties
    <3> QED
      BY <1>1, <1>2, <1>5, <2>1, <2>2, <3>1, EndsInCall
  <2>4. Last(R, R)' = Place(n, "sender_features", 1) /\ Last(S, R)' = Place(n, "stash", 1)
    BY <1>4, <2>3, LastOfEnded, TwoParties
  <2>5. \A r \in Party : InOrder(r)'
    BY <1>10, <1>11, <1>13, <2>3, <2>4
  <2> QED
    BY <2>3, <2>5, Together, TwoParties
<1> QED
  BY <1>6, <1>12, <1>13

LEMMA RecvStashSizeKeeps ==
    ASSUME CircuitInv, RecvStashSize
    PROVE  CircuitInv'
<1>1. /\ stage[S] = "stash" /\ io[S] = "recv" /\ Take(S, Words(1))
      /\ UNCHANGED <<params, calls, sent, remote, peer_size, common_prng>>
      /\ IF Head(chan[S]).value > 0 THEN End(S, Stashed)
         ELSE EnterAt(S, "ot", 1) /\ UNCHANGED <<results, locals>>
  BY DEF RecvStashSize, At, Enter, S, values, Throw, Stashed
<1>2. /\ stage[S] \in InCall \ Sizes /\ stage[S] \notin TwoWay /\ stage[S] \notin Placed
      /\ stage[S] \notin Hinted /\ "ot" \in InCall \ Sizes /\ "ot" \in Stages
      /\ 1 \in Nat \ {0} /\ "ot" \in Placed /\ "ot" \notin Hinted
      /\ stage[S] \notin {"hint_stash"} \cup Hinted /\ "ot" \notin {"hint_stash"} \cup Hinted
  BY <1>1, SomeStages
<1>3. PICK n : n = Number(S)
  OBVIOUS
<1>4. /\ n \in DOMAIN calls[S] /\ n \in DOMAIN calls[R] /\ n \in Nat \ {0} /\ fid[S] = 1
  BY <1>1, <1>2, <1>3, InMidCall, TwoParties
<1>5. DrawsIn(S, stage[S]) = 1 /\ DrawsIn(S, "ot") = 1
  BY <1>1, TwoParties DEF DrawsIn, Sizes, Hinted, Compared
<1>6. /\ \/ Head(chan[S]).value = 0 /\ ThroughStash(n)
         \/ Head(chan[S]).value = 1 /\ n \in DOMAIN results[R] /\ results[R][n] = Stashed
      /\ DOMAIN chan' = Party /\ \A r \in Party : chan'[r] \in Seq(Range(chan'[r]))
  <2>1. Says(S, n, Head(chan[S])) /\ Head(chan[S]).is = "stash"
    BY <1>1, <1>3, Found, TwoParties
  <2>2. DOMAIN chan' = Party /\ \A r \in Party : chan'[r] \in Seq(Range(chan'[r]))
    BY <1>1, TakenType, TwoParties
  <2> QED
    BY <2>1, <2>2 DEF Says
<1>7. /\ Previous(R, S, n, stage[S], fid[S]) = Place(n, "sender_features", 1)
      /\ Previous(R, S, n, "ot", 1) = Place(n, "sender_features", 1)
      /\ Previous(S, S, n, "ot", 1) = Place(n, "stash", 1)
  BY <1>1, PreviousIs, TwoParties
<1>8. ASSUME Alone(S), Last(R, S)' = Place(n, "sender_features", 1),
             Last(S, S)' = Place(n, "stash", 1)
      PROVE  \A r \in Party : InOrder(r)'
  <2>1. PICK width : width = Words(1)
    OBVIOUS
  <2>2. /\ Take(S, width) /\ R = Peer(S) /\ n = Number(S) /\ S \in Party /\ io[S] = "recv"
        /\ stage[S] \in InCall \ Sizes /\ stage[S] \notin TwoWay
        /\ Last(R, S)' = Previous(R, S, n, stage[S], fid[S])
        /\ Last(S, S)' = Place(n, stage[S], fid[S])
    BY <1>1, <1>2, <1>3, <1>4, <1>7, <1>8, <2>1, TwoParties
  <2> QED
    BY <1>8, <2>2, ReadsOn
<1>9. CASE Head(chan[S]).value = 0
  <2>1. EnterAt(S, "ot", 1) /\ UNCHANGED <<results, locals>> /\ ThroughStash(n)
    BY <1>1, <1>6, <1>9
  <2>2. UNCHANGED <<cuckoo_table, hint_table, stash_size, contents, opened, hint_features,
                    output_shares>>
    BY <2>1 DEF locals, tables
  <2>3. Others(S)
    <3>1. Peer(S) \in Party \ {S} /\ Peer(S) = R
      BY TwoParties
    <3> QED
      BY <1>1, <1>2, <2>1, <2>2, <3>1, Entered, TwoParties DEF Others
  <2>4. output_shares'[S] = <<>>
    BY <1>1, <2>2, NoColumns, TwoParties
  <2>5. /\ Alone(S) /\ Control(S)' /\ Knows(S)' /\ Ended'
        /\ \A d \in Party : Last(d, S)' = Previous(d, S, n, "ot", 1)
    <3>1. n = Number(S) /\ UNCHANGED <<calls, results, peer_size, common_prng>>
          /\ DrawsIn(S, "ot") = DrawsIn(S, stage[S])
      BY <1>1, <1>3, <1>5, <2>1
    <3> QED
      BY <1>1, <1>2, <2>1, <2>3, <2>4, <3>1, StepsWithoutDraw, TwoParties
  <2>6. \A r \in Party : InOrder(r)'
    <3>1. Last(R, S)' = Place(n, "sender_features", 1) /\ Last(S, S)' = Place(n, "stash", 1)
      BY <1>7, <2>5, TwoParties
    <3> QED
      BY <1>8, <2>5, <3>1
  <2>7. TypeOK'
    BY Zenon, <1>1, <1>2, <2>1, EnteredType, LocalsTypeStays, TypeAfter, TwoParties
    DEF CircuitInv, TypeOK
  <2>8. AreSequences'
    BY <1>1, <1>6, <2>1, <2>2, SequencesStay DEF CircuitInv, AreSequences
  <2>9. SenderLocals'
    <3>1. stage'[S] = "ot"
      BY <1>2, <2>1, Entered, TwoParties
    <3> QED
      BY <1>2, <2>2, <3>1, NoHints
  <2> QED
    BY <2>5, <2>6, <2>7, <2>8, <2>9, Together, TwoParties
<1>10. CASE Head(chan[S]).value = 1
  <2>1. /\ End(S, Stashed) /\ Threw(Stashed) /\ Stashed # HintStashed
        /\ n \in DOMAIN results[R] /\ results[R][n] = Stashed
    BY <1>1, <1>6, <1>10, ThrewIs
  <2>2. /\ Alone(S) /\ Control(S)' /\ Knows(S)' /\ Ended' /\ TypeOK' /\ AreSequences'
        /\ SenderLocals' /\ n \in DOMAIN results'[S] /\ results'[S][n] = Stashed
        /\ \A d \in Party : Last(d, S)' = LastOf(d, S, n)'
    <3>1. n = Number(S) /\ S \in Party /\ R # S
      BY <1>3, TwoParties
    <3> QED
      BY <1>1, <1>2, <1>5, <1>6, <2>1, <3>1, EndsInCall
  <2>3. Last(R, S)' = Place(n, "sender_features", 1) /\ Last(S, S)' = Place(n, "stash", 1)
    BY <1>4, <2>2, LastOfEnded, TwoParties
  <2>4. \A r \in Party : InOrder(r)'
    BY <1>8, <2>2, <2>3
  <2> QED
    BY <2>2, <2>4, Together, TwoParties
<1> QED
  BY <1>6, <1>9, <1>10

LEMMA SendHintStashSizeKeeps ==
    ASSUME CircuitInv, SendHintStashSize
    PROVE  CircuitInv'
<1>1. /\ stage[S] = "hint_stash" /\ io[S] = "send" /\ Post(S, Words(1), stash_size[S])
      /\ UNCHANGED <<params, calls, sent, remote, peer_size, common_prng>>
      /\ IF stash_size[S] > 0 THEN End(S, HintStashed)
         ELSE EnterAt(S, "hint", 1) /\ UNCHANGED <<results, locals>>
  BY DEF SendHintStashSize, At, Enter, S, values, Throw, HintStashed
<1>2. /\ stage[S] \in InCall \ Sizes /\ stage[S] \notin TwoWay /\ stage[S] \in Placed
      /\ stage[S] \notin Hinted /\ "hint" \in InCall \ Sizes /\ "hint" \in Stages
      /\ 1 \in Nat \ {0} /\ "hint" \in Placed /\ "hint" \in Hinted /\ "hint" \notin Opened
      /\ "hint" \notin Compared /\ stage[S] \notin Opened
  BY <1>1, SomeStages
<1>3. PICK n : n = Number(S) /\ n = Number(S)'
  BY Zenon, <1>1 DEF Number
<1>4. /\ n \in DOMAIN calls[S] /\ n \in DOMAIN calls[R] /\ n \in Nat \ {0}
      /\ n \notin DOMAIN results[S] /\ fid[S] = 1
  BY Zenon, <1>1, <1>2, <1>3, InMidCall, TwoParties
<1>5. DrawsIn(S, stage[S]) = 2 /\ DrawsIn(S, "hint") = 2
  BY <1>1, TwoParties DEF DrawsIn, Sizes, Hinted, Compared
<1>6. /\ \/ stash_size[S] = 0 /\ hint_table \in HintsOf(n)
         \/ stash_size[S] = 1 /\ hint_table = <<>>
      /\ contents = <<>>
  BY <1>1, <1>2, <1>3 DEF CircuitInv, SenderLocals
<1>7. /\ Previous(S, S, n, stage[S], fid[S]) = Place(n, "ot", 1)
      /\ Previous(S, S, n, "hint", 1) = Place(n, "ot", 1)
      /\ Previous(R, S, n, "hint", 1) = Place(n, "hint_stash", 1)
  BY <1>1, PreviousIs, TwoParties
<1>8. PICK width, value, m :
          /\ width = Words(1) /\ value = stash_size[S]
          /\ m = [is |-> stage[S], fid |-> fid[S], width |-> width, value |-> value]
  BY Zenon
<1>9. /\ m.is = "hint_stash" /\ m.fid = 1 /\ m.width = Words(1) /\ m.value = stash_size[S]
  BY <1>1, <1>4, <1>8
<1>10. ThroughStash(n)
  BY <1>2, <1>3, Through
<1>11. ASSUME Alone(S),
              \/ stash_size[S] = 0 /\ ThroughHint(n)'
              \/ stash_size[S] = 1 /\ n \in DOMAIN results'[S] /\ results'[S][n] = HintStashed
       PROVE  Says(R, n, m)'
  <2>1. "hint_stash" \in To(R) /\ "hint_stash" \notin InInit /\ "hint_stash" \notin Sizes
        /\ "hint_stash" \notin Hinted /\ "hint_stash" \notin Compared
        /\ \A k \in DOMAIN Checked : "hint_stash" # Checked[k]
    BY SomeStages, TwoParties DEF To
  <2>2. To(R)' = To(R)
    BY DEF To
  <2>3. ThroughStash(n)'
    BY <1>10, <1>11 DEF Alone
  <2> QED
    BY <1>1, <1>4, <1>9, <1>11, <2>1, <2>2, <2>3, TwoParties DEF Says
<1>12. ASSUME Alone(S), Says(R, n, m)', Last(S, S)' = Place(n, "ot", 1),
              Last(R, S)' = Place(n, "hint_stash", 1)
       PROVE  /\ \A r \in Party : InOrder(r)'
              /\ DOMAIN chan' = Party /\ \A r \in Party : chan'[r] \in Seq(Range(chan'[r]))
  <2>1. /\ Post(S, width, value) /\ R = Peer(S) /\ n = Number(S) /\ S \in Party
        /\ stage[S] \in InCall \ Sizes /\ stage[S] \notin TwoWay
        /\ Last(S, S)' = Previous(S, S, n, stage[S], fid[S])
        /\ Last(R, S)' = Place(n, stage[S], fid[S])
    BY <1>1, <1>2, <1>3, <1>4, <1>7, <1>8, <1>12, TwoParties
  <2> QED
    BY <1>8, <1>12, <2>1, SendsOn
<1>13. CASE stash_size[S] = 0
  <2>1. EnterAt(S, "hint", 1) /\ UNCHANGED <<results, locals>> /\ hint_table \in HintsOf(n)
    BY <1>1, <1>6, <1>13
  <2>2. UNCHANGED <<cuckoo_table, hint_table, stash_size, contents, opened, hint_features,
                    output_shares>>
    BY <2>1 DEF locals, tables
  <2>3. Others(S)
    <3>1. Peer(S) \in Party \ {S} /\ Peer(S) = R
      BY TwoParties
    <3> QED
      BY <1>1, <1>2, <2>1, <2>2, <3>1, Entered, TwoParties DEF Others
  <2>4. output_shares'[S] = <<>>
    BY <1>1, <2>2, NoColumns, TwoParties
  <2>5. /\ Alone(S) /\ Control(S)' /\ Knows(S)' /\ Ended'
        /\ \A d \in Party : Last(d, S)' = Previous(d, S, n, "hint", 1)
    <3>1. n = Number(S) /\ UNCHANGED <<calls, results, peer_size, common_prng>>
          /\ DrawsIn(S, "hint") = DrawsIn(S, stage[S])
      BY <1>1, <1>3, <1>5, <2>1
    <3> QED
      BY <1>1, <1>2, <1>10, <2>1, <2>3, <2>4, <3>1, StepsWithoutDraw, TwoParties
  <2>6. stage'[S] = "hint" /\ ~HasWritten(S)'
    BY <1>2, <2>1, Entered, TwoParties
  <2>7. ThroughHint(n)'
    BY <1>2, <1>3, <1>4, <2>1, <2>6 DEF ThroughHint, Hinted
  <2>8. /\ \A r \in Party : InOrder(r)'
        /\ DOMAIN chan' = Party /\ \A r \in Party : chan'[r] \in Seq(Range(chan'[r]))
    <3>1. Says(R, n, m)'
      BY <1>11, <1>13, <2>5, <2>7
    <3>2. Last(S, S)' = Place(n, "ot", 1) /\ Last(R, S)' = Place(n, "hint_stash", 1)
      BY <1>7, <2>5, TwoParties
    <3> QED
      BY <1>12, <2>5, <3>1, <3>2
  <2>9. TypeOK'
    BY Zenon, <1>1, <1>2, <2>1, EnteredType, LocalsTypeStays, TypeAfter, TwoParties
    DEF CircuitInv, TypeOK
  <2>10. AreSequences'
    BY <1>1, <2>1, <2>2, <2>8, SequencesStay DEF CircuitInv, AreSequences
  <2>11. SenderLocals'
    <3>1. HintsOf(n)' = HintsOf(n)
      BY <1>4, <2>5, ComesTo, TwoParties
    <3> QED
      BY <1>2, <1>3, <1>6, <1>13, <2>1, <2>2, <2>6, <3>1 DEF SenderLocals
  <2> QED
    BY <2>5, <2>8, <2>9, <2>10, <2>11, Together, TwoParties
<1>14. CASE stash_size[S] = 1
  <2>1. End(S, HintStashed) /\ Threw(HintStashed) /\ Stashed # HintStashed
    BY <1>1, <1>14, ThrewIs
  <2>2. DOMAIN chan' = Party /\ \A r \in Party : chan'[r] \in Seq(Range(chan'[r]))
    BY <1>1, PostedType, TwoParties
  <2>3. /\ Alone(S) /\ Control(S)' /\ Knows(S)' /\ Ended' /\ TypeOK' /\ AreSequences'
        /\ SenderLocals' /\ n \in DOMAIN results'[S] /\ results'[S][n] = HintStashed
        /\ \A d \in Party : Last(d, S)' = LastOf(d, S, n)'
    <3>1. n = Number(S) /\ S \in Party /\ R # S
      BY <1>3, TwoParties
    <3> QED
      BY <1>1, <1>2, <1>5, <1>10, <2>1, <2>2, <3>1, EndsInCall
  <2>4. Last(S, S)' = Place(n, "ot", 1) /\ Last(R, S)' = Place(n, "hint_stash", 1)
    BY <1>4, <2>3, LastOfEnded, TwoParties
  <2>5. \A r \in Party : InOrder(r)'
    <3>1. Says(R, n, m)'
      BY <1>11, <1>14, <2>3
    <3> QED
      BY <1>12, <2>3, <2>4, <3>1
  <2> QED
    BY <2>3, <2>5, Together, TwoParties
<1> QED
  BY <1>6, <1>13, <1>14

LEMMA RecvHintStashSizeKeeps ==
    ASSUME CircuitInv, RecvHintStashSize
    PROVE  CircuitInv'
<1>1. /\ stage[R] = "hint_stash" /\ io[R] = "recv" /\ Take(R, Words(1))
      /\ UNCHANGED <<params, calls, sent, remote, peer_size, common_prng>>
      /\ IF Head(chan[R]).value > 0 THEN End(R, HintStashed)
         ELSE EnterAt(R, "hint", 1) /\ UNCHANGED <<results, locals>>
  BY DEF RecvHintStashSize, At, Enter, R, values, Throw, HintStashed
<1>2. /\ stage[R] \in InCall \ Sizes /\ stage[R] \notin TwoWay /\ stage[R] \in Placed
      /\ stage[R] \notin Hinted /\ "hint" \in InCall \ Sizes /\ "hint" \in Stages
      /\ 1 \in Nat \ {0} /\ "hint" \in Placed /\ "hint" \in Hinted
      /\ "hint" \notin Opened /\ "hint" \notin Compared /\ stage[R] \notin Opened
  BY <1>1, SomeStages
<1>3. PICK n : n = Number(R) /\ n = Number(R)'
  BY Zenon, <1>1 DEF Number
<1>4. /\ n \in DOMAIN calls[S] /\ n \in DOMAIN calls[R] /\ n \in Nat \ {0} /\ fid[R] = 1
  BY Zenon, <1>1, <1>2, <1>3, InMidCall, TwoParties
<1>5. DrawsIn(R, stage[R]) = 1 /\ DrawsIn(R, "hint") = 1
  BY <1>1, TwoParties DEF DrawsIn, Sizes, Opened, Compared
<1>6. /\ \/ Head(chan[R]).value = 0 /\ ThroughHint(n)
         \/ Head(chan[R]).value = 1 /\ n \in DOMAIN results[S] /\ results[S][n] = HintStashed
      /\ DOMAIN chan' = Party /\ \A r \in Party : chan'[r] \in Seq(Range(chan'[r]))
  <2>1. Says(R, n, Head(chan[R])) /\ Head(chan[R]).is = "hint_stash"
    BY Zenon, <1>1, <1>3, Found, TwoParties
  <2>2. DOMAIN chan' = Party /\ \A r \in Party : chan'[r] \in Seq(Range(chan'[r]))
    BY <1>1, TakenType, TwoParties
  <2> QED
    BY <2>1, <2>2 DEF Says
<1>7. /\ Previous(S, R, n, stage[R], fid[R]) = Place(n, "ot", 1)
      /\ Previous(S, R, n, "hint", 1) = Place(n, "ot", 1)
      /\ Previous(R, R, n, "hint", 1) = Place(n, "hint_stash", 1)
  BY <1>1, PreviousIs, TwoParties
<1>8. ASSUME Alone(R), Last(S, R)' = Place(n, "ot", 1),
             Last(R, R)' = Place(n, "hint_stash", 1)
      PROVE  \A r \in Party : InOrder(r)'
  <2>1. PICK width : width = Words(1)
    OBVIOUS
  <2>2. /\ Take(R, width) /\ S = Peer(R) /\ n = Number(R) /\ R \in Party /\ io[R] = "recv"
        /\ stage[R] \in InCall \ Sizes /\ stage[R] \notin TwoWay
        /\ Last(S, R)' = Previous(S, R, n, stage[R], fid[R])
        /\ Last(R, R)' = Place(n, stage[R], fid[R])
    BY <1>1, <1>2, <1>3, <1>4, <1>7, <1>8, <2>1, TwoParties
  <2> QED
    BY <1>8, <2>2, ReadsOn
<1>9. CASE Head(chan[R]).value = 0
  <2>1. EnterAt(R, "hint", 1) /\ UNCHANGED <<results, locals>> /\ ThroughHint(n)
    BY <1>1, <1>6, <1>9
  <2>2. UNCHANGED <<cuckoo_table, hint_table, stash_size, contents, opened, hint_features,
                    output_shares>>
    BY <2>1 DEF locals, tables
  <2>3. Others(R)
    <3>1. Peer(R) \in Party \ {R} /\ Peer(R) = S
      BY TwoParties
    <3> QED
      BY <1>1, <1>2, <2>1, <2>2, <3>1, Entered, TwoParties DEF Others
  <2>4. output_shares'[R] = <<>>
    BY <1>1, <2>2, NoColumns, TwoParties
  <2>5. /\ Alone(R) /\ Control(R)' /\ Knows(R)' /\ Ended'
        /\ \A d \in Party : Last(d, R)' = Previous(d, R, n, "hint", 1)
    <3>1. n = Number(R) /\ UNCHANGED <<calls, results, peer_size, common_prng>>
          /\ DrawsIn(R, "hint") = DrawsIn(R, stage[R])
      BY <1>1, <1>3, <1>5, <2>1
    <3> QED
      BY <1>1, <1>2, <2>1, <2>3, <2>4, <3>1, StepsWithoutDraw, TwoParties
  <2>6. \A r \in Party : InOrder(r)'
    <3>1. Last(S, R)' = Place(n, "ot", 1) /\ Last(R, R)' = Place(n, "hint_stash", 1)
      BY <1>7, <2>5, TwoParties
    <3> QED
      BY <1>8, <2>5, <3>1
  <2>7. TypeOK'
    BY Zenon, <1>1, <1>2, <2>1, EnteredType, LocalsTypeStays, TypeAfter, TwoParties
    DEF CircuitInv, TypeOK
  <2>8. AreSequences'
    BY <1>1, <1>6, <2>1, <2>2, SequencesStay DEF CircuitInv, AreSequences
  <2>9. ReceiverLocals'
    <3>1. stage'[R] = "hint" /\ ~HasRead(R)'
      BY <1>2, <2>1, Entered, TwoParties
    <3>2. stash_size[R] = 0 /\ TableOf(n) /\ opened = {} /\ hint_features = <<>>
      BY <1>2, <1>3 DEF CircuitInv, ReceiverLocals
    <3>3. TableOf(n)'
      BY <1>4, <2>2, <2>5, <3>2, TableStays, TwoParties
    <3> QED
      BY <1>2, <1>3, <2>2, <3>1, <3>2, <3>3, SomeStages DEF ReceiverLocals
  <2> QED
    BY <2>5, <2>6, <2>7, <2>8, <2>9, Together, TwoParties
<1>10. CASE Head(chan[R]).value = 1
  <2>1. /\ End(R, HintStashed) /\ Threw(HintStashed) /\ Stashed # HintStashed
        /\ n \in DOMAIN results[S] /\ results[S][n] = HintStashed
    BY <1>1, <1>6, <1>10, ThrewIs
  <2>2. /\ Alone(R) /\ Control(R)' /\ Knows(R)' /\ Ended' /\ TypeOK' /\ AreSequences'
        /\ ReceiverLocals' /\ n \in DOMAIN results'[R] /\ results'[R][n] = HintStashed
        /\ \A d \in Party : Last(d, R)' = LastOf(d, R, n)'
    <3>1. n = Number(R) /\ R \in Party /\ R # S
      BY <1>3, TwoParties
    <3> QED
      BY <1>1, <1>2, <1>5, <1>6, <2>1, <3>1, EndsInCall
  <2>3. Last(S, R)' = Place(n, "ot", 1) /\ Last(R, R)' = Place(n, "hint_stash", 1)
    BY <1>4, <2>2, LastOfEnded, TwoParties
  <2>4. \A r \in Party : InOrder(r)'
    BY <1>8, <2>2, <2>3
  <2> QED
    BY <2>2, <2>4, Together, TwoParties
<1> QED
  BY <1>6, <1>9, <1>10

-----------------------------------------------------------------------------
(* Hints.                                                                  *)

\* What comes after the hints, and after those of a feature: k features are
\* through, and the next is at its hints, or there is none.
LEMMA AfterHints ==
    ASSUME CircuitInv, NEW p \in Party, NEW n, n = Number(p), NEW k,
           \/ /\ stage[p] = "hint" /\ k = 0
              /\ EnterAt(p, IF HasFeatures(p) THEN "feature_hint" ELSE "equal", 1)
           \/ /\ stage[p] = "feature_hint" /\ k = fid[p]
              /\ NextFeature(p, "feature_hint", fid[p], "equal")
    PROVE  /\ k \in Nat /\ Features(n) \in Nat
           /\ \E s \in {"feature_hint", "equal"}, f \in Nat \ {0} :
                 /\ EnterAt(p, s, f)
                 /\ s = "feature_hint" => f = k + 1 /\ f \in 1..Features(n)
                 /\ s = "equal" => f = 1 /\ Features(n) = k
                 /\ Previous(S, p, n, stage[p], fid[p]) = Place(n, "ot", 1)
                 /\ Previous(S, p, n, s, f) = Place(n, "ot", 1)
                 /\ Previous(R, p, n, s, f) = Place(n, stage[p], fid[p])
<1>1. /\ stage[p] \in InCall \ Sizes /\ stage[p] \notin TwoWay
      /\ stage[p] \in InCall /\ stage[p] \notin Sizes
  BY SomeStages
<1>2. /\ n \in DOMAIN calls[S]
      /\ IF stage[p] = "feature_hint" THEN fid[p] \in 1..Features(n) ELSE fid[p] = 1
  BY <1>1, InMidCall
<1>3. PICK len \in Nat : len = Features(n)
  BY <1>2, FeaturesType DEF CircuitInv
<1>4. FeatureSize(p, S) = len
  BY <1>1, <1>3, BinsAgree
<1>5. HasFeatures(p) <=> len > 0
  BY <1>4 DEF HasFeatures, S
<1>6. Previous(S, p, n, stage[p], fid[p]) = Place(n, "ot", 1)
  BY PreviousIs, TwoParties
<1>7. CASE stage[p] = "hint"
  <2>1. k = 0 /\ EnterAt(p, IF len > 0 THEN "feature_hint" ELSE "equal", 1) /\ fid[p] = 1
    BY <1>2, <1>5, <1>7
  <2>2. CASE len > 0
    <3>1. EnterAt(p, "feature_hint", 1)
      BY <2>1, <2>2
    <3>2. /\ Previous(S, p, n, "feature_hint", 1) = Place(n, "ot", 1)
          /\ Previous(R, p, n, "feature_hint", 1) = Place(n, "hint", 1)
      BY PreviousIs, TwoParties
    <3> QED
      BY <1>3, <1>6, <1>7, <2>1, <2>2, <3>1, <3>2
  <2>3. CASE len = 0
    <3>1. EnterAt(p, "equal", 1)
      BY <2>1, <2>3
    <3>2. /\ Previous(S, p, n, "equal", 1) = Place(n, "ot", 1)
          /\ Previous(R, p, n, "equal", 1) = Place(n, "hint", 1)
      <4>1. Features(n) = 0
        BY <1>3, <2>3
      <4>2. Previous(S, p, n, "equal", 1) = Place(n, "ot", 1)
        BY PreviousIs, TwoParties
      <4>3. Previous(R, p, n, "equal", 1) = IF Features(n) = 0 THEN Place(n, "hint", 1)
                                            ELSE Place(n, "feature_hint", Features(n))
        BY PreviousIs, TwoParties
      <4> QED
        BY <4>1, <4>2, <4>3
    <3> QED
      BY <1>3, <1>6, <1>7, <2>1, <2>3, <3>1, <3>2
  <2> QED
    BY <2>2, <2>3
<1>8. CASE stage[p] = "feature_hint"
  <2>1. k = fid[p] /\ k \in 1..len /\ k \in Nat \ {0} /\ k + 1 # 1 /\ (k + 1) - 1 = k
    BY <1>2, <1>3, <1>8
  <2>2. IF k < len THEN EnterAt(p, "feature_hint", k + 1) ELSE EnterAt(p, "equal", 1)
    BY <1>4, <1>8, <2>1 DEF NextFeature, Enter, S
  <2>3. CASE k < len
    <3>1. EnterAt(p, "feature_hint", k + 1) /\ k + 1 \in 1..len
      BY <2>1, <2>2, <2>3
    <3>2. /\ Previous(S, p, n, "feature_hint", k + 1) = Place(n, "ot", 1)
          /\ Previous(R, p, n, "feature_hint", k + 1) = Place(n, "feature_hint", k)
      BY <2>1, PreviousIs, TwoParties
    <3> QED
      BY <1>3, <1>6, <1>8, <2>1, <3>1, <3>2
  <2>4. CASE k = len
    <3>1. EnterAt(p, "equal", 1)
      BY <2>1, <2>2, <2>4
    <3>2. /\ Previous(S, p, n, "equal", 1) = Place(n, "ot", 1)
          /\ Previous(R, p, n, "equal", 1) = Place(n, "feature_hint", k)
      BY <1>3, <2>1, <2>4, PreviousIs, TwoParties
    <3> QED
      BY <1>3, <1>6, <1>8, <2>1, <2>4, <3>1, <3>2
  <2> QED
    BY <2>1, <2>3, <2>4
<1> QED
  BY <1>7, <1>8

LEMMA HintStages ==
    /\ \A s \in {"feature_hint", "equal"} :
          /\ s \in InCall \ Sizes /\ s \in Stages /\ s \in Placed /\ s \in Hinted
          /\ s \in Opened /\ s # "hint_hash" /\ s # "multiplexer"
    /\ "equal" \in Compared /\ "feature_hint" \notin Compared
    /\ "hint" \in To(R) /\ "feature_hint" \in To(R)
BY InitStages, CheckedIs, StagesAre, TwoParties
DEF InCall, Sizes, TwoWay, Placed, Hinted, Compared, Opened, Rest, To

LEMMA SendHintKeeps ==
    ASSUME CircuitInv, SendHint
    PROVE  CircuitInv'
<1>1. /\ stage[S] = "hint" /\ io[S] = "send"
      /\ Post(S, Words(HintBins(S)), [seed |-> common_prng[S], entries |-> hint_table])
      /\ EnterAt(S, IF HasFeatures(S) THEN "feature_hint" ELSE "equal", 1)
      /\ UNCHANGED <<params, calls, results, sent, remote, peer_size, common_prng, locals>>
  BY DEF SendHint, At, Enter, S, values
<1>2. UNCHANGED <<cuckoo_table, hint_table, stash_size, contents, opened, hint_features,
                  output_shares>>
  BY <1>1 DEF locals, tables
<1>3. /\ stage[S] \in InCall \ Sizes /\ stage[S] \notin TwoWay /\ stage[S] \in Placed
      /\ stage[S] \in Hinted /\ stage[S] \notin Opened /\ stage[S] \in InCall
      /\ stage[S] \notin Sizes
  BY <1>1, SomeStages
<1>4. PICK n : n = Number(S) /\ n = Number(S)'
  BY Zenon, <1>1 DEF Number
<1>5. /\ n \in DOMAIN calls[S] /\ n \in DOMAIN calls[R] /\ n \in Nat \ {0}
      /\ n \notin DOMAIN results[S] /\ fid[S] = 1
  BY Zenon, <1>1, <1>3, <1>4, InMidCall, TwoParties
<1>6. PICK s \in {"feature_hint", "equal"}, f \in Nat \ {0} :
          /\ EnterAt(S, s, f)
          /\ s = "feature_hint" => f = 1 /\ f \in 1..Features(n)
          /\ s = "equal" => f = 1 /\ Features(n) = 0
          /\ Previous(S, S, n, stage[S], fid[S]) = Place(n, "ot", 1)
          /\ Previous(S, S, n, s, f) = Place(n, "ot", 1)
          /\ Previous(R, S, n, s, f) = Place(n, stage[S], fid[S])
  <2>1. PICK k \in Nat : k = 0 /\ k + 1 = 1
    OBVIOUS
  <2>2. \E s \in {"feature_hint", "equal"}, f \in Nat \ {0} :
           /\ EnterAt(S, s, f)
           /\ s = "feature_hint" => f = k + 1 /\ f \in 1..Features(n)
           /\ s = "equal" => f = 1 /\ Features(n) = k
           /\ Previous(S, S, n, stage[S], fid[S]) = Place(n, "ot", 1)
           /\ Previous(S, S, n, s, f) = Place(n, "ot", 1)
           /\ Previous(R, S, n, s, f) = Place(n, stage[S], fid[S])
    <3>1. /\ stage[S] = "hint" /\ k = 0
          /\ EnterAt(S, IF HasFeatures(S) THEN "feature_hint" ELSE "equal", 1)
      BY <1>1, <2>1
    <3>2. n = Number(S) /\ S \in Party
      BY <1>4, TwoParties
    <3> QED
      BY <3>1, <3>2, AfterHints
  <2> QED
    BY <2>1, <2>2
<1>7. /\ s \in InCall \ Sizes /\ s \in Stages /\ s \in Placed /\ s \in Hinted
      /\ s \in Opened /\ s # "hint_hash" /\ s # "multiplexer"
  BY HintStages
<1>8. /\ DrawsIn(S, s) = 2 /\ DrawsIn(S, stage[S]) = 2
  BY <1>1, TwoParties DEF DrawsIn, Sizes, Hinted, Compared
<1>9. Others(S)
  <2>1. Peer(S) \in Party \ {S} /\ Peer(S) = R
    BY TwoParties
  <2> QED
    BY <1>1, <1>2, <1>6, <1>7, <2>1, Entered, TwoParties DEF Others
<1>10. /\ n = Number(S) /\ UNCHANGED <<calls, results, peer_size, common_prng>>
       /\ DrawsIn(S, s) = DrawsIn(S, stage[S]) /\ output_shares'[S] = <<>>
       /\ ThroughStash(n)
       /\ IF s \in {"feature_hint", "multiplexer"} THEN f \in 1..Features(n) ELSE f = 1
  BY <1>1, <1>2, <1>3, <1>4, <1>6, <1>7, <1>8, NoColumns, Through, TwoParties
<1>11. /\ Alone(S) /\ Control(S)' /\ Knows(S)' /\ Ended'
       /\ \A d \in Party : Last(d, S)' = Previous(d, S, n, s, f)
  BY <1>3, <1>6, <1>7, <1>9, <1>10, StepsWithoutDraw, TwoParties
<1>12. stash_size[S] = 0 /\ hint_table \in HintsOf(n) /\ contents = <<>>
  BY <1>3, <1>4 DEF CircuitInv, SenderLocals
<1>13. PICK width, value, m :
          /\ width = Words(HintBins(S))
          /\ value = [seed |-> common_prng[S], entries |-> hint_table]
          /\ m = [is |-> stage[S], fid |-> fid[S], width |-> width, value |-> value]
  BY Zenon
<1>14. Says(R, n, m)'
  <2>1. HintBins(S) = HintBinsOf(n)
    BY Zenon, <1>3, <1>4, BinsAgree, TwoParties
  <2>2. common_prng[S] = Stream(Drawn(S, n) + 2)
    BY Zenon, <1>3, <1>4, <1>8, StreamIs, TwoParties
  <2>3. /\ m.is = "hint" /\ m.fid = 1 /\ m.width = Words(HintBinsOf(n))
        /\ m.value.seed = Stream(Drawn(S, n) + 2) /\ m.value.entries \in HintsOf(n)
    BY <1>1, <1>5, <1>12, <1>13, <2>1, <2>2
  <2>4. ThroughHint(n)
    BY <1>3, <1>4, <1>5 DEF ThroughHint
  <2>5. Says(R, n, m)
    <3>1. /\ "hint" \in To(R) /\ "hint" \notin InInit /\ "hint" \notin Sizes
          /\ "hint" \notin Compared /\ "hint" \in Placed /\ "hint" \in Hinted
          /\ \A k \in DOMAIN Checked : "hint" # Checked[k]
      BY SomeStages, HintStages
    <3> QED
      BY <1>5, <1>10, <2>3, <2>4, <3>1, TwoParties DEF Says
  <2> QED
    BY <1>11, <2>5, SaysLasts, TwoParties
<1>15. /\ \A r \in Party : InOrder(r)'
       /\ DOMAIN chan' = Party /\ \A r \in Party : chan'[r] \in Seq(Range(chan'[r]))
  <2>1. /\ Post(S, width, value) /\ R = Peer(S) /\ n = Number(S) /\ S \in Party
        /\ stage[S] \in InCall \ Sizes /\ stage[S] \notin TwoWay
        /\ Last(S, S)' = Previous(S, S, n, stage[S], fid[S])
        /\ Last(R, S)' = Place(n, stage[S], fid[S])
    BY <1>1, <1>3, <1>4, <1>6, <1>11, <1>13, TwoParties
  <2> QED
    BY <1>11, <1>13, <1>14, <2>1, SendsOn
<1>16. TypeOK'
  BY Zenon, <1>1, <1>6, <1>7, EnteredType, LocalsTypeStays, TypeAfter, TwoParties
  DEF CircuitInv, TypeOK
<1>17. AreSequences'
  BY <1>1, <1>2, <1>15, SequencesStay DEF CircuitInv, AreSequences
<1>18. SenderLocals'
  <2>1. stage'[S] = s /\ fid'[S] = f /\ ~HasWritten(S)'
    BY <1>6, <1>7, Entered, TwoParties
  <2>2. HintsOf(n)' = HintsOf(n) /\ Features(n)' = Features(n)
    BY <1>5, <1>11, ComesTo, TwoParties
  <2>3. /\ s \in Compared => s = "equal" /\ Features(n) = 0
        /\ s = "feature_hint" => f = 1
        /\ s # "hint_stash" /\ Len(contents') = 0
    BY <1>2, <1>6, <1>12, HintStages
  <2> QED
    BY <1>2, <1>4, <1>7, <1>12, <2>1, <2>2, <2>3 DEF SenderLocals
<1> QED
  BY <1>11, <1>15, <1>16, <1>17, <1>18, Together, TwoParties

\* A remainder is a word.
LEMMA RemainderType ==
    ASSUME NEW d \in Int
    PROVE  d % Modulus \in Word
<1>1. PICK m \in Nat : m = Modulus /\ m > 0
  BY CircuitBoundsAssumption
<1>2. d % m \in 0..(m - 1)
  BY <1>1
<1> QED
  BY <1>1, <1>2 DEF Word

LEMMA WordType ==
    /\ \A w \in Word : w \in Int /\ w \in Nat
    /\ Randoms \subseteq Word
<1>1. PICK m \in Nat : m = Modulus
  BY CircuitBoundsAssumption
<1> QED
  BY <1>1, CircuitBoundsAssumption DEF Word

\* What the sender hides of a feature.
LEMMA HiddenType ==
    ASSUME CircuitInv, stage[S] \in InCall, NEW n, n = Number(S), NEW k \in 1..Features(n),
           NEW content \in Randoms, NEW value,
           value = [mask \in MasksOf(n) |->
                      Hidden(Current(S).features[k][CHOOSE i \in DOMAIN Current(S).keys :
                                                       Current(S).keys[i] = mask.key], content)]
    PROVE  value \in [MasksOf(n) -> Word]
<1>1. /\ Current(S) = calls[S][n]
      /\ Current(S).features \in Seq([DOMAIN Current(S).keys -> Word])
  BY Zenon, CurrentIs, TwoParties
<1>2. Len(Current(S).features) = Features(n)
  BY <1>1 DEF Features
<1>3. Current(S).features[k] \in [DOMAIN Current(S).keys -> Word]
  BY <1>1, <1>2
<1>4. ASSUME NEW mask \in MasksOf(n)
      PROVE  value[mask] \in Word
  <2>1. mask.key \in Range(Current(S).keys)
    BY <1>1 DEF MasksOf, Mask
  <2>2. PICK i \in DOMAIN Current(S).keys :
            i = CHOOSE j \in DOMAIN Current(S).keys : Current(S).keys[j] = mask.key
    <3>1. \E j \in DOMAIN Current(S).keys : Current(S).keys[j] = mask.key
      BY <2>1 DEF Range
    <3> QED
      BY <3>1
  <2>3. Current(S).features[k][i] \in Word
    BY <1>3, <2>2
  <2>4. PICK a \in Int, b \in Int : a = Current(S).features[k][i] /\ b = content
    BY <2>3, WordType
  <2>5. value[mask] = (a - b) % Modulus
    BY <2>2, <2>4 DEF Hidden
  <2>6. a - b \in Int
    OBVIOUS
  <2> QED
    BY <2>5, <2>6, RemainderType
<1> QED
  BY <1>4

LEMMA SendFeatureHintKeeps ==
    ASSUME CircuitInv, SendFeatureHint
    PROVE  CircuitInv'
<1>1. /\ stage[S] = "feature_hint" /\ io[S] = "send"
      /\ NextFeature(S, "feature_hint", fid[S], "equal")
      /\ UNCHANGED <<params, calls, results, sent, remote, peer_size, common_prng, cuckoo_table,
                     hint_table, stash_size, opened, hint_features, output_shares>>
  BY DEF SendFeatureHint, At, S, values, tables
<1>2. /\ stage[S] \in InCall \ Sizes /\ stage[S] \notin TwoWay /\ stage[S] \in Placed
      /\ stage[S] \in Hinted /\ stage[S] \in InCall /\ stage[S] \notin Sizes
  BY <1>1, SomeStages
<1>3. PICK n : n = Number(S) /\ n = Number(S)'
  BY Zenon, <1>1 DEF Number
<1>4. /\ n \in DOMAIN calls[S] /\ n \in DOMAIN calls[R] /\ n \in Nat \ {0}
      /\ n \notin DOMAIN results[S] /\ fid[S] \in 1..Features(n)
  BY Zenon, <1>1, <1>2, <1>3, InMidCall, TwoParties
<1>5. PICK k : k = fid[S]
  OBVIOUS
<1>6. PICK s \in {"feature_hint", "equal"}, f \in Nat \ {0} :
          /\ EnterAt(S, s, f)
          /\ s = "feature_hint" => f = k + 1 /\ f \in 1..Features(n)
          /\ s = "equal" => f = 1 /\ Features(n) = k
          /\ Previous(S, S, n, stage[S], fid[S]) = Place(n, "ot", 1)
          /\ Previous(S, S, n, s, f) = Place(n, "ot", 1)
          /\ Previous(R, S, n, s, f) = Place(n, stage[S], fid[S])
  <2>1. /\ stage[S] = "feature_hint" /\ k = fid[S]
        /\ NextFeature(S, "feature_hint", fid[S], "equal")
    BY <1>1, <1>5
  <2>2. n = Number(S) /\ S \in Party
    BY <1>3, TwoParties
  <2> QED
    BY <2>1, <2>2, AfterHints
<1>7. /\ s \in InCall \ Sizes /\ s \in Stages /\ s \in Placed /\ s \in Hinted
      /\ s \in Opened /\ s # "hint_hash" /\ s # "multiplexer"
  BY HintStages
<1>8. /\ DrawsIn(S, s) = 2 /\ DrawsIn(S, stage[S]) = 2
  BY <1>1, TwoParties DEF DrawsIn, Sizes, Hinted, Compared
<1>9. stash_size[S] = 0 /\ hint_table \in HintsOf(n) /\ Len(contents) = k - 1
  BY <1>1, <1>2, <1>3, <1>5 DEF CircuitInv, SenderLocals
<1>10. PICK content, width, value :
          /\ content \in Randoms /\ contents' = Append(contents, content)
          /\ width = Words(HintBins(S)) /\ Post(S, width, value)
          /\ value \in [MasksOf(n) -> Word]
  <2>1. PICK content \in Randoms :
            /\ contents' = Append(contents, content)
            /\ Post(S, Words(HintBins(S)),
                    [mask \in DOMAIN hint_table |->
                       Hidden(Current(S).features[fid[S]][
                                CHOOSE i \in DOMAIN Current(S).keys :
                                    Current(S).keys[i] = mask.key], content)])
    BY Zenon DEF SendFeatureHint, S
  <2>2. DOMAIN hint_table = MasksOf(n)
    BY <1>9 DEF HintsOf
  <2>3. PICK value : value = [mask \in MasksOf(n) |->
                       Hidden(Current(S).features[k][
                                CHOOSE i \in DOMAIN Current(S).keys :
                                    Current(S).keys[i] = mask.key], content)]
    BY Zenon
  <2>4. value \in [MasksOf(n) -> Word]
    <3>1. k \in 1..Features(n)
      BY <1>4, <1>5
    <3> QED
      BY ZenonT(60), <1>2, <1>3, <2>3, <3>1, HiddenType
  <2>5. Post(S, Words(HintBins(S)), value)
    BY <1>5, <2>1, <2>2, <2>3
  <2> QED
    BY <2>1, <2>4, <2>5
<1>11. Others(S)
  <2>1. Peer(S) \in Party \ {S} /\ Peer(S) = R
    BY TwoParties
  <2> QED
    BY <1>1, <1>6, <1>7, <2>1, Entered, TwoParties DEF Others
<1>12. /\ n = Number(S) /\ UNCHANGED <<calls, results, peer_size, common_prng>>
       /\ DrawsIn(S, s) = DrawsIn(S, stage[S]) /\ output_shares'[S] = <<>>
       /\ ThroughStash(n)
       /\ IF s \in {"feature_hint", "multiplexer"} THEN f \in 1..Features(n) ELSE f = 1
  BY <1>1, <1>2, <1>3, <1>6, <1>7, <1>8, NoColumns, Through, TwoParties
<1>13. /\ Alone(S) /\ Control(S)' /\ Knows(S)' /\ Ended'
       /\ \A d \in Party : Last(d, S)' = Previous(d, S, n, s, f)
  BY <1>2, <1>6, <1>7, <1>11, <1>12, StepsWithoutDraw, TwoParties
<1>14. PICK m : m = [is |-> stage[S], fid |-> fid[S], width |-> width, value |-> value]
  BY Zenon
<1>15. Says(R, n, m)'
  <2>1. HintBins(S) = HintBinsOf(n)
    BY Zenon, <1>2, <1>3, BinsAgree, TwoParties
  <2>2. /\ m.is = "feature_hint" /\ m.fid \in 1..Features(n) /\ m.width = Words(HintBinsOf(n))
        /\ m.value \in [MasksOf(n) -> Word]
    BY <1>1, <1>4, <1>10, <1>14, <2>1
  <2>3. ThroughHint(n)
    BY <1>2, <1>3, <1>4 DEF ThroughHint
  <2>4. Says(R, n, m)
    <3>1. /\ "feature_hint" \in To(R) /\ "feature_hint" \notin InInit
          /\ "feature_hint" \notin Sizes /\ "feature_hint" \notin Compared
          /\ "feature_hint" \in Placed /\ "feature_hint" \in Hinted
          /\ \A j \in DOMAIN Checked : "feature_hint" # Checked[j]
      BY SomeStages, HintStages
    <3> QED
      BY <1>4, <1>12, <2>2, <2>3, <3>1, TwoParties DEF Says
  <2> QED
    BY <1>13, <2>4, SaysLasts, TwoParties
<1>16. /\ \A r \in Party : InOrder(r)'
       /\ DOMAIN chan' = Party /\ \A r \in Party : chan'[r] \in Seq(Range(chan'[r]))
  <2>1. /\ Post(S, width, value) /\ R = Peer(S) /\ n = Number(S) /\ S \in Party
        /\ stage[S] \in InCall \ Sizes /\ stage[S] \notin TwoWay
        /\ Last(S, S)' = Previous(S, S, n, stage[S], fid[S])
        /\ Last(R, S)' = Place(n, stage[S], fid[S])
    BY <1>1, <1>2, <1>3, <1>6, <1>10, <1>13, TwoParties
  <2> QED
    BY <1>13, <1>14, <1>15, <2>1, SendsOn
<1>17. contents \in Seq(Randoms) /\ contents' \in Seq(Randoms) /\ Len(contents') = k
  <2>1. contents \in Seq(Randoms)
    BY DEF CircuitInv, TypeOK
  <2>2. Len(contents') = Len(contents) + 1
    BY <1>10, <2>1
  <2>3. k \in Int
    BY <1>5, TwoParties DEF CircuitInv, TypeOK
  <2> QED
    BY <1>9, <1>10, <2>1, <2>2, <2>3
<1>18. TypeOK'
  <2>1. LocalsType'
    BY <1>1, <1>17, TypeParts DEF LocalsType, CircuitInv, Masks, Prng, Word
  <2> QED
    BY Zenon, <1>1, <1>6, <1>7, <2>1, EnteredType, TypeAfter, TwoParties DEF CircuitInv, TypeOK
<1>19. AreSequences'
  BY <1>1, <1>16, SequencesStay DEF CircuitInv, AreSequences
<1>20. SenderLocals'
  <2>1. stage'[S] = s /\ fid'[S] = f /\ ~HasWritten(S)'
    BY <1>6, <1>7, Entered, TwoParties
  <2>2. HintsOf(n)' = HintsOf(n) /\ Features(n)' = Features(n)
    BY <1>4, <1>13, ComesTo, TwoParties
  <2>3. /\ s \in Compared => Len(contents') = Features(n)
        /\ s = "feature_hint" => Len(contents') = f - 1
        /\ s # "hint_stash"
    <3>1. k \in Nat
      BY <1>5, TwoParties DEF CircuitInv, TypeOK
    <3> QED
      BY <1>6, <1>17, <3>1, HintStages
  <2> QED
    BY <1>1, <1>3, <1>7, <1>9, <2>1, <2>2, <2>3 DEF SenderLocals
<1> QED
  BY <1>13, <1>16, <1>18, <1>19, <1>20, Together, TwoParties

LEMMA RecvHintKeeps ==
    ASSUME CircuitInv, RecvHint
    PROVE  CircuitInv'
<1>1. /\ stage[R] = "hint" /\ io[R] = "recv" /\ Take(R, Words(HintBins(R))) /\ Draw(R)
      /\ EnterAt(R, IF HasFeatures(R) THEN "feature_hint" ELSE "equal", 1)
      /\ UNCHANGED <<params, calls, results, sent, remote, peer_size, cuckoo_table, hint_table,
                     stash_size, contents, hint_features, output_shares>>
  BY DEF RecvHint, At, Enter, R, values, tables
<1>2. /\ stage[R] \in InCall \ Sizes /\ stage[R] \notin TwoWay /\ stage[R] \in Placed
      /\ stage[R] \in Hinted /\ stage[R] \notin Opened /\ stage[R] \in InCall
      /\ stage[R] \notin Sizes
  BY <1>1, SomeStages
<1>3. PICK n : n = Number(R) /\ n = Number(R)'
  BY Zenon, <1>1 DEF Number
<1>4. /\ n \in DOMAIN calls[S] /\ n \in DOMAIN calls[R] /\ n \in Nat \ {0} /\ fid[R] = 1
  BY Zenon, <1>1, <1>2, <1>3, InMidCall, TwoParties
<1>5. PICK s \in {"feature_hint", "equal"}, f \in Nat \ {0} :
          /\ EnterAt(R, s, f)
          /\ s = "feature_hint" => f = 1 /\ f \in 1..Features(n)
          /\ s = "equal" => f = 1 /\ Features(n) = 0
          /\ Previous(S, R, n, stage[R], fid[R]) = Place(n, "ot", 1)
          /\ Previous(S, R, n, s, f) = Place(n, "ot", 1)
          /\ Previous(R, R, n, s, f) = Place(n, stage[R], fid[R])
  <2>1. PICK k \in Nat : k = 0 /\ k + 1 = 1
    OBVIOUS
  <2>2. \E s \in {"feature_hint", "equal"}, f \in Nat \ {0} :
           /\ EnterAt(R, s, f)
           /\ s = "feature_hint" => f = k + 1 /\ f \in 1..Features(n)
           /\ s = "equal" => f = 1 /\ Features(n) = k
           /\ Previous(S, R, n, stage[R], fid[R]) = Place(n, "ot", 1)
           /\ Previous(S, R, n, s, f) = Place(n, "ot", 1)
           /\ Previous(R, R, n, s, f) = Place(n, stage[R], fid[R])
    <3>1. /\ stage[R] = "hint" /\ k = 0
          /\ EnterAt(R, IF HasFeatures(R) THEN "feature_hint" ELSE "equal", 1)
      BY <1>1, <2>1
    <3>2. n = Number(R) /\ R \in Party
      BY <1>3, TwoParties
    <3> QED
      BY <3>1, <3>2, AfterHints
  <2> QED
    BY <2>1, <2>2
<1>6. /\ s \in InCall \ Sizes /\ s \in Stages /\ s \in Placed /\ s \in Hinted
      /\ s \in Opened /\ s # "hint_hash" /\ s # "multiplexer" /\ s \in InCall /\ s \notin Sizes
  BY HintStages
<1>7. DrawsIn(R, s) = DrawsIn(R, stage[R]) + 1
  BY <1>1, TwoParties DEF DrawsIn, Sizes, Opened, Compared
<1>8. /\ common_prng' \in [Party -> Prng]
      /\ common_prng'[R] = [seed |-> common_prng[R].seed, draws |-> common_prng[R].draws + 1]
      /\ \A q \in Party \ {R} : common_prng'[q] = common_prng[q]
  BY <1>1, DrawType, TwoParties DEF CircuitInv
<1>9. Others(R)
  <2>1. Peer(R) \in Party \ {R} /\ Peer(R) = S
    BY TwoParties
  <2> QED
    BY <1>1, <1>5, <1>6, <1>8, <2>1, Entered, TwoParties DEF Others
<1>10. /\ Alone(R) /\ Control(R)' /\ Knows(R)' /\ Ended'
       /\ \A d \in Party : Last(d, R)' = Previous(d, R, n, s, f)
  <2>1. /\ calls'[R] = calls[R] /\ results'[R] = results[R] /\ peer_size'[R] = peer_size[R]
        /\ output_shares'[R] = <<>> /\ 1 \in Nat
    BY <1>1, NoColumns, TwoParties
  <2>2. /\ ThroughHint(Number(R)) /\ R # S
        /\ IF s \in {"feature_hint", "multiplexer"} THEN f \in 1..Features(Number(R)) ELSE f = 1
    BY <1>2, <1>3, <1>5, <1>6, Through, TwoParties
  <2>3. /\ Alone(R) /\ Control(R)' /\ Knows(R)' /\ Ended'
        /\ \A d \in Party : Last(d, R)' = Previous(d, R, Number(R), s, f)
    BY <1>2, <1>5, <1>6, <1>7, <1>8, <1>9, <2>1, <2>2, StepsInCall, TwoParties
  <2> QED
    BY <1>3, <2>3
<1>11. /\ \A r \in Party : InOrder(r)'
       /\ DOMAIN chan' = Party /\ \A r \in Party : chan'[r] \in Seq(Range(chan'[r]))
  <2>1. PICK width : width = Words(HintBins(R))
    OBVIOUS
  <2>2. /\ Take(R, width) /\ S = Peer(R) /\ n = Number(R) /\ R \in Party /\ io[R] = "recv"
        /\ stage[R] \in InCall \ Sizes /\ stage[R] \notin TwoWay
        /\ Last(S, R)' = Previous(S, R, n, stage[R], fid[R])
        /\ Last(R, R)' = Place(n, stage[R], fid[R])
    BY <1>1, <1>2, <1>3, <1>5, <1>10, <2>1, TwoParties
  <2> QED
    BY <1>10, <2>2, ReadsOn
<1>12. stash_size[R] = 0 /\ TableOf(n) /\ opened = {} /\ hint_features = <<>>
  BY <1>2, <1>3 DEF CircuitInv, ReceiverLocals
<1>13. PICK hint : hint = Head(chan[R]).value /\ hint.entries \in HintsOf(n)
  <2>1. Says(R, n, Head(chan[R])) /\ Head(chan[R]).is = "hint"
    BY Zenon, <1>1, <1>3, Found, TwoParties
  <2> QED
    BY <2>1 DEF Says
<1>14. /\ opened' \subseteq (DOMAIN cuckoo_table) \X (Nat \ {0})
       /\ \A o \in opened' : /\ cuckoo_table[o[1]].mask \in MasksOf(n)
                             /\ hint.entries[cuckoo_table[o[1]].mask] = o[2]
  <2>1. PICK num \in Nat : num = params[R].num_of_fun_hint
    BY ParamsType, TwoParties DEF CircuitInv
  <2>2. opened' = {o \in (DOMAIN cuckoo_table) \X (1..num) :
                      /\ hint.seed = common_prng'[R]
                      /\ cuckoo_table[o[1]].mask \in DOMAIN hint.entries
                      /\ hint.entries[cuckoo_table[o[1]].mask] = o[2]}
    BY <1>13, <2>1 DEF RecvHint, R
  <2>3. DOMAIN hint.entries = MasksOf(n)
    BY <1>13 DEF HintsOf
  <2>4. 1..num \subseteq Nat \ {0}
    OBVIOUS
  <2> QED
    BY <2>2, <2>3, <2>4
<1>15. \A o1, o2 \in opened' : o1[1] = o2[1] => o1 = o2
  <2>1. ASSUME NEW o1 \in opened', NEW o2 \in opened', o1[1] = o2[1]
        PROVE  o1 = o2
    <3>1. o1[2] = o2[2]
      BY <1>14, <2>1
    <3>2. o1 = <<o1[1], o1[2]>> /\ o2 = <<o2[1], o2[2]>>
      BY <1>14
    <3> QED
      BY <2>1, <3>1, <3>2
  <2> QED
    BY <2>1
<1>16. TypeOK'
  <2>1. LocalsType'
    BY <1>1, <1>12, <1>14, <1>15, TypeParts DEF LocalsType, CircuitInv, Masks, Prng, Word
  <2> QED
    BY Zenon, <1>1, <1>5, <1>6, <1>8, <2>1, EnteredType, TypeAfter, TwoParties DEF CircuitInv, TypeOK
<1>17. AreSequences'
  BY <1>1, <1>11, SequencesStay DEF CircuitInv, AreSequences
<1>18. ReceiverLocals'
  <2>1. stage'[R] = s /\ fid'[R] = f /\ ~HasRead(R)'
    BY <1>5, <1>6, Entered, TwoParties
  <2>2. /\ MasksOf(n)' = MasksOf(n) /\ Features(n)' = Features(n) /\ TableOf(n)'
    <3>1. MasksOf(n)' = MasksOf(n) /\ Features(n)' = Features(n)
      BY <1>4, <1>10, ComesTo, TwoParties
    <3>2. TableOf(n)'
      BY <1>1, <1>4, <1>10, <1>12, TableStays, TwoParties
    <3> QED
      BY <3>1, <3>2
  <2>3. /\ s \in Compared => s = "equal" /\ Features(n) = 0
        /\ s = "feature_hint" => f = 1
        /\ s # "stash" /\ Len(hint_features') = 0
    BY SMTT(60), <1>1, <1>5, <1>12, HintStages
  <2> QED
    BY <1>1, <1>3, <1>6, <1>12, <1>14, <2>1, <2>2, <2>3 DEF ReceiverLocals
<1> QED
  BY <1>10, <1>11, <1>16, <1>17, <1>18, Together, TwoParties

LEMMA RecvFeatureHintKeeps ==
    ASSUME CircuitInv, RecvFeatureHint
    PROVE  CircuitInv'
<1>1. /\ stage[R] = "feature_hint" /\ io[R] = "recv" /\ Take(R, Words(HintBins(R)))
      /\ NextFeature(R, "feature_hint", fid[R], "equal")
      /\ UNCHANGED <<params, calls, results, sent, remote, peer_size, common_prng, cuckoo_table,
                     hint_table, stash_size, contents, opened, output_shares>>
  BY DEF RecvFeatureHint, At, R, values, tables
<1>2. /\ stage[R] \in InCall \ Sizes /\ stage[R] \notin TwoWay /\ stage[R] \in Placed
      /\ stage[R] \in Hinted /\ stage[R] \in InCall /\ stage[R] \notin Sizes
  BY <1>1, SomeStages
<1>3. PICK n : n = Number(R) /\ n = Number(R)'
  BY Zenon, <1>1 DEF Number
<1>4. /\ n \in DOMAIN calls[S] /\ n \in DOMAIN calls[R] /\ n \in Nat \ {0}
      /\ fid[R] \in 1..Features(n)
  BY Zenon, <1>1, <1>2, <1>3, InMidCall, TwoParties
<1>5. PICK k : k = fid[R]
  OBVIOUS
<1>6. PICK s \in {"feature_hint", "equal"}, f \in Nat \ {0} :
          /\ EnterAt(R, s, f)
          /\ s = "feature_hint" => f = k + 1 /\ f \in 1..Features(n)
          /\ s = "equal" => f = 1 /\ Features(n) = k
          /\ Previous(S, R, n, stage[R], fid[R]) = Place(n, "ot", 1)
          /\ Previous(S, R, n, s, f) = Place(n, "ot", 1)
          /\ Previous(R, R, n, s, f) = Place(n, stage[R], fid[R])
  <2>1. /\ stage[R] = "feature_hint" /\ k = fid[R]
        /\ NextFeature(R, "feature_hint", fid[R], "equal")
    BY <1>1, <1>5
  <2>2. n = Number(R) /\ R \in Party
    BY <1>3, TwoParties
  <2> QED
    BY <2>1, <2>2, AfterHints
<1>7. /\ s \in InCall \ Sizes /\ s \in Stages /\ s \in Placed /\ s \in Hinted
      /\ s \in Opened /\ s # "hint_hash" /\ s # "multiplexer"
  BY HintStages
<1>8. /\ DrawsIn(R, s) = 2 /\ DrawsIn(R, stage[R]) = 2
  BY <1>1, TwoParties DEF DrawsIn, Sizes, Opened, Compared
<1>9. Others(R)
  <2>1. Peer(R) \in Party \ {R} /\ Peer(R) = S
    BY TwoParties
  <2> QED
    BY <1>1, <1>6, <1>7, <2>1, Entered, TwoParties DEF Others
<1>10. /\ n = Number(R) /\ UNCHANGED <<calls, results, peer_size, common_prng>>
       /\ DrawsIn(R, s) = DrawsIn(R, stage[R]) /\ output_shares'[R] = <<>>
       /\ ThroughHint(n) /\ R # S
       /\ IF s \in {"feature_hint", "multiplexer"} THEN f \in 1..Features(n) ELSE f = 1
  BY <1>1, <1>2, <1>3, <1>6, <1>7, <1>8, NoColumns, Through, TwoParties
<1>11. /\ Alone(R) /\ Control(R)' /\ Knows(R)' /\ Ended'
       /\ \A d \in Party : Last(d, R)' = Previous(d, R, n, s, f)
  BY <1>2, <1>6, <1>7, <1>9, <1>10, StepsWithoutDraw, TwoParties
<1>12. /\ \A r \in Party : InOrder(r)'
       /\ DOMAIN chan' = Party /\ \A r \in Party : chan'[r] \in Seq(Range(chan'[r]))
  <2>1. PICK width : width = Words(HintBins(R))
    OBVIOUS
  <2>2. /\ Take(R, width) /\ S = Peer(R) /\ n = Number(R) /\ R \in Party /\ io[R] = "recv"
        /\ stage[R] \in InCall \ Sizes /\ stage[R] \notin TwoWay
        /\ Last(S, R)' = Previous(S, R, n, stage[R], fid[R])
        /\ Last(R, R)' = Place(n, stage[R], fid[R])
    BY <1>1, <1>2, <1>3, <1>6, <1>11, <2>1, TwoParties
  <2> QED
    BY <1>11, <2>2, ReadsOn
<1>13. /\ stash_size[R] = 0 /\ TableOf(n) /\ Len(hint_features) = k - 1
       /\ \A o \in opened : cuckoo_table[o[1]].mask \in MasksOf(n)
  BY <1>1, <1>2, <1>3, <1>5 DEF CircuitInv, ReceiverLocals
<1>14. PICK column : /\ hint_features' = Append(hint_features, column)
                     /\ column \in [opened -> Word]
  <2>1. Says(R, n, Head(chan[R])) /\ Head(chan[R]).is = "feature_hint"
    BY Zenon, <1>1, <1>3, Found, TwoParties
  <2>2. PICK hint : hint = Head(chan[R]).value /\ hint \in [MasksOf(n) -> Word]
    BY <2>1 DEF Says
  <2>3. hint_features' = Append(hint_features, [o \in opened |-> hint[cuckoo_table[o[1]].mask]])
    BY <2>2 DEF RecvFeatureHint, R
  <2>4. [o \in opened |-> hint[cuckoo_table[o[1]].mask]] \in [opened -> Word]
    BY <1>13, <2>2
  <2> QED
    BY <2>3, <2>4
<1>15. /\ Len(hint_features') = k /\ hint_features' \in Seq(Range(hint_features'))
       /\ \A j \in DOMAIN hint_features' : hint_features'[j] \in [opened -> Word]
  <2>1. hint_features \in Seq([opened -> Word])
    <3>1. \A j \in DOMAIN hint_features : hint_features[j] \in [opened -> Word]
      BY DEF CircuitInv, TypeOK
    <3>2. hint_features \in Seq(Range(hint_features))
      BY DEF CircuitInv, AreSequences
    <3>3. PICK len \in Nat : len = Len(hint_features)
      BY <3>2
    <3>4. hint_features \in [1..len -> [opened -> Word]]
      BY <3>1, <3>2, <3>3
    <3> QED
      BY <3>4
  <2>2. /\ hint_features' \in Seq([opened -> Word]) /\ Len(hint_features') = Len(hint_features) + 1
    BY <1>14, <2>1
  <2>3. k \in Int
    BY <1>5, TwoParties DEF CircuitInv, TypeOK
  <2>4. hint_features' \in Seq(Range(hint_features'))
    BY <2>2, OwnRange
  <2>5. \A j \in DOMAIN hint_features' : hint_features'[j] \in [opened -> Word]
    BY <2>2
  <2> QED
    BY <1>13, <2>2, <2>3, <2>4, <2>5
<1>16. TypeOK'
  <2>1. LocalsType'
    BY <1>1, <1>15, TypeParts DEF LocalsType, CircuitInv, Masks, Prng, Word
  <2> QED
    BY Zenon, <1>1, <1>6, <1>7, <2>1, EnteredType, TypeAfter, TwoParties DEF CircuitInv, TypeOK
<1>17. AreSequences'
  BY <1>1, <1>12, <1>15 DEF CircuitInv, AreSequences
<1>18. ReceiverLocals'
  <2>1. stage'[R] = s /\ fid'[R] = f /\ ~HasRead(R)'
    BY <1>6, <1>7, Entered, TwoParties
  <2>2. /\ MasksOf(n)' = MasksOf(n) /\ Features(n)' = Features(n) /\ TableOf(n)'
    <3>1. MasksOf(n)' = MasksOf(n) /\ Features(n)' = Features(n)
      BY <1>4, <1>11, ComesTo, TwoParties
    <3>2. TableOf(n)'
      BY <1>1, <1>4, <1>11, <1>13, TableStays, TwoParties
    <3> QED
      BY <3>1, <3>2
  <2>3. /\ s \in Compared => Len(hint_features') = Features(n)
        /\ s = "feature_hint" => Len(hint_features') = f - 1
        /\ s # "stash"
    <3>1. k \in Nat
      BY <1>5, TwoParties DEF CircuitInv, TypeOK
    <3> QED
      BY <1>6, <1>15, <3>1, HintStages
  <2> QED
    BY <1>1, <1>3, <1>7, <1>13, <2>1, <2>2, <2>3 DEF ReceiverLocals
<1> QED
  BY <1>11, <1>12, <1>16, <1>17, <1>18, Together, TwoParties

-----------------------------------------------------------------------------
(* Sizes.                                                                  *)

SizesTo(d) ==
    IF d = S THEN {"receiver_data", "receiver_features"} ELSE {"sender_data", "sender_features"}

LEMMA SizeStages ==
    /\ Sizes = {"receiver_data", "receiver_features", "sender_data", "sender_features"}
    /\ \A s \in Sizes :
          /\ s \in InCall /\ s \in Stages /\ s \notin TwoWay /\ s \notin InInit
          /\ s \notin Compared /\ s \notin Rest /\ s \notin Placed /\ s \notin Hinted
          /\ s \notin {"stash"} \cup Placed /\ s \notin {"hint_stash"} \cup Hinted
          /\ \A k \in DOMAIN Checked : s # Checked[k]
          /\ AfterSize(s) \in InCall /\ AfterSize(s) \in Stages /\ AfterSize(s) \notin TwoWay
          /\ AfterSize(s) \notin Placed /\ AfterSize(s) \notin Hinted
          /\ AfterSize(s) \notin {"stash"} \cup Placed
          /\ AfterSize(s) \notin {"hint_stash"} \cup Hinted
          /\ AfterSize(s) \notin InInit /\ AfterSize(s) \notin Rest
          /\ AfterSize(s) \notin {"feature_hint", "multiplexer", "hint_hash", "equal"}
          /\ AfterSize(s) \in Sizes \cup {"hash"}
    /\ 1 \in Nat \ {0}
<1>1. Sizes = {"receiver_data", "receiver_features", "sender_data", "sender_features"}
  BY DEF Sizes
<1>2. /\ AfterSize("receiver_data") = "receiver_features"
      /\ AfterSize("receiver_features") = "sender_data"
      /\ AfterSize("sender_data") = "sender_features"
      /\ AfterSize("sender_features") = "hash"
  BY DEF AfterSize
<1>3. \A s \in Sizes \cup {"hash"} :
          /\ s \in InCall /\ s \in Stages /\ s \notin TwoWay /\ s \notin InInit
          /\ s \notin Compared /\ s \notin Rest /\ s \notin Placed /\ s \notin Hinted
          /\ s \notin {"stash"} \cup Placed /\ s \notin {"hint_stash"} \cup Hinted
          /\ s \notin {"feature_hint", "multiplexer", "hint_hash", "equal"}
          /\ \A k \in DOMAIN Checked : s # Checked[k]
  BY <1>1, InitStages, CheckedIs, StagesAre DEF InCall, TwoWay, Placed, Hinted, Compared, Rest
<1>4. \A s \in Sizes : AfterSize(s) \in Sizes \cup {"hash"}
  BY <1>1, <1>2
<1> QED
  BY <1>1, <1>3, <1>4

\* A size is the next message to the one it is for, and none to the other.
LEMMA SizesFollow ==
    ASSUME NEW d \in Party, NEW p, NEW n, NEW s \in SizesTo(d)
    PROVE  /\ Previous(d, p, n, AfterSize(s), 1) = Place(n, s, 1)
           /\ Previous(Peer(d), p, n, AfterSize(s), 1) = Previous(Peer(d), p, n, s, 1)
<1>1. CASE d = S
  <2>1. s = "receiver_data" \/ s = "receiver_features"
    BY <1>1 DEF SizesTo
  <2>2. CASE s = "receiver_data"
    <3>1. AfterSize(s) = "receiver_features"
      BY <2>2 DEF AfterSize
    <3> QED
      BY <1>1, <2>2, <3>1, PreviousIs, TwoParties
  <2>3. CASE s = "receiver_features"
    <3>1. AfterSize(s) = "sender_data"
      BY <2>3 DEF AfterSize
    <3> QED
      BY <1>1, <2>3, <3>1, PreviousIs, TwoParties
  <2> QED
    BY <2>1, <2>2, <2>3
<1>2. CASE d = R
  <2>1. s = "sender_data" \/ s = "sender_features"
    BY <1>2, TwoParties DEF SizesTo
  <2>2. CASE s = "sender_data"
    <3>1. AfterSize(s) = "sender_features"
      BY <2>2 DEF AfterSize
    <3> QED
      BY <1>2, <2>2, <3>1, PreviousIs, TwoParties
  <2>3. CASE s = "sender_features"
    <3>1. AfterSize(s) = "hash"
      BY <2>3 DEF AfterSize
    <3> QED
      BY <1>2, <2>3, <3>1, PreviousIs, TwoParties
  <2> QED
    BY <2>1, <2>2, <2>3
<1> QED
  BY <1>1, <1>2, TwoParties

\* Who reads and who writes a size.
LEMMA SizesFor ==
    ASSUME CircuitInv, NEW p \in Party, stage[p] \in Sizes
    PROVE  /\ io[p] = "recv" => stage[p] \in SizesTo(p)
           /\ io[p] = "send" => stage[p] \in SizesTo(Peer(p))
           /\ fid[p] = 1 /\ Number(p) \in DOMAIN calls[p] /\ Number(p) \in Nat
           /\ Number(p) > 0 /\ Number(p) \in 0..MaxCalls /\ Number(p) = Len(results[p]) + 1
           /\ ~HasRead(p) /\ ~HasWritten(p)
           /\ \A d \in Party : Last(d, p) = Previous(d, p, Number(p), stage[p], 1)
<1>1. stage[p] \in InCall /\ stage[p] \notin TwoWay /\ stage[p] \notin Rest
      /\ stage[p] \notin Range(Checked)
  BY SizeStages DEF Range
<1>2. io[p] = Starts(stage[p], p) /\ ~HasRead(p) /\ ~HasWritten(p)
      /\ \A d \in Party : Last(d, p) = Previous(d, p, Number(p), stage[p], fid[p])
  BY <1>1, AtStart
<1>3. fid[p] = 1
  <2>1. stage[p] \notin {"feature_hint", "multiplexer"}
    BY SizeStages
  <2> QED
    BY Zenon, <2>1 DEF CircuitInv, Control
<1>4. /\ Number(p) \in Nat /\ Number(p) <= MaxCalls /\ Number(p) \in DOMAIN calls[p]
      /\ Number(p) = Len(results[p]) + 1 /\ DOMAIN calls[p] = 1..Number(p)
  BY <1>1, CallNumber
<1>5. /\ io[p] = "recv" => stage[p] \in SizesTo(p)
      /\ io[p] = "send" => stage[p] \in SizesTo(Peer(p))
  <2>1. CASE p = S
    BY <1>1, <1>2, <2>1, SizeStages, TwoParties DEF Starts, First, Peer, SizesTo, S, R
  <2>2. CASE p = R
    BY <1>1, <1>2, <2>2, SizeStages, TwoParties DEF Starts, First, Peer, SizesTo, S, R
  <2> QED
    BY <2>1, <2>2, TwoParties
<1> QED
  BY <1>2, <1>3, <1>4, <1>5, CircuitBoundsAssumption

\* What a party knows of the other while the sizes are exchanged.
LEMMA SizesKnown ==
    ASSUME CircuitInv, NEW p \in Party, NEW q, q = Peer(p), NEW n, n = Number(p),
           NEW s, s = stage[p], s \in Sizes
    PROVE  /\ p = S => /\ s # "receiver_data" =>
                             n \in DOMAIN calls[q] /\ peer_size[p].data = Len(calls[q][n].keys)
                       /\ s \in {"sender_data", "sender_features"} =>
                             peer_size[p].features = Len(calls[q][n].features)
           /\ p = R /\ s = "sender_features" =>
                 n \in DOMAIN calls[q] /\ peer_size[p].data = Len(calls[q][n].keys)
<1>1. stage[p] \in InCall
  BY SizeStages
<1>2. Knows(p)
  BY DEF CircuitInv
<1>3. CASE p = S
  BY <1>1, <1>2, <1>3, SizeStages, TwoParties DEF Knows
<1>4. CASE p = R
  BY <1>1, <1>2, <1>4, SizeStages, TwoParties DEF Knows
<1> QED
  BY <1>3, <1>4, TwoParties

LEMMA SizeSteps ==
    ASSUME CircuitInv, NEW p \in Party, Others(p), NEW q, q = Peer(p), NEW n, n = Number(p),
           NEW s, s = stage[p], s \in Sizes, NEW t, t = AfterSize(s), EnterAt(p, t, 1),
           UNCHANGED <<calls, results, common_prng, output_shares>>,
           \/ s \in SizesTo(q) /\ peer_size'[p] = peer_size[p]
           \/ /\ s \in SizesTo(p) /\ n \in DOMAIN calls[q]
              /\ IF s \in {"receiver_data", "sender_data"}
                 THEN peer_size'[p].data = Len(calls[q][n].keys)
                 ELSE /\ peer_size'[p].data = peer_size[p].data
                      /\ peer_size'[p].features = Len(calls[q][n].features)
    PROVE  /\ Alone(p) /\ Control(p)' /\ Knows(p)' /\ Ended'
           /\ \A d \in Party : Last(d, p)' = Previous(d, p, n, t, 1)
<1>1. /\ s \in InCall /\ s \notin Placed /\ s \notin Hinted /\ s \notin InInit /\ s \notin Rest
      /\ t \in InCall /\ t \in Stages /\ t \notin TwoWay /\ t \notin Placed /\ t \notin Hinted
      /\ t \notin InInit /\ t \notin Rest
      /\ t \notin {"feature_hint", "multiplexer", "hint_hash", "equal"}
      /\ t \in Sizes \cup {"hash"} /\ 1 \in Nat \ {0}
  BY SizeStages
<1>2. /\ stage'[p] = t /\ io'[p] = Starts(t, p) /\ fid'[p] = 1
      /\ ~HasRead(p)' /\ ~HasWritten(p)'
  BY <1>1, Entered
<1>3. Alone(p)
  <2>1. \A j \in DOMAIN Checked : Reached(p, j)'
    BY <1>1, <1>2, OutOfInit
  <2> QED
    BY <1>1, <1>2, <2>1, MovesOn
<1>4. /\ n = Number(p)' /\ n \in Nat /\ n > 0 /\ n <= MaxCalls /\ n = Len(results[p]) + 1
      /\ n \in DOMAIN calls[p]
  <2>1. n \in Nat /\ n <= MaxCalls /\ n = Len(results[p]) + 1 /\ n \in DOMAIN calls[p]
    BY <1>1, CallNumber
  <2>2. n > 0
    BY SizesFor
  <2>3. n = Number(p)'
    BY DEF Number
  <2> QED
    BY <2>1, <2>2, <2>3
<1>5. Control(p)'
  <2>1. DrawsIn(p, s) = 0 /\ DrawsIn(p, t) = 0
    <3>1. \A r \in {"receiver_data", "receiver_features", "sender_data", "sender_features",
                    "hash"} : DrawsIn(p, r) = 0
      BY DEF DrawsIn, Sizes, Hinted, Opened, Compared
    <3> QED
      BY <1>1, <3>1, SizeStages
  <2>2. Draws(p)' = Draws(p)
    <3>1. Draws(p) = Drawn(p, n) + 0
      BY <1>1, <2>1 DEF Draws
    <3>2. DrawsIn(p, t)' = 0
      BY <2>1 DEF DrawsIn
    <3>3. Draws(p)' = Drawn(p, n)' + 0
      BY <1>1, <1>2, <1>4, <3>2 DEF Draws, InCall, Sizes
    <3>4. Drawn(p, n)' = Drawn(p, n)
      BY DEF Drawn, Failures
    <3> QED
      BY <3>1, <3>3, <3>4
  <2>3. common_prng'[p] = [seed |-> {1, 2}, draws |-> Draws(p)']
    <3>1. Control(p) /\ stage[p] \notin Range(Checked) \cup {"seed", "threw"}
      BY <1>1 DEF CircuitInv, InInit, Rest
    <3>2. common_prng[p] = [seed |-> {1, 2}, draws |-> Draws(p)]
      BY <3>1 DEF Control
    <3> QED
      BY <2>2, <3>2
  <2>4. output_shares'[p] = <<>>
    <3>1. stage[p] # "multiplexer"
      BY SizeStages
    <3> QED
      BY <3>1, NoColumns
  <2>5. /\ t \notin Range(Checked) \cup {"seed", "threw"} /\ t # "threw"
    BY <1>1 DEF InInit, Rest
  <2>6. /\ t \in InInit \cup {"threw"} => Number(p)' = 0
        /\ t \in InCall => Number(p)' > 0
        /\ t = "hint_hash" => p = S
        /\ Number(p)' <= MaxCalls
        /\ t \in InCall => Number(p)' = Len(results'[p]) + 1
        /\ t \notin InCall => Number(p)' = Len(results'[p])
    BY <1>1, <1>4, <2>5
  <2> QED
    BY <1>1, <1>2, <2>3, <2>4, <2>5, <2>6 DEF Control, Starts
<1>6. Knows(p)'
  <2>1. \A j \in DOMAIN Checked : params[p][Checked[j]] = params[Peer(p)][Checked[j]]
    <3>1. stage[p] \notin {Checked[j] : j \in DOMAIN Checked} /\ stage[p] # "threw"
      BY <1>1 DEF InInit, Range, Rest
    <3>2. \A j \in DOMAIN Checked : stage[p] \notin {Checked[i] : i \in 1..j}
      BY <3>1, CheckedIs
    <3> QED
      BY <3>1, <3>2 DEF CircuitInv, Knows
  <2>2. params' = params
    BY DEF Others
  <2>3. \A j \in DOMAIN Checked : t # Checked[j]
    BY <1>1 DEF InInit, Range
  <2>4. t # "threw" /\ t # "seed"
    BY <1>1 DEF Rest, InInit
  <2>5. CASE p = S
    <3>1. /\ t # "receiver_data" =>
                n \in DOMAIN calls[q] /\ peer_size'[p].data = Len(calls[q][n].keys)
          /\ t \notin {"receiver_data", "receiver_features"} =>
                peer_size'[p].features = Len(calls[q][n].features)
      BY <2>5, SizesKnown, SizeStages, TwoParties DEF SizesTo, AfterSize
    <3> QED
      BY <1>1, <1>2, <1>4, <2>1, <2>2, <2>3, <2>4, <2>5, <3>1, TwoParties DEF Knows
  <2>6. CASE p = R
    <3>1. t \notin {"receiver_data", "receiver_features", "sender_data"} =>
                /\ n \in DOMAIN calls[q] /\ peer_size'[p].data = Len(calls[q][n].keys)
                /\ t # "sender_features" =>
                      peer_size'[p].features = Len(calls[q][n].features)
      BY <2>6, SizesKnown, SizeStages, TwoParties DEF SizesTo, AfterSize
    <3> QED
      BY <1>1, <1>2, <1>4, <2>1, <2>2, <2>3, <2>4, <2>6, <3>1, TwoParties DEF Knows
  <2> QED
    BY <2>5, <2>6, TwoParties
<1>7. Ended'
  BY <1>3, ResultsStay
<1>8. \A d \in Party : Last(d, p)' = Previous(d, p, n, t, 1)
  BY <1>1, <1>3, EnteredLast
<1> QED
  BY <1>3, <1>5, <1>6, <1>7, <1>8

LEMMA SendSizeKeeps ==
    ASSUME CircuitInv, NEW p \in Party, SendSize(p)
    PROVE  CircuitInv'
<1>1. PICK q, n, s, t, width, value, m :
          /\ q = Peer(p) /\ n = Number(p) /\ s = stage[p] /\ t = AfterSize(s)
          /\ width = Words(1)
          /\ value = IF s \in {"receiver_data", "sender_data"} THEN Len(Current(p).keys)
                     ELSE Len(Current(p).features)
          /\ m = [is |-> s, fid |-> fid[p], width |-> width, value |-> value]
  BY Zenon
<1>2. /\ s \in Sizes /\ io[p] = "send" /\ EnterAt(p, t, 1) /\ Post(p, width, value)
      /\ UNCHANGED <<params, calls, results, sent, remote, peer_size, common_prng, locals>>
  BY <1>1 DEF SendSize, Enter, values
<1>3. UNCHANGED <<cuckoo_table, hint_table, stash_size, contents, opened, hint_features,
                  output_shares>>
  BY <1>2 DEF locals, tables
<1>4. /\ s \in InCall /\ t \in Stages /\ 1 \in Nat \ {0}
      /\ s \notin {"stash"} \cup Placed /\ s \notin {"hint_stash"} \cup Hinted
      /\ t \notin {"stash"} \cup Placed /\ t \notin {"hint_stash"} \cup Hinted
  BY <1>1, <1>2, SizeStages
<1>5. /\ q \in Party /\ q # p /\ Peer(q) = p /\ s \in SizesTo(q) /\ fid[p] = 1
      /\ n \in DOMAIN calls[p] /\ n \in Nat /\ n > 0 /\ ~HasWritten(p)
      /\ \A d \in Party : Last(d, p) = Previous(d, p, n, s, 1)
  BY <1>1, <1>2, SizesFor, TwoParties
<1>6. Others(p)
  <2>1. q \in Party \ {p}
    BY <1>5
  <2>2. stage'[q] = stage[q] /\ fid'[q] = fid[q] /\ io'[q] = io[q]
    BY <1>2, <1>4, <2>1, Entered
  <2> QED
    BY <1>1, <1>2, <1>3, <2>2 DEF Others
<1>7. /\ Alone(p) /\ Control(p)' /\ Knows(p)' /\ Ended'
      /\ \A d \in Party : Last(d, p)' = Previous(d, p, n, t, 1)
  <2>1. peer_size'[p] = peer_size[p] /\ UNCHANGED <<calls, results, common_prng, output_shares>>
    BY <1>2, <1>3
  <2> QED
    BY <1>1, <1>2, <1>5, <1>6, <2>1, SizeSteps
<1>8. Last(p, p)' = Last(p, p) /\ Last(q, p)' = Place(n, s, 1)
  BY <1>1, <1>5, <1>7, SizesFollow
<1>9. Says(q, n, m)'
  <2>1. m.is = s /\ m.fid = 1 /\ m.width = Words(1) /\ m.value = SizeIn(s, calls[p][n])
    BY <1>1, <1>5 DEF SizeIn, Current
  <2>2. /\ s \in To(q) /\ s \notin InInit /\ s \notin Placed \cup {"stash"} /\ s \notin Hinted
        /\ s \notin Compared /\ s \notin {"feature_hint", "multiplexer"} /\ s # "ot"
        /\ s # "hint_stash" /\ s # "hint" /\ s # "equal" /\ s \notin {"seed", "base_ot", "mpc"}
        /\ \A k \in DOMAIN Checked : s # Checked[k]
    <3>1. s \in To(q)
      BY <1>5 DEF To, SizesTo
    <3> QED
      BY <1>1, <1>2, <3>1, SizeStages
  <2>3. n \in DOMAIN calls[p] /\ n \in Nat \ {0}
    BY <1>5
  <2>4. Says(q, n, m)
    BY <1>2, <1>5, <2>1, <2>2, <2>3 DEF Says
  <2> QED
    BY <1>5, <1>7, <2>4, SaysLasts
<1>10. /\ \A r \in Party : InOrder(r)'
       /\ DOMAIN chan' = Party /\ \A r \in Party : chan'[r] \in Seq(Range(chan'[r]))
  <2>1. /\ stage[p] \in InInit \cup InCall /\ Last(q, p)' = Place(n, stage[p], fid[p])
        /\ m = [is |-> stage[p], fid |-> fid[p], width |-> width, value |-> value]
        /\ n = Number(p) /\ q = Peer(p)
    BY <1>1, <1>4, <1>5, <1>8
  <2> QED
    BY <1>2, <1>5, <1>7, <1>8, <1>9, <2>1, SendsOrder
<1>11. TypeOK'
  BY Zenon, <1>2, <1>4, EnteredType, LocalsTypeStays, TypeAfter DEF CircuitInv, TypeOK
<1>12. AreSequences'
  BY <1>2, <1>3, <1>10, SequencesStay DEF CircuitInv, AreSequences
<1>13. stage'[p] = t
  BY <1>2, <1>4, Entered
<1>14. p = S => SenderLocals'
  BY <1>1, <1>3, <1>4, <1>13, NoHints
<1>15. p = R => ReceiverLocals'
  BY <1>1, <1>3, <1>4, <1>13, NoTable
<1> QED
  BY <1>7, <1>10, <1>11, <1>12, <1>14, <1>15, Together

LEMMA RecvSizeKeeps ==
    ASSUME CircuitInv, NEW p \in Party, RecvSize(p)
    PROVE  CircuitInv'
<1>1. PICK q, n, s, t, width, size :
          /\ q = Peer(p) /\ n = Number(p) /\ s = stage[p] /\ t = AfterSize(s)
          /\ width = Words(1) /\ size = Head(chan[p]).value
  OBVIOUS
<1>2. /\ s \in Sizes /\ io[p] = "recv" /\ EnterAt(p, t, 1) /\ Take(p, width)
      /\ UNCHANGED <<params, calls, results, sent, remote, common_prng, locals>>
      /\ peer_size' = IF s \in {"receiver_data", "sender_data"}
                      THEN [peer_size EXCEPT ![p].data = size]
                      ELSE [peer_size EXCEPT ![p].features = size]
  BY <1>1 DEF RecvSize, Enter
<1>3. UNCHANGED <<cuckoo_table, hint_table, stash_size, contents, opened, hint_features,
                  output_shares>>
  BY <1>2 DEF locals, tables
<1>4. /\ s \in InCall /\ t \in Stages /\ 1 \in Nat \ {0}
      /\ s \notin {"stash"} \cup Placed /\ s \notin {"hint_stash"} \cup Hinted
      /\ t \notin {"stash"} \cup Placed /\ t \notin {"hint_stash"} \cup Hinted
  BY <1>1, <1>2, SizeStages
<1>5. /\ q \in Party /\ q # p /\ Peer(q) = p /\ s \in SizesTo(p) /\ fid[p] = 1
      /\ n \in DOMAIN calls[p] /\ n \in Nat /\ n > 0
      /\ \A d \in Party : Last(d, p) = Previous(d, p, n, s, 1)
  BY <1>1, <1>2, SizesFor, TwoParties
<1>6. n \in DOMAIN calls[q] /\ size = SizeIn(s, calls[q][n])
  <2>1. Says(p, n, Head(chan[p])) /\ Head(chan[p]).is = s
    BY <1>1, <1>2, Found
  <2>2. s \notin InInit
    BY <1>2, SizeStages
  <2> QED
    BY <1>1, <1>2, <2>1, <2>2 DEF Says
<1>7. /\ peer_size' \in [Party -> [data : Nat, features : Nat]]
      /\ peer_size'[q] = peer_size[q]
      /\ IF s \in {"receiver_data", "sender_data"}
         THEN peer_size'[p].data = Len(calls[q][n].keys)
         ELSE /\ peer_size'[p].data = peer_size[p].data
              /\ peer_size'[p].features = Len(calls[q][n].features)
  <2>1. calls[q][n] \in Calls[q]
    BY <1>5, <1>6, Numbers DEF CircuitInv
  <2>2. Len(calls[q][n].keys) \in Nat /\ Len(calls[q][n].features) \in Nat
    BY Zenon, <1>5, <2>1, CallIs
  <2>3. peer_size \in [Party -> [data : Nat, features : Nat]]
    BY DEF CircuitInv, TypeOK
  <2>4. CASE s \in {"receiver_data", "sender_data"}
    <3>1. size = Len(calls[q][n].keys)
      BY <1>6, <2>4 DEF SizeIn
    <3> QED
      BY Zenon, <1>2, <1>5, <2>2, <2>3, <2>4, <3>1
  <2>5. CASE s \notin {"receiver_data", "sender_data"}
    <3>1. size = Len(calls[q][n].features)
      BY <1>6, <2>5 DEF SizeIn
    <3> QED
      BY Zenon, <1>2, <1>5, <2>2, <2>3, <2>5, <3>1
  <2> QED
    BY <2>4, <2>5
<1>8. Others(p)
  <2>1. q \in Party \ {p}
    BY <1>5
  <2>2. stage'[q] = stage[q] /\ fid'[q] = fid[q] /\ io'[q] = io[q]
    BY <1>2, <1>4, <2>1, Entered
  <2> QED
    BY <1>1, <1>2, <1>3, <1>7, <2>2 DEF Others
<1>9. /\ Alone(p) /\ Control(p)' /\ Knows(p)' /\ Ended'
      /\ \A d \in Party : Last(d, p)' = Previous(d, p, n, t, 1)
  <2>1. UNCHANGED <<calls, results, common_prng, output_shares>>
    BY <1>2, <1>3
  <2> QED
    BY <1>1, <1>2, <1>5, <1>6, <1>7, <1>8, <2>1, SizeSteps
<1>10. Last(q, p)' = Last(q, p) /\ Last(p, p)' = Place(n, s, 1)
  BY <1>1, <1>5, <1>9, SizesFollow
<1>11. /\ \A r \in Party : InOrder(r)'
       /\ DOMAIN chan' = Party /\ \A r \in Party : chan'[r] \in Seq(Range(chan'[r]))
  <2>1. Last(Peer(p), p)' = Last(Peer(p), p)
        /\ Last(p, p)' = Place(Number(p), stage[p], fid[p])
    BY <1>1, <1>5, <1>10
  <2> QED
    BY <1>2, <1>9, <2>1, ReadsOrder
<1>12. TypeOK'
  BY Zenon, <1>2, <1>4, <1>7, EnteredType, LocalsTypeStays, TypeAfter DEF CircuitInv, TypeOK
<1>13. AreSequences'
  BY <1>2, <1>3, <1>11, SequencesStay DEF CircuitInv, AreSequences
<1>14. stage'[p] = t
  BY <1>2, <1>4, Entered
<1>15. p = S => SenderLocals'
  BY <1>1, <1>3, <1>4, <1>14, NoHints
<1>16. p = R => ReceiverLocals'
  BY <1>1, <1>3, <1>4, <1>14, NoTable
<1> QED
  BY <1>9, <1>11, <1>12, <1>13, <1>15, <1>16, Together
=============================================================================
