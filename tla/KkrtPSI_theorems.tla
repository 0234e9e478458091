-------------------------- MODULE KkrtPSI_theorems ---------------------------
(***************************************************************************)
(* What KkrtPSI computes; how a channel that holds the messages between    *)
(* its two ends goes on doing so; that what a party knows of the other     *)
(* lasts; that every action keeps the invariant, and what follows from it. *)
(***************************************************************************)
EXTENDS KkrtPSI_inv, KeyVectors_proofs

LEMMA TwoParties ==
    /\ S \in Party /\ R \in Party /\ S # R /\ Peer(S) = R /\ Peer(R) = S
    /\ \A p \in Party : /\ Peer(p) \in Party /\ Peer(p) # p /\ Peer(Peer(p)) = p
                        /\ \A q \in Party : q = p \/ q = Peer(p)
BY DEF Party, Peer, S, R

-----------------------------------------------------------------------------
(* Arithmetic of the lists of masks.                                       *)

LEMMA Product ==
    ASSUME NEW f \in Nat, NEW g \in Nat, NEW n \in Nat, f <= g
    PROVE  f * n \in Nat /\ f * n <= g * n
OBVIOUS

\* Place k of a row of lists of length n is in list 1 + (k - 1) \div n.
LEMMA PlaceInList ==
    ASSUME NEW n \in Nat \ {0}, NEW functions \in Nat, NEW k \in 1..(functions * n)
    PROVE  /\ (k - 1) \div n \in 0..(functions - 1)
           /\ (k - 1) % n \in 0..(n - 1)
OBVIOUS

LEMMA ListOfPlace ==
    ASSUME NEW a \in Nat, NEW n \in Nat \ {0}, NEW b \in 0..(n - 1)
    PROVE  (a * n + b) \div n = a /\ (a * n + b) % n = b
OBVIOUS

\* The part of the masks that belongs to f has a mask for every key.
LEMMA SegmentIs ==
    ASSUME NEW seed, NEW functions \in Nat, NEW n \in Nat \ {0},
           NEW keys \in Seq(Keys), Len(keys) = n,
           NEW shuffles \in [1..functions -> Shuffles(n)], NEW f \in 1..functions
    PROVE  \A mask : mask \in Segment(SenderMasks(seed, functions, keys, shuffles), f, n)
                       <=> \E j \in 1..n : mask = Mask(seed, f, keys[j])
<1> DEFINE masks == SenderMasks(seed, functions, keys, shuffles)
           list(g) == [i \in 1..n |-> Mask(seed, g, keys[i])]
<1>1. \A k \in 1..(functions * n) :
         masks[k] = Permute(shuffles[1 + (k - 1) \div n],
                            list(1 + (k - 1) \div n))[1 + ((k - 1) % n)]
  BY DEF SenderMasks
<1>2. ASSUME NEW j \in 1..n
      PROVE  /\ (f - 1) * n + j \in 1..(functions * n)
             /\ (f - 1) * n + j \in ((f - 1) * n + 1)..(f * n)
             /\ masks[(f - 1) * n + j] = Permute(shuffles[f], list(f))[j]
  <2>1. (f - 1) * n \in Nat /\ f * n <= functions * n /\ f * n = (f - 1) * n + n
    BY Product
  <2>2. ((f - 1) * n + (j - 1)) \div n = f - 1 /\ ((f - 1) * n + (j - 1)) % n = j - 1
    <3>1. f - 1 \in Nat /\ j - 1 \in 0..(n - 1)
      OBVIOUS
    <3> QED
      BY <3>1, ListOfPlace
  <2> DEFINE k == (f - 1) * n + j
  <2>3. k - 1 = (f - 1) * n + (j - 1) /\ k \in 1..(functions * n)
    BY <2>1
  <2>4. (k - 1) \div n = f - 1 /\ (k - 1) % n = j - 1
    BY <2>2, <2>3
  <2> HIDE DEF k, masks, list
  <2>5. 1 + (k - 1) \div n = f /\ 1 + ((k - 1) % n) = j
    BY <2>4
  <2>6. masks[k] = Permute(shuffles[f], list(f))[j]
    BY <1>1, <2>3, <2>5
  <2> QED
    BY <2>1, <2>3, <2>6 DEF k
<1>3. ASSUME NEW k \in ((f - 1) * n + 1)..(f * n)
      PROVE  \E j \in 1..n : k = (f - 1) * n + j
  <2>1. (f - 1) * n \in Nat /\ f * n = (f - 1) * n + n
    BY Product
  <2>2. k - (f - 1) * n \in 1..n /\ k = (f - 1) * n + (k - (f - 1) * n)
    BY <2>1
  <2> QED
    BY <2>2
<1> DEFINE mixed == Permute(shuffles[f], list(f))
<1>4. Segment(masks, f, n) = {mixed[j] : j \in 1..n}
  <2> DEFINE part == ((f - 1) * n + 1)..(f * n)
             at(j) == (f - 1) * n + j
  <2>1. \A j \in 1..n : at(j) \in part /\ masks[at(j)] = mixed[j]
    BY <1>2
  <2>2. \A k \in part : \E j \in 1..n : k = at(j)
    BY <1>3
  <2>3. Segment(masks, f, n) = {masks[k] : k \in part}
    BY DEF Segment
  <2> HIDE DEF part, at, masks, mixed
  <2> QED
    BY <2>1, <2>2, <2>3
<1> HIDE DEF masks
<1>5. \A j \in 1..n : /\ shuffles[f][j] \in 1..n
                      /\ Permute(shuffles[f], list(f))[j] = Mask(seed, f, keys[shuffles[f][j]])
  BY DEF Shuffles, Bijection, Injection, Permute
<1>6. \A i \in 1..n : \E j \in 1..n : shuffles[f][j] = i
  BY DEF Shuffles, Bijection, Surjection
<1> HIDE DEF list
<1>7. {mixed[j] : j \in 1..n} = {Mask(seed, f, keys[j]) : j \in 1..n}
  <2>1. \A j \in 1..n : shuffles[f][j] \in 1..n /\ mixed[j] = Mask(seed, f, keys[shuffles[f][j]])
    BY <1>5
  <2> HIDE DEF mixed
  <2>2. ASSUME NEW j \in 1..n PROVE mixed[j] \in {Mask(seed, f, keys[i]) : i \in 1..n}
    BY <2>1
  <2>3. ASSUME NEW i \in 1..n PROVE Mask(seed, f, keys[i]) \in {mixed[j] : j \in 1..n}
    <3>1. PICK j \in 1..n : shuffles[f][j] = i
      BY <1>6
    <3>2. mixed[j] = Mask(seed, f, keys[i])
      BY <2>1, <3>1
    <3> QED
      BY <3>2
  <2> QED
    BY ZenonT(60), <2>2, <2>3
<1> QED
  BY <1>4, <1>7 DEF masks

\* With the sender's masks of the same table, the receiver finds the keys the
\* sender has.
LEMMA FoundIs ==
    ASSUME NEW seed, NEW functions \in Nat, NEW n \in Nat \ {0},
           NEW theirs \in Seq(Keys), Len(theirs) = n,
           NEW shuffles \in [1..functions -> Shuffles(n)],
           NEW mine \in Seq(Keys), NEW placed \in [1..Len(mine) -> 1..functions]
    PROVE  Found(seed, placed, mine, SenderMasks(seed, functions, theirs, shuffles), n)
              = {i \in DOMAIN mine : mine[i] \in Range(theirs)}
<1>1. DOMAIN mine = 1..Len(mine) /\ DOMAIN theirs = 1..n
  BY LenProperties
<1>2. ASSUME NEW i \in DOMAIN mine
      PROVE  Mask(seed, placed[i], mine[i])
                \in Segment(SenderMasks(seed, functions, theirs, shuffles), placed[i], n)
             <=> mine[i] \in Range(theirs)
  <2>1. placed[i] \in 1..functions
    BY <1>1
  <2>2. \A mask : mask \in Segment(SenderMasks(seed, functions, theirs, shuffles), placed[i], n)
                    <=> \E j \in 1..n : mask = Mask(seed, placed[i], theirs[j])
    BY <2>1, SegmentIs, SMTT(60)
  <2>3. \A j \in 1..n : Mask(seed, placed[i], mine[i]) = Mask(seed, placed[i], theirs[j])
                           <=> mine[i] = theirs[j]
    BY DEF Mask
  <2> QED
    BY <1>1, <2>2, <2>3 DEF Range
<1> QED
  BY <1>2 DEF Found

\* The sender's masks are masks.
LEMMA SenderMasksType ==
    ASSUME NEW seed \in Prng, NEW functions \in Nat, NEW keys \in Seq(Keys),
           Len(keys) \in Nat \ {0},
           NEW shuffles \in [1..functions -> Shuffles(Len(keys))]
    PROVE  /\ SenderMasks(seed, functions, keys, shuffles) \in Seq(Masks)
           /\ DOMAIN SenderMasks(seed, functions, keys, shuffles) = 1..(functions * Len(keys))
           /\ \A k \in 1..(functions * Len(keys)) :
                 SenderMasks(seed, functions, keys, shuffles)[k].seed = seed
           /\ functions * Len(keys) \in Nat
<1> DEFINE n == Len(keys)
           list(g) == [i \in 1..n |-> Mask(seed, g, keys[i])]
           masks == SenderMasks(seed, functions, keys, shuffles)
<1>1. n \in Nat \ {0} /\ functions * n \in Nat
  BY Product
<1>2. masks = [k \in 1..(functions * n) |->
                 Permute(shuffles[1 + (k - 1) \div n],
                         list(1 + (k - 1) \div n))[1 + ((k - 1) % n)]]
  BY DEF SenderMasks
<1>3. ASSUME NEW k \in 1..(functions * n)
      PROVE  masks[k] \in Masks /\ masks[k].seed = seed
  <2> DEFINE f == 1 + (k - 1) \div n
             j == 1 + ((k - 1) % n)
  <2>1. f \in 1..functions /\ j \in 1..n
    <3>1. (k - 1) \div n \in 0..(functions - 1) /\ (k - 1) % n \in 0..(n - 1)
      BY <1>1, PlaceInList
    <3> QED
      BY <1>1, <3>1
  <2>2. masks[k] = Permute(shuffles[f], list(f))[j]
    BY <1>2
  <2> HIDE DEF f, j, masks
  <2>3. shuffles[f][j] \in 1..n /\ j \in DOMAIN shuffles[f]
    BY <2>1 DEF Shuffles, Bijection, Injection
  <2>4. masks[k] = Mask(seed, f, keys[shuffles[f][j]])
    BY <2>1, <2>2, <2>3 DEF Permute
  <2>5. keys[shuffles[f][j]] \in Keys
    BY <2>3, ElementOfSeq
  <2> QED
    BY <2>1, <2>4, <2>5 DEF Mask, Masks
<1>4. masks \in [1..(functions * n) -> Masks]
  BY <1>2, <1>3
<1> QED
  BY <1>1, <1>3, <1>4

-----------------------------------------------------------------------------
(* The channels.                                                           *)

\* What is always true of numbers of calls, and of numbers of messages.
LEMMA Numbers ==
    ASSUME TypeOK, NEW p \in Party
    PROVE  /\ Number(p) \in Nat /\ DOMAIN calls[p] = 1..Number(p)
           /\ Len(results[p]) \in Nat /\ DOMAIN results[p] = 1..Len(results[p])
           /\ Len(chan[p]) \in Nat /\ DOMAIN chan[p] = 1..Len(chan[p])
           /\ In(p) \in Nat /\ Out(p) \in Nat
<1>1. /\ calls[p] \in Seq(Inputs) /\ results[p] \in Seq(Outcome)
      /\ chan[p] \in Seq(InTransit)
  BY DEF TypeOK
<1>2. /\ Number(p) \in Nat /\ DOMAIN calls[p] = 1..Number(p)
      /\ Len(results[p]) \in Nat /\ DOMAIN results[p] = 1..Len(results[p])
      /\ Len(chan[p]) \in Nat /\ DOMAIN chan[p] = 1..Len(chan[p])
  BY <1>1, LenProperties DEF Number
<1>3. ThrewId \in Nat /\ \A n \in Nat : AfterOt(n) \in Nat /\ AfterSize(n) \in Nat
  BY DEF ThrewId, AfterOt, AfterSize
<1>4. /\ AfterInitId(stage[p]) \in Nat /\ InitId(stage[p]) \in Nat
      /\ \A k \in 0..6 : 6 * Number(p) + k \in Nat
  BY SMTT(60), <1>2 DEF AfterInitId, InitId
<1>5. In(p) \in Nat
  <2>1. CASE stage[p] \in InInit
    BY <1>4, <2>1 DEF In, InInit, HasRead
  <2>2. CASE stage[p] \in {"threw", "idle"}
    BY <1>2, <1>3, <2>2 DEF In, InInit
  <2>3. CASE stage[p] = "sizes"
    BY <1>2, <1>3, <2>3 DEF In, InInit, HasRead
  <2>4. CASE stage[p] = "stash"
    BY <1>2, <1>3, <2>4 DEF In, InInit
  <2>5. CASE stage[p] \notin InInit \cup {"threw", "idle", "sizes", "stash"}
    BY SMTT(60), <1>2, <1>3, <2>5 DEF In, InInit
  <2> QED
    BY <2>1, <2>2, <2>3, <2>4, <2>5
<1>6. Out(p) \in Nat
  <2>1. CASE stage[p] \in InInit
    BY <1>4, <2>1 DEF Out, InInit, HasWritten
  <2>2. CASE stage[p] \in {"threw", "idle"}
    BY <1>2, <1>3, <2>2 DEF Out, InInit
  <2>3. CASE stage[p] = "sizes"
    BY <1>2, <1>3, <2>3 DEF Out, InInit, HasWritten
  <2>4. CASE stage[p] = "stash"
    BY <1>2, <1>3, <2>4 DEF Out, InInit
  <2>5. CASE stage[p] \notin InInit \cup {"threw", "idle", "sizes", "stash"}
    BY SMTT(60), <1>2, <1>3, <2>5 DEF Out, InInit
  <2> QED
    BY <2>1, <2>2, <2>3, <2>4, <2>5
<1> QED
  BY <1>2, <1>5, <1>6

\* The messages from one end of a channel to the other, in order.
LEMMA Between ==
    ASSUME NEW q \in Party, InOrder(q), Len(chan[q]) \in Nat,
           In(q) \in Nat, Out(Peer(q)) \in Nat
    PROVE  /\ In(q) <= Out(Peer(q))
           /\ In(q) = Out(Peer(q)) => Len(chan[q]) = 0
           /\ Len(chan[q]) # 0 => \E y \in Int : Carries(q, In(q), chan[q][1], y)
<1> DEFINE len == Len(chan[q])
           low == In(q)
           high == Out(Peer(q))
<1>1. PICK ids \in [1..(len + 1) -> low..high] :
        /\ ids[1] = low
        /\ ids[len + 1] = high
        /\ \A i, j \in 1..(len + 1) : i < j => ids[i] < ids[j]
        /\ \A i \in 1..len : Carries(q, ids[i], chan[q][i], ids[i + 1])
  BY DEF InOrder
<1> HIDE DEF len, low, high
<1>2. len \in Nat /\ low \in Nat /\ high \in Nat
  BY DEF len, low, high
<1>3. 1 \in 1..(len + 1) /\ len + 1 \in 1..(len + 1)
  BY <1>2
<1>4. low <= high
  BY <1>1, <1>2, <1>3
<1>5. low = high => len = 0
  BY <1>1, <1>2, <1>3
<1>6. ASSUME len # 0 PROVE \E y \in Int : Carries(q, low, chan[q][1], y)
  <2>1. 1 \in 1..len /\ 2 \in 1..(len + 1)
    BY <1>2, <1>6
  <2>2. Carries(q, ids[1], chan[q][1], ids[2]) /\ ids[2] \in Int
    BY <1>1, <1>2, <2>1
  <2> QED
    BY <1>1, <2>2
<1> QED
  BY <1>4, <1>5, <1>6 DEF len, low, high

\* What was sent to q stays what it is.
Lasting(q) == \A x, m, y : Carries(q, x, m, y) => Carries(q, x, m, y)'

\* Nothing happens to the channel.
LEMMA KeepOrder ==
    ASSUME NEW q \in Party, InOrder(q), Lasting(q),
           chan'[q] = chan[q], In(q)' = In(q), Out(Peer(q))' = Out(Peer(q))
    PROVE  InOrder(q)'
BY DEF InOrder, Lasting

\* The channel is empty.
LEMMA NothingOnWay ==
    ASSUME NEW q \in Party, chan'[q] = <<>>,
           NEW here \in Nat, In(q)' = here, Out(Peer(q))' = here
    PROVE  InOrder(q)'
<1>1. PICK ids : ids = [i \in 1..1 |-> here]
  OBVIOUS
<1>2. /\ Len(chan'[q]) = 0 /\ ids \in [1..(0 + 1) -> here..here] /\ ids[1] = here
      /\ \A i, j \in 1..(0 + 1) : ~(i < j)
  BY <1>1
<1> QED
  BY <1>2 DEF InOrder

\* A message goes in at the writer's end.
LEMMA SendOrder ==
    ASSUME NEW q \in Party, InOrder(q), Lasting(q), NEW T, chan[q] \in Seq(T), NEW m,
           chan'[q] = Append(chan[q], m),
           NEW low \in Nat, In(q) = low, In(q)' = low,
           NEW high \in Nat, Out(Peer(q)) = high,
           NEW top \in Nat, Out(Peer(q))' = top, high < top,
           Carries(q, high, m, top)'
    PROVE  InOrder(q)'
<1>1. PICK len \in Nat : len = Len(chan[q])
  BY LenProperties
<1>2. PICK ids \in [1..(len + 1) -> low..high] :
        /\ ids[1] = low
        /\ ids[len + 1] = high
        /\ \A i, j \in 1..(len + 1) : i < j => ids[i] < ids[j]
        /\ \A i \in 1..len : Carries(q, ids[i], chan[q][i], ids[i + 1])
  BY <1>1 DEF InOrder
<1>3. /\ Len(chan'[q]) = len + 1
      /\ \A i \in 1..len : chan'[q][i] = chan[q][i]
      /\ chan'[q][len + 1] = m
  BY <1>1
<1>4. PICK more : more = [i \in 1..(len + 2) |-> IF i = len + 2 THEN top ELSE ids[i]]
  OBVIOUS
<1>5. /\ more \in [1..(len + 2) -> low..top]
      /\ more[1] = low /\ more[len + 2] = top /\ more[len + 1] = high
      /\ \A i \in 1..(len + 1) : more[i] = ids[i]
  BY <1>2, <1>4
<1>6. ASSUME NEW i \in 1..(len + 2), NEW j \in 1..(len + 2), i < j
      PROVE  more[i] < more[j]
  <2>1. i \in 1..(len + 1) /\ more[i] = ids[i] /\ ids[i] \in low..high
    BY <1>2, <1>5, <1>6
  <2>2. CASE j = len + 2
    BY <1>5, <2>1, <2>2
  <2>3. CASE j # len + 2
    BY <1>2, <1>5, <1>6, <2>1, <2>3
  <2> QED
    BY <2>2, <2>3
<1>7. ASSUME NEW i \in 1..(len + 1)
      PROVE  Carries(q, more[i], chan[q][i], more[i + 1])'
  <2>1. CASE i = len + 1
    <3>1. more[i] = high /\ more[i + 1] = top /\ chan'[q][i] = m
      BY <1>3, <1>5, <2>1
    <3> QED
      BY <3>1
  <2>2. CASE i # len + 1
    <3>1. i \in 1..len /\ i + 1 \in 1..(len + 1)
      BY <2>2
    <3>2. PICK was : was = chan[q][i]
      OBVIOUS
    <3>3. Carries(q, ids[i], was, ids[i + 1])'
      BY <1>2, <3>1, <3>2 DEF Lasting
    <3>4. chan'[q][i] = was /\ more[i] = ids[i] /\ more[i + 1] = ids[i + 1]
      BY <1>3, <1>5, <3>1, <3>2
    <3> QED
      BY <3>3, <3>4
  <2> QED
    BY <2>1, <2>2
<1>8. Len(chan'[q]) + 1 = len + 2
  BY <1>3
<1> QED
  BY <1>3, <1>5, <1>6, <1>7, <1>8 DEF InOrder

\* A message is taken out at the reader's end.
LEMMA ReadOrder ==
    ASSUME NEW q \in Party, InOrder(q), Lasting(q), NEW T, chan[q] \in Seq(T),
           chan[q] # <<>>, chan'[q] = Tail(chan[q]),
           In(q) \in Nat, Out(Peer(q)) \in Nat, Out(Peer(q))' = Out(Peer(q)),
           \A y \in Int : Carries(q, In(q), chan[q][1], y) => In(q)' = y
    PROVE  InOrder(q)'
<1>1. PICK len \in Nat \ {0} : len = Len(chan[q])
  BY LenProperties
<1>2. PICK low \in Nat : low = In(q)
  OBVIOUS
<1>3. PICK high \in Nat : high = Out(Peer(q)) /\ high = Out(Peer(q))'
  OBVIOUS
<1>4. PICK ids \in [1..(len + 1) -> low..high] :
        /\ ids[1] = low
        /\ ids[len + 1] = high
        /\ \A i, j \in 1..(len + 1) : i < j => ids[i] < ids[j]
        /\ \A i \in 1..len : Carries(q, ids[i], chan[q][i], ids[i + 1])
  BY <1>1, <1>2, <1>3 DEF InOrder
<1>5. /\ Len(chan'[q]) = len - 1
      /\ \A i \in 1..(len - 1) : chan'[q][i] = chan[q][i + 1]
  BY <1>1
<1>6. PICK less : less = [i \in 1..len |-> ids[i + 1]]
  OBVIOUS
<1>7. In(q)' = ids[2]
  <2>1. Carries(q, In(q), chan[q][1], ids[2]) /\ ids[2] \in Int
    BY <1>2, <1>4
  <2> QED
    BY <2>1
<1>8. ASSUME NEW i \in 1..len PROVE less[i] \in ids[2]..high
  <2>1. 2 \in 1..(len + 1) /\ i + 1 \in 1..(len + 1) /\ less[i] = ids[i + 1]
    BY <1>6
  <2>2. i = 1 \/ ids[2] < ids[i + 1]
    BY <1>4, <2>1
  <2> QED
    BY <1>4, <2>1, <2>2
<1>9. /\ less \in [1..len -> ids[2]..high]
      /\ less[1] = ids[2] /\ less[len] = high
  BY <1>4, <1>6, <1>8
<1>10. \A i, j \in 1..len : i < j => less[i] < less[j]
  BY <1>4, <1>6
<1>11. ASSUME NEW i \in 1..(len - 1)
       PROVE  Carries(q, less[i], chan[q][i], less[i + 1])'
  <2>1. i + 1 \in 1..len /\ less[i] = ids[i + 1] /\ less[i + 1] = ids[i + 1 + 1]
    BY <1>6
  <2>2. PICK was : was = chan[q][i + 1]
    OBVIOUS
  <2>3. Carries(q, ids[i + 1], was, ids[i + 1 + 1])'
    BY <1>4, <2>1, <2>2 DEF Lasting
  <2>4. chan'[q][i] = was
    BY <1>5, <2>2
  <2> QED
    BY <2>1, <2>3, <2>4
<1>12. Len(chan'[q]) + 1 = len
  BY <1>5
<1> QED
  BY <1>3, <1>5, <1>7, <1>9, <1>10, <1>11, <1>12 DEF InOrder

\* A channel of messages is one whatever set they are known to be in.
LEMMA ChannelsType ==
    ASSUME NEW T, chan' \in [Party -> Seq(T)], \A m \in T : MessageOK(m)
    PROVE  chan' \in [Party -> Seq(InTransit')] /\ \A m \in InTransit' : MessageOK(m)
<1>1. ASSUME NEW p \in Party PROVE Range(chan'[p]) \subseteq T /\ chan'[p] \in Seq(Range(chan'[p]))
  <2>1. chan'[p] \in Seq(T) /\ DOMAIN chan'[p] = 1..Len(chan'[p]) /\ Len(chan'[p]) \in Nat
    BY LenProperties
  <2>2. \A i \in 1..Len(chan'[p]) : chan'[p][i] \in T /\ chan'[p][i] \in Range(chan'[p])
    BY <2>1, ElementOfSeq DEF Range
  <2>3. chan'[p] \in [1..Len(chan'[p]) -> Range(chan'[p])]
    BY <2>1, <2>2
  <2>4. Range(chan'[p]) \subseteq T
    BY <2>1, <2>2 DEF Range
  <2> QED
    BY <2>1, <2>3, <2>4
<1>2. \A p \in Party : chan'[p] \in Seq(InTransit')
  <2>1. ASSUME NEW p \in Party PROVE Range(chan'[p]) \subseteq InTransit'
    BY DEF InTransit
  <2> QED
    BY <1>1, <2>1, SeqMonotonic
<1>3. \A m \in InTransit' : m \in T
  BY <1>1 DEF InTransit
<1> QED
  BY <1>2, <1>3
-----------------------------------------------------------------------------
(* What lasts over a step.                                                 *)

\* In a step of p the peer stays where it is, and nothing p has done is undone.
Alone(p) ==
    LET q == Peer(p) IN
    /\ UNCHANGED <<epsilon, num_of_fun, sender_obtain_result, modes>>
    /\ stage'[q] = stage[q] /\ io'[q] = io[q] /\ remote'[q] = remote[q]
    /\ common_prng'[q] = common_prng[q]
    /\ calls'[q] = calls[q] /\ results'[q] = results[q]
    /\ \A n \in DOMAIN calls[p] : n \in DOMAIN calls'[p] /\ calls'[p][n] = calls[p][n]
    /\ \A n : GotThrough(n) => GotThrough(n)'
    /\ \A n : GaveUp(n) => GaveUp(n)'
    /\ p = S => UNCHANGED <<stash_size, function_ids, found>>

\* No call gives up in the step.
NoneGivesUp == \A n : GaveUp(n)' => GaveUp(n)

\* Calls that both have made are the same after a step.
LEMMA CallsLast ==
    ASSUME TypeOK, NEW p \in Party, Alone(p)
    PROVE  \A r \in Party : \A n \in DOMAIN calls[r] :
              n \in DOMAIN calls'[r] /\ calls'[r][n] = calls[r][n]
BY TwoParties DEF Alone

LEMMA CommonLasts ==
    ASSUME TypeOK, NEW p \in Party, Alone(p),
           NEW n \in DOMAIN calls[S], n \in DOMAIN calls[R]
    PROVE  Common(n)' = Common(n)
<1>1. calls'[S][n] = calls[S][n] /\ calls'[R][n] = calls[R][n]
  BY CallsLast, TwoParties
<1> QED
  BY <1>1 DEF Common, S, R

LEMMA MessagesLast ==
    ASSUME TypeOK, NEW p \in Party, Alone(p), NEW r \in Party, r = S \/ NoneGivesUp
    PROVE  Lasting(r)
<1>1. \A q \in Party : \A n \in DOMAIN calls[q] :
         n \in DOMAIN calls'[q] /\ calls'[q][n] = calls[q][n]
  BY CallsLast
<1>2. /\ epsilon' = epsilon /\ num_of_fun' = num_of_fun /\ modes' = modes
      /\ sender_obtain_result' = sender_obtain_result
  BY DEF Alone
<1>3. ASSUME NEW x, NEW m, NEW y, Carries(r, x, m, y)
      PROVE  Carries(r, x, m, y)'
  <2>1. CASE InitCarries(r, x, m, y)
    <3>1. InitCarries(r, x, m, y)'
      BY <1>2, <2>1 DEF InitCarries, Says, Word, Width, Block
    <3> QED
      BY <3>1 DEF Carries
  <2>2. CASE ~InitCarries(r, x, m, y)
    <3>1. PICK n \in DOMAIN calls[Peer(r)] :
            IF r = S THEN ToSender(n, x, m, y) ELSE ToReceiver(n, x, m, y)
      BY <1>3, <2>2 DEF Carries
    <3>2. n \in DOMAIN calls'[Peer(r)] /\ calls'[Peer(r)][n] = calls[Peer(r)][n]
      BY <1>1, TwoParties
    <3>3. CASE r = S
      <4>1. ToSender(n, x, m, y) /\ n \in DOMAIN calls[R] /\ calls'[R][n] = calls[R][n]
        BY <3>1, <3>2, <3>3, TwoParties
      <4>2. n \in DOMAIN calls[S] => n \in DOMAIN calls'[S] /\ Common(n)' = Common(n)
        BY <1>1, <4>1, CommonLasts, TwoParties
      <4>3. AfterOt(n)' = AfterOt(n) /\ AfterCount(n)' = AfterCount(n)
        BY <1>2 DEF AfterOt, AfterCount
      <4>4. (GotThrough(n) => GotThrough(n)') /\ (GaveUp(n) => GaveUp(n)')
        BY DEF Alone
      <4>5. ToSender(n, x, m, y)'
        BY <1>2, <4>1, <4>2, <4>3, <4>4 DEF ToSender, Says, Word, Width
      <4> QED
        BY <3>2, <3>3, <4>5 DEF Carries
    <3>4. CASE r # S
      <4>1. ToReceiver(n, x, m, y) /\ n \in DOMAIN calls[S] /\ calls'[S][n] = calls[S][n]
        BY <3>1, <3>2, <3>4, TwoParties
      <4>2. AfterSize(n)' = AfterSize(n)
        BY <3>4 DEF AfterSize, Alone, NoneGivesUp
      <4>3. ToReceiver(n, x, m, y)'
        BY <1>2, <4>1, <4>2 DEF ToReceiver, Says, Word, Width
      <4> QED
        BY <3>2, <3>4, <4>3 DEF Carries
    <3> QED
      BY <3>3, <3>4
  <2> QED
    BY <2>1, <2>2
<1> QED
  BY <1>3 DEF Lasting

\* The peer's end of both channels stays.
LEMMA EndsStay ==
    ASSUME TypeOK, NEW p \in Party, Alone(p)
    PROVE  /\ In(Peer(p))' = In(Peer(p))
           /\ NoneGivesUp => Out(Peer(p))' = Out(Peer(p))
<1> DEFINE q == Peer(p)
<1>1. /\ stage'[q] = stage[q] /\ io'[q] = io[q] /\ Number(q)' = Number(q)
      /\ \A n : AfterOt(n)' = AfterOt(n)
      /\ NoneGivesUp => \A n : AfterSize(n)' = AfterSize(n)
      /\ ThrewId' = ThrewId
  BY DEF Alone, NoneGivesUp, Number, AfterOt, AfterSize, ThrewId
<1>2. HasRead(q)' = HasRead(q) /\ HasWritten(q)' = HasWritten(q)
  BY <1>1 DEF HasRead, HasWritten
<1> HIDE DEF q
<1>3. In(q)' = In(q)
  BY <1>1, <1>2 DEF In
<1>4. NoneGivesUp => Out(q)' = Out(q)
  BY <1>1, <1>2 DEF Out
<1> QED
  BY <1>3, <1>4 DEF q

\* The peer's control and what it knows stay.
LEMMA PeerStays ==
    ASSUME KkrtInv, NEW p \in Party, Alone(p)
    PROVE  Control(Peer(p))' /\ Knows(Peer(p))'
<1> DEFINE q == Peer(p)
<1>1. /\ q \in Party /\ Peer(q) = p
      /\ stage'[q] = stage[q] /\ io'[q] = io[q] /\ remote'[q] = remote[q]
      /\ common_prng'[q] = common_prng[q] /\ Number(q)' = Number(q)
      /\ results'[q] = results[q]
      /\ epsilon' = epsilon /\ num_of_fun' = num_of_fun /\ modes' = modes
      /\ sender_obtain_result' = sender_obtain_result
      /\ Control(q) /\ Knows(q)
  BY TwoParties DEF Alone, Number, KkrtInv
<1>2. /\ HasRead(q)' = HasRead(q)
      /\ \A n \in DOMAIN calls[p] : n \in DOMAIN calls'[p] /\ calls'[p][n] = calls[p][n]
  BY <1>1 DEF HasRead, Alone
<1> HIDE DEF q
<1>3. Control(q)'
  BY <1>1 DEF Control
<1>4. Knows(q)'
  BY <1>1, <1>2 DEF Knows, Block
<1> QED
  BY <1>3, <1>4 DEF q

LEMMA SenderStays ==
    ASSUME KkrtInv, Alone(R)
    PROVE  SenderKnows'
<1>1. /\ stage'[S] = stage[S] /\ remote'[S] = remote[S] /\ Number(S)' = Number(S)
      /\ \A n : GotThrough(n) => GotThrough(n)'
  BY TwoParties DEF Alone, Number
<1>2. CASE stage[S] = "keys"
  <2>1. Number(S) \in DOMAIN calls[R] /\ Number(S) \in DOMAIN calls[S]
    <3>1. Number(S) > 0 /\ Number(S) \in DOMAIN calls[R]
      BY <1>2, TwoParties DEF KkrtInv, Control, Knows, InCall
    <3> QED
      BY <3>1, Numbers, TwoParties DEF KkrtInv
  <2>2. Common(Number(S))' = Common(Number(S))
    BY <1>1, <2>1, CommonLasts, TwoParties DEF KkrtInv
  <2> QED
    BY <1>1, <1>2, <2>2 DEF KkrtInv, SenderKnows
<1>3. CASE stage[S] # "keys"
  BY <1>1, <1>3 DEF KkrtInv, SenderKnows
<1> QED
  BY <1>2, <1>3

LEMMA TableStays ==
    ASSUME KkrtInv, Alone(S)
    PROVE  TableOK'
<1>1. /\ stage'[R] = stage[R] /\ calls'[R] = calls[R] /\ Number(R)' = Number(R)
      /\ num_of_fun' = num_of_fun /\ epsilon' = epsilon
      /\ function_ids' = function_ids /\ stash_size' = stash_size /\ found' = found
  BY TwoParties DEF Alone, Number
<1>2. Current(R)' = Current(R) /\ Bins(R)' = Bins(R)
  BY <1>1 DEF Current, Bins, ReceiverSize, R
<1>3. stage[R] \in {"count", "keys"} => Common(Number(R))' = Common(Number(R))
  <2>1. SUFFICES ASSUME stage[R] \in {"count", "keys"}
                 PROVE  Common(Number(R))' = Common(Number(R))
    OBVIOUS
  <2>2. Number(R) \in DOMAIN calls[S] /\ Number(R) \in DOMAIN calls[R]
    <3>1. Number(R) > 0 /\ Number(R) \in DOMAIN calls[S]
      BY <2>1, TwoParties DEF KkrtInv, Control, Knows, InCall
    <3> QED
      BY <3>1, Numbers, TwoParties DEF KkrtInv
  <2> QED
    BY <1>1, <2>2, CommonLasts, TwoParties DEF KkrtInv
<1>4. TableOK
  BY DEF KkrtInv
<1> QED
  BY <1>1, <1>2, <1>3, <1>4 DEF TableOK

-----------------------------------------------------------------------------
(* Results.                                                                *)

\* What the n-th call of p returns, if it does not throw.
RightResult(p, n) ==
    IF p = S /\ ~sender_obtain_result[p] THEN Returned(<<>>, 0)
    ELSE IF modes[n] THEN Returned(<<>>, Cardinality(Common(n)))
    ELSE Returned(Pick(calls[R][n], Common(n)), 0)

LEMMA ResultsAre ==
    ResultCorrect <=>
        \A p \in Party : \A n \in DOMAIN results[p] :
            results[p][n] # Threw => results[p][n] = RightResult(p, n)
BY DEF ResultCorrect, RightResult, S, R

\* A call that has ended at one party was made by both.
LEMMA EndedCalls ==
    ASSUME KkrtInv, NEW r \in Party, NEW n \in DOMAIN results[r]
    PROVE  n \in DOMAIN calls[S] /\ n \in DOMAIN calls[R]
<1>1. n \in DOMAIN calls[Peer(r)]
  BY DEF KkrtInv, Ended
<1>2. Len(results[r]) <= Number(r)
  <2>1. TypeOK /\ Control(r)
    BY DEF KkrtInv
  <2>2. Number(r) \in Nat /\ Len(results[r]) \in Nat
    BY <2>1, Numbers
  <2>3. \E k \in {0, 1} : Number(r) = Len(results[r]) + k
    BY <2>1 DEF Control
  <2> QED
    BY <2>2, <2>3
<1>3. n \in DOMAIN calls[r]
  BY <1>2, Numbers DEF KkrtInv
<1> QED
  BY <1>1, <1>3, TwoParties

\* The value of a finished call lasts.
LEMMA RightLasts ==
    ASSUME KkrtInv, NEW p \in Party, Alone(p), NEW r \in Party,
           NEW n \in DOMAIN calls[S], n \in DOMAIN calls[R]
    PROVE  RightResult(r, n)' = RightResult(r, n)
<1>1. Common(n)' = Common(n) /\ calls'[R][n] = calls[R][n]
  BY CommonLasts, CallsLast, TwoParties DEF KkrtInv
<1> QED
  BY <1>1 DEF RightResult, Alone

LEMMA OldResults ==
    ASSUME KkrtInv, NEW p \in Party, Alone(p), NEW r \in Party,
           NEW n \in DOMAIN results[r]
    PROVE  /\ n \in DOMAIN calls'[Peer(r)]
           /\ r = S => IF results[S][n] = Threw THEN GaveUp(n)' ELSE GotThrough(n)'
           /\ results[r][n] # Threw => results[r][n] = RightResult(r, n)'
<1>1. n \in DOMAIN calls[S] /\ n \in DOMAIN calls[R]
  BY EndedCalls
<1>2. n \in DOMAIN calls'[Peer(r)]
  BY <1>1, CallsLast, TwoParties DEF KkrtInv
<1>3. r = S => IF results[S][n] = Threw THEN GaveUp(n)' ELSE GotThrough(n)'
  BY DEF KkrtInv, Ended, Alone
<1>4. results[r][n] # Threw => results[r][n] = RightResult(r, n)
  BY ResultsAre DEF KkrtInv
<1> QED
  BY <1>1, <1>2, <1>3, <1>4, RightLasts

\* A step that ends no call.
LEMMA ResultsStay ==
    ASSUME KkrtInv, NEW p \in Party, Alone(p), results'[p] = results[p]
    PROVE  Ended' /\ ResultCorrect'
<1>1. \A r \in Party : results'[r] = results[r]
  BY TwoParties DEF Alone
<1>2. Ended'
  BY <1>1, OldResults, TwoParties DEF Ended
<1>3. \A r \in Party : \A n \in DOMAIN results'[r] :
         results'[r][n] # Threw => results'[r][n] = RightResult(r, n)'
  BY <1>1, OldResults
<1> QED
  BY <1>2, <1>3 DEF ResultCorrect, RightResult, S, R

\* A step that ends one.
LEMMA ResultsGrow ==
    ASSUME KkrtInv, NEW p \in Party, Alone(p), NEW result,
           results'[p] = Append(results[p], result),
           stage[p] \in InCall, Number(p) \in DOMAIN calls[Peer(p)],
           p = S => IF result = Threw THEN GaveUp(Number(S)) ELSE GotThrough(Number(S)),
           result # Threw => result = RightResult(p, Number(p))
    PROVE  Ended' /\ ResultCorrect'
<1> DEFINE q == Peer(p)
<1>1. PICK n : n = Number(p)
  OBVIOUS
<1>2. n \in Nat /\ n > 0 /\ n = Len(results[p]) + 1 /\ Len(results[p]) \in Nat
  BY <1>1, Numbers, TwoParties DEF KkrtInv, Control
<1>3. results[p] \in Seq(Outcome)
  BY DEF KkrtInv, TypeOK
<1>4. /\ DOMAIN results'[p] = 1..n /\ DOMAIN results[p] = 1..(n - 1)
      /\ results'[p][n] = result
      /\ \A k \in 1..(n - 1) : results'[p][k] = results[p][k]
      /\ results'[q] = results[q]
  BY <1>2, <1>3, LenProperties DEF Alone
<1>5. n \in DOMAIN calls[S] /\ n \in DOMAIN calls[R]
  <2>1. n \in 1..Number(p)
    BY <1>1, <1>2
  <2>2. DOMAIN calls[p] = 1..Number(p)
    <3>1. TypeOK
      BY DEF KkrtInv
    <3> QED
      BY <3>1, Numbers
  <2> QED
    BY <1>1, <2>1, <2>2, TwoParties
<1>6. RightResult(p, n)' = RightResult(p, n) /\ n \in DOMAIN calls'[Peer(p)]
  BY <1>5, RightLasts, CallsLast, TwoParties DEF KkrtInv
<1>7. p = S => IF result = Threw THEN GaveUp(n)' ELSE GotThrough(n)'
  BY <1>1 DEF Alone
<1>8. ASSUME NEW r \in Party, NEW k \in DOMAIN results'[r]
      PROVE  /\ k \in DOMAIN calls'[Peer(r)]
             /\ r = S => IF results'[S][k] = Threw THEN GaveUp(k)' ELSE GotThrough(k)'
             /\ results'[r][k] # Threw => results'[r][k] = RightResult(r, k)'
  <2>1. CASE r = p /\ k = n
    BY <1>1, <1>4, <1>6, <1>7, <2>1
  <2>2. CASE ~(r = p /\ k = n)
    <3>1. k \in DOMAIN results[r] /\ results'[r][k] = results[r][k]
      BY <1>2, <1>4, <2>2, TwoParties
    <3>2. r = S => results'[S][k] = results[S][k]
      BY <3>1
    <3> QED
      BY <3>1, <3>2, OldResults
  <2> QED
    BY <2>1, <2>2
<1>9. Ended'
  BY <1>8, TwoParties DEF Ended
<1> QED
  BY <1>8, <1>9 DEF ResultCorrect, RightResult, S, R

-----------------------------------------------------------------------------
(* Steps.                                                                  *)

\* p moves, and its peer is left alone.
Others(p) ==
    LET q == Peer(p) IN
    /\ UNCHANGED <<epsilon, num_of_fun, sender_obtain_result, modes>>
    /\ stage'[q] = stage[q] /\ io'[q] = io[q] /\ remote'[q] = remote[q]
    /\ common_prng'[q] = common_prng[q]
    /\ calls'[q] = calls[q] /\ results'[q] = results[q]
    /\ p = S => UNCHANGED <<stash_size, function_ids, found>>

\* Where the receiver is once it has told the sender that it goes on.
Passed == {"ot", "masks", "count", "keys"}

\* A step inside init or a call.
LEMMA MovesOn ==
    ASSUME KkrtInv, NEW p \in Party, Others(p),
           calls'[p] = calls[p], results'[p] = results[p],
           p = R /\ stage[R] \in Passed => stage'[R] \in Passed
    PROVE  Alone(p) /\ NoneGivesUp
<1>1. calls'[R] = calls[R] /\ results'[R] = results[R]
  BY TwoParties DEF Others
<1>2. stage[R] \in Passed => stage'[R] \in Passed
  BY TwoParties DEF Others
<1>3. \A n : (GotThrough(n) => GotThrough(n)') /\ (GaveUp(n) <=> GaveUp(n)')
  BY <1>1, <1>2 DEF GotThrough, GaveUp, Number, Passed
<1> QED
  BY <1>3 DEF Alone, NoneGivesUp, Others

\* A step that starts a call.
LEMMA CallStarts ==
    ASSUME KkrtInv, NEW p \in Party, Others(p), stage[p] = "idle",
           NEW keys \in Inputs, calls'[p] = Append(calls[p], keys),
           results'[p] = results[p]
    PROVE  Alone(p) /\ NoneGivesUp
<1>1. results'[R] = results[R]
  BY TwoParties DEF Others
<1>2. \A n : (GotThrough(n) => GotThrough(n)') /\ (GaveUp(n) <=> GaveUp(n)')
  <2>1. CASE p = R
    BY <1>1, <2>1 DEF GotThrough, GaveUp
  <2>2. CASE p # R
    <3>1. stage'[R] = stage[R] /\ calls'[R] = calls[R]
      BY <2>2, TwoParties DEF Others
    <3> QED
      BY <1>1, <3>1 DEF GotThrough, GaveUp, Number
  <2> QED
    BY <2>1, <2>2
<1>3. \A n \in DOMAIN calls[p] : n \in DOMAIN calls'[p] /\ calls'[p][n] = calls[p][n]
  <2>1. calls[p] \in Seq(Inputs)
    BY DEF KkrtInv, TypeOK
  <2> QED
    BY <2>1
<1> QED
  BY <1>2, <1>3 DEF Alone, NoneGivesUp, Others

\* A step that ends one.
LEMMA CallEnds ==
    ASSUME KkrtInv, NEW p \in Party, Others(p), stage[p] \in InCall,
           NEW result, results'[p] = Append(results[p], result),
           calls'[p] = calls[p],
           p = R => (stage[R] \in Passed <=> result # Threw)
    PROVE  /\ Alone(p)
           /\ p = S \/ result # Threw => NoneGivesUp
           /\ p = R => IF result = Threw THEN GaveUp(Number(R))' ELSE GotThrough(Number(R))'
<1>1. CASE p = S
  <2>1. stage'[R] = stage[R] /\ calls'[R] = calls[R] /\ results'[R] = results[R]
    BY <1>1, TwoParties DEF Others
  <2>2. \A n : (GotThrough(n) => GotThrough(n)') /\ (GaveUp(n) <=> GaveUp(n)')
    BY <2>1 DEF GotThrough, GaveUp, Number
  <2> QED
    BY <1>1, <2>2, TwoParties DEF Alone, NoneGivesUp, Others
<1>2. CASE p = R
  <2>1. PICK n : n = Number(R)
    OBVIOUS
  <2>2. TypeOK /\ Control(R)
    BY DEF KkrtInv, R, Party
  <2>3. n \in Nat /\ n = Len(results[R]) + 1 /\ Len(results[R]) \in Nat
    BY <1>2, <2>1, <2>2, Numbers DEF Control
  <2>4. results[R] \in Seq(Outcome)
    BY <1>2, <2>2 DEF TypeOK
  <2>5. /\ DOMAIN results'[R] = 1..n /\ DOMAIN results[R] = 1..(n - 1)
        /\ results'[R][n] = result
        /\ \A k \in 1..(n - 1) : results'[R][k] = results[R][k]
    BY <1>2, <2>3, <2>4, LenProperties
  <2>6. Number(R)' = n
    BY <1>2, <2>1 DEF Number
  <2>7. \A k : GotThrough(k) => GotThrough(k)'
    BY <1>2, <2>1, <2>3, <2>5 DEF GotThrough, Passed
  <2>8. \A k : GaveUp(k) => GaveUp(k)'
    BY <2>3, <2>5 DEF GaveUp
  <2>9. result # Threw => \A k : GaveUp(k)' => GaveUp(k)
    BY <2>3, <2>5 DEF GaveUp
  <2>10. IF result = Threw THEN GaveUp(Number(R))' ELSE GotThrough(Number(R))'
    BY <2>3, <2>5, <2>6 DEF GaveUp, GotThrough
  <2> QED
    BY <1>2, <2>7, <2>8, <2>9, <2>10, TwoParties DEF Alone, NoneGivesUp, Others
<1> QED
  BY <1>1, <1>2, TwoParties

\* What is left to show of a step of p.
LEMMA Together ==
    ASSUME KkrtInv, NEW p \in Party, Alone(p), TypeOK', Control(p)', Knows(p)',
           \A q \in Party : InOrder(q)', p = S => SenderKnows', p = R => TableOK',
           Ended', ResultCorrect'
    PROVE  KkrtInv'
<1>1. \A q \in Party : Control(q)' /\ Knows(q)'
  BY PeerStays, TwoParties
<1>2. SenderKnows' /\ TableOK'
  BY SenderStays, TableStays, TwoParties
<1>3. sender_obtain_result'[S] = sender_obtain_result'[R]
  BY DEF Alone, KkrtInv
<1> QED
  BY <1>1, <1>2, <1>3 DEF KkrtInv

-----------------------------------------------------------------------------
(* Channels over a step of p.                                              *)

LEMMA QuietOrder ==
    ASSUME KkrtInv, NEW p \in Party, Alone(p), NoneGivesUp, chan' = chan,
           In(p)' = In(p), Out(p)' = Out(p)
    PROVE  \A q \in Party : InOrder(q)'
<1>1. \A q \in Party : Lasting(q) /\ In(q)' = In(q) /\ Out(q)' = Out(q)
  BY MessagesLast, EndsStay, TwoParties DEF KkrtInv
<1>2. \A q \in Party : InOrder(q)
  BY DEF KkrtInv
<1> QED
  BY <1>1, <1>2, KeepOrder, TwoParties

LEMMA SendsOrder ==
    ASSUME KkrtInv, NEW p \in Party, Alone(p), NoneGivesUp, NEW m,
           chan' = [chan EXCEPT ![Peer(p)] = Append(@, m)],
           In(p)' = In(p), NEW high \in Nat, Out(p) = high,
           NEW top \in Nat, Out(p)' = top, high < top,
           Carries(Peer(p), high, m, top)'
    PROVE  \A q \in Party : InOrder(q)'
<1> DEFINE q == Peer(p)
<1>1. /\ q \in Party /\ Peer(q) = p /\ q # p
      /\ Lasting(q) /\ Lasting(p) /\ In(q)' = In(q) /\ Out(q)' = Out(q)
      /\ InOrder(q) /\ InOrder(p)
  BY MessagesLast, EndsStay, TwoParties DEF KkrtInv
<1>2. chan \in [Party -> Seq(InTransit)] /\ In(q) \in Nat
  BY <1>1, Numbers DEF KkrtInv, TypeOK
<1>3. chan'[p] = chan[p] /\ chan'[q] = Append(chan[q], m) /\ chan[q] \in Seq(InTransit)
  BY <1>1, <1>2
<1>4. InOrder(p)'
  BY <1>1, <1>3, KeepOrder
<1>5. PICK low \in Nat : low = In(q)
  BY <1>2
<1> HIDE DEF q
<1>6. Out(Peer(q)) = high /\ Out(Peer(q))' = top
  BY <1>1
<1>7. Carries(q, high, m, top)'
  BY DEF q
<1>8. In(q) = low /\ In(q)' = low
  BY <1>1, <1>5
<1>9. InOrder(q)'
  BY <1>1, <1>3, <1>6, <1>7, <1>8, SendOrder
<1> QED
  BY <1>1, <1>4, <1>9, TwoParties DEF q

LEMMA ReadsOrder ==
    ASSUME KkrtInv, NEW p \in Party, Alone(p), NoneGivesUp,
           chan[p] # <<>>, chan' = [chan EXCEPT ![p] = Tail(@)],
           Out(p)' = Out(p),
           \A y \in Int : Carries(p, In(p), Head(chan[p]), y) => In(p)' = y
    PROVE  \A q \in Party : InOrder(q)'
<1> DEFINE q == Peer(p)
<1>1. /\ q \in Party /\ Peer(q) = p /\ q # p
      /\ Lasting(q) /\ Lasting(p) /\ In(q)' = In(q) /\ Out(q)' = Out(q)
      /\ InOrder(q) /\ InOrder(p)
  BY MessagesLast, EndsStay, TwoParties DEF KkrtInv
<1>2. chan \in [Party -> Seq(InTransit)] /\ In(p) \in Nat /\ Out(q) \in Nat
  BY <1>1, Numbers DEF KkrtInv, TypeOK
<1>3. chan'[q] = chan[q] /\ chan'[p] = Tail(chan[p]) /\ chan[p] \in Seq(InTransit)
  BY <1>1, <1>2
<1>4. InOrder(q)'
  BY <1>1, <1>3, KeepOrder
<1>5. Head(chan[p]) = chan[p][1]
  BY <1>3
<1>6. InOrder(p)'
  BY <1>1, <1>2, <1>3, <1>5, ReadOrder
<1> QED
  BY <1>1, <1>4, <1>6, TwoParties DEF q

\* The message a read finds is the one its reader waits for.
LEMMA NextMessage ==
    ASSUME KkrtInv, NEW p \in Party, chan[p] # <<>>
    PROVE  /\ \E y \in Int : Carries(p, In(p), Head(chan[p]), y)
           /\ MessageOK(Head(chan[p]))
<1>1. /\ TypeOK /\ InOrder(p) /\ chan[p] \in Seq(InTransit)
      /\ \A m \in InTransit : MessageOK(m)
  BY DEF KkrtInv, TypeOK
<1>2. /\ In(p) \in Nat /\ Out(Peer(p)) \in Nat /\ Len(chan[p]) \in Nat
  BY <1>1, Numbers, TwoParties
<1>3. Len(chan[p]) # 0 /\ Head(chan[p]) = chan[p][1] /\ Head(chan[p]) \in InTransit
  BY <1>1
<1> QED
  BY <1>1, <1>2, <1>3, Between

\* Its number says which it is.
LEMMA WhichMessage ==
    ASSUME TypeOK, NEW p \in Party, NEW m, NEW x \in Int, NEW y, Carries(p, x, m, y)
    PROVE  /\ x < 6 => InitCarries(p, x, m, y)
           /\ \A n \in Nat : x >= 6 * n /\ x < 6 * n + 6 /\ n > 0 =>
                 /\ n \in DOMAIN calls[Peer(p)]
                 /\ IF p = S THEN ToSender(n, x, m, y) ELSE ToReceiver(n, x, m, y)
<1>1. CASE InitCarries(p, x, m, y)
  BY <1>1 DEF InitCarries
<1>2. CASE ~InitCarries(p, x, m, y)
  <2>1. PICK k \in DOMAIN calls[Peer(p)] :
          IF p = S THEN ToSender(k, x, m, y) ELSE ToReceiver(k, x, m, y)
    BY <1>2 DEF Carries
  <2>2. k \in Nat /\ k > 0
    BY SMTT(60), <2>1, Numbers, TwoParties
  <2>3. x >= 6 * k /\ x < 6 * k + 6
    BY <2>1, <2>2 DEF ToSender, ToReceiver
  <2> QED
    BY <2>1, <2>2, <2>3
<1> QED
  BY <1>1, <1>2

\* Types over a step of p.
LEMMA SentType ==
    ASSUME TypeOK, NEW p \in Party, NEW m, MessageOK(m),
           chan' = [chan EXCEPT ![Peer(p)] = Append(@, m)]
    PROVE  chan' \in [Party -> Seq(InTransit')] /\ \A x \in InTransit' : MessageOK(x)
<1>1. PICK T : T = InTransit \cup {m}
  OBVIOUS
<1>2. chan \in [Party -> Seq(InTransit)] /\ \A x \in InTransit : MessageOK(x)
  BY DEF TypeOK
<1>3. \A q \in Party : chan[q] \in Seq(T)
  BY <1>1, <1>2, SeqMonotonic
<1>4. Append(chan[Peer(p)], m) \in Seq(T)
  BY <1>1, <1>3, TwoParties
<1>5. chan' \in [Party -> Seq(T)]
  BY <1>2, <1>3, <1>4
<1> QED
  BY <1>1, <1>2, <1>5, ChannelsType

LEMMA ReadType ==
    ASSUME TypeOK, NEW p \in Party, chan[p] # <<>>,
           chan' = [chan EXCEPT ![p] = Tail(@)]
    PROVE  chan' \in [Party -> Seq(InTransit')] /\ \A x \in InTransit' : MessageOK(x)
<1>1. chan \in [Party -> Seq(InTransit)] /\ \A x \in InTransit : MessageOK(x)
  BY DEF TypeOK
<1>2. Tail(chan[p]) \in Seq(InTransit)
  BY <1>1
<1>3. chan' \in [Party -> Seq(InTransit)]
  BY <1>1, <1>2
<1>4. PICK T : T = InTransit
  OBVIOUS
<1> QED
  BY <1>1, <1>3, <1>4, ChannelsType

LEMMA QuietType ==
    ASSUME TypeOK, chan' = chan
    PROVE  chan' \in [Party -> Seq(InTransit')] /\ \A x \in InTransit' : MessageOK(x)
BY ZenonT(60) DEF TypeOK, InTransit

-----------------------------------------------------------------------------
(* Actions.                                                                *)

\* What the lemmas below start from.
LEMMA Before ==
    ASSUME KkrtInv, NEW p \in Party
    PROVE  /\ TypeOK /\ Control(p) /\ Knows(p) /\ InOrder(p)
           /\ Number(p) \in Nat /\ DOMAIN calls[p] = 1..Number(p)
           /\ results[p] \in Seq(Outcome) /\ calls[p] \in Seq(Inputs)
           /\ sender_obtain_result[p] \in BOOLEAN
           /\ sender_obtain_result[p] = sender_obtain_result[Peer(p)]
           /\ epsilon[p] \in Nat /\ num_of_fun[p] \in Nat /\ remote[p] \in Nat
<1>1. TypeOK /\ Control(p) /\ Knows(p) /\ InOrder(p)
  BY DEF KkrtInv
<1>2. sender_obtain_result[p] = sender_obtain_result[Peer(p)]
  BY TwoParties DEF KkrtInv
<1>3. sender_obtain_result \in [Party -> BOOLEAN]
  BY <1>1, KkrtParamsAssumption DEF TypeOK
<1>4. epsilon[p] \in Nat /\ num_of_fun[p] \in Nat /\ remote[p] \in Nat
  BY <1>1, KkrtParamsAssumption DEF TypeOK
<1> QED
  BY <1>1, <1>2, <1>3, <1>4, Numbers DEF TypeOK

\* The keys of a call.
LEMMA CallKeys ==
    ASSUME TypeOK, NEW p \in Party, NEW n \in DOMAIN calls[p]
    PROVE  /\ calls[p][n] \in Seq(Keys) /\ Len(calls[p][n]) \in Nat \ {0}
           /\ DOMAIN calls[p][n] = 1..Len(calls[p][n])
<1>1. calls[p] \in Seq(Inputs)
  BY DEF TypeOK
<1>2. calls[p][n] \in Inputs
  BY <1>1
<1>3. calls[p][n] \in Seq(Keys) /\ calls[p][n] # <<>>
  BY <1>2, KkrtInputsAssumption
<1> QED
  BY <1>3, LenProperties

\* A call under way has keys.
LEMMA UnderWay ==
    ASSUME KkrtInv, NEW p \in Party, stage[p] \in InCall
    PROVE  /\ Number(p) > 0 /\ Number(p) \in DOMAIN calls[p]
           /\ Number(p) = Len(results[p]) + 1 /\ Len(results[p]) \in Nat
           /\ Current(p) = calls[p][Number(p)]
           /\ Current(p) \in Seq(Keys) /\ Len(Current(p)) \in Nat \ {0}
           /\ DOMAIN Current(p) = 1..Len(Current(p))
<1>1. Number(p) > 0 /\ Number(p) = Len(results[p]) + 1
  BY Before DEF Control
<1>2. Number(p) \in DOMAIN calls[p]
  BY <1>1, Before
<1> QED
  BY <1>1, <1>2, CallKeys, Before, LenProperties DEF Current

\* A step outside the part of a call that has a table.
LEMMA NoTable ==
    ASSUME KkrtInv, NEW p \in Party, UNCHANGED <<stash_size, function_ids, found>>,
           stage[p] \notin {"stash"} \cup Passed, stage'[p] \notin {"stash"} \cup Passed
    PROVE  (p = S => SenderKnows') /\ (p = R => TableOK')
<1>1. p = S => SenderKnows'
  BY DEF SenderKnows, Passed
<1>2. p = R => function_ids = <<>> /\ stash_size = 0 /\ found = {}
  BY DEF KkrtInv, TableOK, Passed, InCall
<1> QED
  BY <1>1, <1>2 DEF TableOK, Passed, InCall

-----------------------------------------------------------------------------
(* Exchanges.                                                              *)

\* A party that writes in an exchange has not written yet.
LEMMA HalfWrites ==
    ASSUME TypeOK, NEW p \in Party, stage[p] \in TwoWay, io[p] = "send", Half(p)
    PROVE  /\ ~HasWritten(p) /\ HasWritten(p)' /\ HasRead(p)' = HasRead(p)
           /\ stage' = stage /\ io' \in [Party -> {"send", "recv", "done", "none"}]
           /\ io'[p] # "none" /\ io'[Peer(p)] = io[Peer(p)]
<1>1. io \in [Party -> {"send", "recv", "done", "none"}]
  BY DEF TypeOK
<1>2. Starts(stage[p], p) \in {"send", "recv"}
  BY DEF Starts, First, Peer, TwoWay, Rest
<1>3. /\ stage' = stage
      /\ io' = [io EXCEPT ![p] = IF Starts(stage[p], p) = "recv" THEN "done" ELSE "recv"]
  BY <1>1, <1>2 DEF Half
<1> QED
  BY <1>1, <1>2, <1>3, TwoParties DEF HasRead, HasWritten

\* A party that reads in an exchange has not read yet.
LEMMA HalfReads ==
    ASSUME TypeOK, NEW p \in Party, stage[p] \in TwoWay, io[p] = "recv", Half(p)
    PROVE  /\ ~HasRead(p) /\ HasRead(p)' /\ HasWritten(p)' = HasWritten(p)
           /\ stage' = stage /\ io' \in [Party -> {"send", "recv", "done", "none"}]
           /\ io'[p] # "none" /\ io'[Peer(p)] = io[Peer(p)]
<1>1. io \in [Party -> {"send", "recv", "done", "none"}]
  BY DEF TypeOK
<1>2. Starts(stage[p], p) \in {"send", "recv"}
  BY DEF Starts, First, Peer, TwoWay, Rest
<1>3. /\ stage' = stage
      /\ io' = [io EXCEPT ![p] = IF Starts(stage[p], p) = "send" THEN "done" ELSE "send"]
  BY <1>1, <1>2 DEF Half
<1> QED
  BY <1>1, <1>2, <1>3, TwoParties DEF HasRead, HasWritten

\* The value a party writes, and the numbers of the message and of the next.
LEMMA Writes ==
    ASSUME KkrtInv, NEW p \in Party, stage[p] \in TwoWay
    PROVE  /\ MessageOK([is |-> stage[p], width |-> Size(stage[p]), value |-> Value(p)])
           /\ stage[p] = "sizes" => Number(p) \in DOMAIN calls[p]
<1>1. stage[p] = "sizes" => Number(p) \in DOMAIN calls[p] /\ Len(Current(p)) \in Nat
  <2>1. SUFFICES ASSUME stage[p] = "sizes"
                 PROVE  Number(p) \in DOMAIN calls[p] /\ Len(Current(p)) \in Nat
    OBVIOUS
  <2>2. Number(p) > 0
    BY <2>1, Before DEF Control, InCall
  <2>3. Number(p) \in DOMAIN calls[p]
    BY <2>2, Before
  <2> QED
    BY <2>3, CallKeys, Before DEF Current
<1>2. Value(p) \in Nat
  BY <1>1, Before DEF Value, Block
<1>3. Size(stage[p]) \in Widths
  BY DEF Size, Width, Word, Widths
<1> QED
  BY <1>1, <1>2, <1>3 DEF MessageOK, TwoWay, OneWay

LEMMA SendValueKeeps ==
    ASSUME KkrtInv, NEW p \in Party, SendValue(p)
    PROVE  KkrtInv'
<1>1. stage[p] \in TwoWay /\ io[p] = "send" /\ Half(p)
  BY DEF SendValue
<1>2. /\ UNCHANGED <<epsilon, num_of_fun, sender_obtain_result, modes, calls, results,
                     remote, common_prng, stash_size, function_ids, found>>
  BY DEF SendValue, config, table
<1>3. PICK m : m = [is |-> stage[p], width |-> Size(stage[p]), value |-> Value(p)]
  OBVIOUS
<1>4. chan' = [chan EXCEPT ![Peer(p)] = Append(@, m)]
  BY <1>3 DEF SendValue, Post
<1>5. /\ ~HasWritten(p) /\ HasWritten(p)' /\ HasRead(p)' = HasRead(p)
      /\ stage' = stage /\ io' \in [Party -> {"send", "recv", "done", "none"}]
      /\ io'[p] # "none" /\ io'[Peer(p)] = io[Peer(p)]
  BY <1>1, HalfWrites, Before
<1>6. Alone(p) /\ NoneGivesUp
  BY <1>2, <1>5, MovesOn DEF Others
<1>7. TypeOK'
  <2>1. chan' \in [Party -> Seq(InTransit')] /\ \A x \in InTransit' : MessageOK(x)
    BY <1>1, <1>3, <1>4, Writes, SentType, Before
  <2>2. (\A x \in InTransit : MessageOK(x))'
    BY <2>1 DEF MessageOK
  <2> QED
    BY <1>2, <1>5, <2>1, <2>2, Before DEF TypeOK
<1>8. Control(p)'
  BY <1>1, <1>2, <1>5, Before DEF Control, Number
<1>9. Knows(p)'
  BY <1>2, <1>5, Before DEF Knows, Number, Block
<1>10. PICK n \in Nat : n = Number(p) /\ n = Number(p)'
  BY <1>2, Before DEF Number
<1>11. In(p)' = In(p)
  BY <1>1, <1>2, <1>5, <1>10 DEF In, TwoWay, InInit
<1>12. \A q \in Party : InOrder(q)'
  <2>1. CASE stage[p] \in InInit
    <3>1. Out(p) = InitId(stage[p]) /\ Out(p)' = AfterInitId(stage[p])
      <4>1. Out(p) = InitId(stage[p])
        BY <1>5, <2>1 DEF Out, InInit, InitId
      <4>2. Out(p)' = AfterInitId(stage[p])
        BY <1>5, <2>1 DEF Out, InInit, AfterInitId
      <4> QED
        BY <4>1, <4>2
    <3>2. PICK high \in Nat, top \in Nat : high = InitId(stage[p]) /\ top = AfterInitId(stage[p])
      BY DEF InitId, AfterInitId
    <3>3. high < top
      BY <3>2 DEF InitId, AfterInitId
    <3>4. m.is = stage[p] /\ m.width = Size(stage[p]) /\ m.value = Value(p)
      BY <1>3
    <3>5. InitCarries(Peer(p), high, m, top)'
      BY <1>2, <2>1, <3>2, <3>4, TwoParties
         DEF InitCarries, Says, InitId, AfterInitId, InInit, Size, Value, Word, Width, Block
    <3> QED
      BY <1>4, <1>6, <1>11, <3>1, <3>2, <3>3, <3>5, SendsOrder DEF Carries
  <2>2. CASE stage[p] = "sizes"
    <3>1. PICK top \in Nat : top = (IF p = S THEN AfterSize(n) ELSE 6 * n + 1)
                             /\ top = (IF p = S THEN AfterSize(n)' ELSE 6 * n + 1)
      BY <1>2 DEF AfterSize, GaveUp
    <3>2. Out(p) = 6 * n /\ Out(p)' = top /\ 6 * n < top /\ 6 * n \in Nat
      BY <1>5, <1>10, <2>2, <3>1 DEF Out, InInit, AfterSize
    <3>3. n \in DOMAIN calls'[p] /\ m.value = Len(calls'[p][n]) /\ m.is = "sizes" /\ m.width = Word
      BY <1>2, <1>3, <1>10, <2>2, Writes DEF TwoWay, Value, Current, Size
    <3>4. CASE p = S
      <4>1. ToReceiver(n, 6 * n, m, top)'
        BY <3>1, <3>3, <3>4 DEF ToReceiver, Says, Word, Width
      <4>2. Carries(Peer(p), 6 * n, m, top)'
        BY <3>3, <3>4, <4>1, TwoParties DEF Carries
      <4> QED
        BY <1>4, <1>6, <1>11, <3>2, <4>2, SendsOrder
    <3>5. CASE p = R
      <4>1. ToSender(n, 6 * n, m, top)'
        BY <3>1, <3>3, <3>5, TwoParties DEF ToSender, Says, Word, Width
      <4>2. Carries(Peer(p), 6 * n, m, top)'
        BY <3>3, <3>5, <4>1, TwoParties DEF Carries
      <4> QED
        BY <1>4, <1>6, <1>11, <3>2, <4>2, SendsOrder
    <3> QED
      BY <3>4, <3>5, TwoParties
  <2> QED
    BY <1>1, <2>1, <2>2 DEF TwoWay, InInit
<1>13. (p = S => SenderKnows') /\ (p = R => TableOK')
  BY <1>1, <1>2, <1>5, NoTable DEF TwoWay, Passed
<1>14. Ended' /\ ResultCorrect'
  BY <1>2, <1>6, ResultsStay
<1> QED
  BY <1>6, <1>7, <1>8, <1>9, <1>12, <1>13, <1>14, Together

\* The call under way at the receiver has not ended.
LEMMA NotGivenUp ==
    ASSUME KkrtInv, stage[R] \in InCall
    PROVE  /\ ~GaveUp(Number(R)) /\ Number(R) \notin DOMAIN results[R]
           /\ Number(R) > 0 /\ Number(R) = Len(results[R]) + 1
<1>1. /\ Number(R) = Len(results[R]) + 1 /\ Number(R) > 0
  BY Before, TwoParties DEF Control
<1>2. DOMAIN results[R] = 1..Len(results[R]) /\ Len(results[R]) \in Nat
  BY Before, Numbers, TwoParties
<1> QED
  BY <1>1, <1>2 DEF GaveUp

\* The value a party reads.
LEMMA Reads ==
    ASSUME KkrtInv, NEW p \in Party, RecvValue(p)
    PROVE  LET q == Peer(p)
               n == Number(p)
               value == Head(chan[p]).value
           IN
           /\ value \in Nat
           /\ stage[p] = "epsilon" => value = epsilon[q]
           /\ stage[p] = "fun_num" => value = num_of_fun[q]
           /\ stage[p] = "seed" => value = Block(q)
           /\ stage[p] = "sizes" => n \in DOMAIN calls[q] /\ value = Len(calls[q][n])
           /\ \A y \in Int : Carries(p, In(p), Head(chan[p]), y) => In(p)' = y
<1> DEFINE q == Peer(p)
<1>1. stage[p] \in TwoWay /\ io[p] = "recv" /\ Half(p) /\ chan[p] # <<>>
  BY DEF RecvValue, Take
<1>2. calls' = calls
  BY DEF RecvValue
<1>3. ~HasRead(p) /\ HasRead(p)' /\ stage' = stage
  BY <1>1, HalfReads, Before
<1>4. PICK m : m = Head(chan[p])
  OBVIOUS
<1>5. (\E y \in Int : Carries(p, In(p), m, y)) /\ MessageOK(m)
  BY <1>1, <1>4, NextMessage
<1>6. PICK n \in Nat : n = Number(p) /\ n = Number(p)'
  BY <1>2, Before DEF Number
<1>7. q \in Party /\ q # p /\ Peer(q) = p
  BY TwoParties
<1>8. CASE stage[p] \in InInit
  <2>1. In(p) = InitId(stage[p])
    BY <1>3, <1>8 DEF In, InInit, InitId
  <2>2. In(p)' = AfterInitId(stage[p])
    BY <1>3, <1>8 DEF In, InInit, AfterInitId
  <2>3. InitId(stage[p]) \in Int /\ InitId(stage[p]) < 6
    BY DEF InitId
  <2>4. \A y : Carries(p, In(p), m, y) => InitCarries(p, InitId(stage[p]), m, y)
    BY <2>1, <2>3, WhichMessage, Before
  <2>5. ASSUME NEW y, InitCarries(p, InitId(stage[p]), m, y)
        PROVE  /\ y = AfterInitId(stage[p])
               /\ stage[p] = "epsilon" => m.value = epsilon[q]
               /\ stage[p] = "fun_num" => m.value = num_of_fun[q]
               /\ stage[p] = "seed" => m.value = Block(q)
               /\ m.is = stage[p]
    BY <1>8, <2>5 DEF InitCarries, Says, InitId, AfterInitId, InInit
  <2>6. m.value \in Nat
    BY <1>5, <1>8, <2>4, <2>5 DEF MessageOK, InInit
  <2> QED
    BY <1>4, <1>5, <1>8, <2>2, <2>4, <2>5, <2>6 DEF InInit
<1>9. CASE stage[p] = "sizes"
  <2>1. In(p) = 6 * n /\ n > 0
    BY <1>3, <1>6, <1>9, Before DEF In, InInit, Control, InCall
  <2>2. In(p)' = IF p = S THEN 6 * n + 1 ELSE 6 * n + 3
    BY <1>3, <1>6, <1>9 DEF In, InInit
  <2>3. \A y : Carries(p, In(p), m, y) =>
                  /\ n \in DOMAIN calls[q]
                  /\ IF p = S THEN ToSender(n, 6 * n, m, y) ELSE ToReceiver(n, 6 * n, m, y)
    <3>1. PICK x \in Int : x = 6 * n
      OBVIOUS
    <3>2. x >= 6 * n /\ x < 6 * n + 6
      BY <3>1
    <3>3. \A y : Carries(p, x, m, y) =>
                  /\ n \in DOMAIN calls[q]
                  /\ IF p = S THEN ToSender(n, x, m, y) ELSE ToReceiver(n, x, m, y)
      BY <2>1, <3>2, WhichMessage, Before
    <3> QED
      BY <2>1, <3>1, <3>3
  <2>4. p # S => AfterSize(n) = 6 * n + 3
    <3>1. SUFFICES ASSUME p = R PROVE ~GaveUp(n)
      BY TwoParties DEF AfterSize
    <3> QED
      BY <1>6, <1>9, <3>1, NotGivenUp DEF InCall
  <2>5. ASSUME NEW y, IF p = S THEN ToSender(n, 6 * n, m, y) ELSE ToReceiver(n, 6 * n, m, y)
        PROVE  y = In(p)' /\ m.is = "sizes" /\ m.value = Len(calls[q][n])
    <3>1. CASE p = S
      <4>1. ToSender(n, 6 * n, m, y) /\ q = R
        BY <2>5, <3>1, TwoParties
      <4> QED
        BY <2>2, <3>1, <4>1 DEF ToSender, Says
    <3>2. CASE p # S
      <4>1. ToReceiver(n, 6 * n, m, y) /\ q = S
        BY <2>5, <3>2, TwoParties
      <4> QED
        BY <2>2, <2>4, <3>2, <4>1 DEF ToReceiver, Says
    <3> QED
      BY <3>1, <3>2
  <2>6. m.value \in Nat
    BY <1>5, <2>3, <2>5 DEF MessageOK
  <2> QED
    BY <1>4, <1>5, <1>6, <1>9, <2>3, <2>5, <2>6
<1> QED
  BY <1>1, <1>8, <1>9 DEF TwoWay, InInit

LEMMA RecvValueKeeps ==
    ASSUME KkrtInv, NEW p \in Party, RecvValue(p)
    PROVE  KkrtInv'
<1>1. stage[p] \in TwoWay /\ io[p] = "recv" /\ Half(p) /\ chan[p] # <<>>
  BY DEF RecvValue, Take
<1>2. /\ UNCHANGED <<epsilon, num_of_fun, sender_obtain_result, modes, calls, results,
                     common_prng, stash_size, function_ids, found>>
      /\ chan' = [chan EXCEPT ![p] = Tail(@)]
      /\ remote' = [remote EXCEPT ![p] = Head(chan[p]).value]
  BY DEF RecvValue, Take, config, table
<1>3. PICK value \in Nat : value = Head(chan[p]).value
  BY Reads
<1>4. remote' \in [Party -> Nat] /\ remote'[p] = value /\ remote'[Peer(p)] = remote[Peer(p)]
  BY <1>2, <1>3, Before, TwoParties DEF TypeOK
<1>5. /\ HasRead(p)' /\ HasWritten(p)' = HasWritten(p)
      /\ stage' = stage /\ io' \in [Party -> {"send", "recv", "done", "none"}]
      /\ io'[p] # "none" /\ io'[Peer(p)] = io[Peer(p)]
  BY <1>1, HalfReads, Before
<1>6. Alone(p) /\ NoneGivesUp
  BY <1>2, <1>4, <1>5, MovesOn DEF Others
<1>7. TypeOK'
  <2>1. chan' \in [Party -> Seq(InTransit')] /\ \A x \in InTransit' : MessageOK(x)
    BY <1>1, <1>2, ReadType, Before
  <2>2. (\A x \in InTransit : MessageOK(x))'
    BY <2>1 DEF MessageOK
  <2> QED
    BY <1>2, <1>4, <1>5, <2>1, <2>2, Before DEF TypeOK
<1>8. Control(p)'
  BY <1>1, <1>2, <1>5, Before DEF Control, Number
<1>9. Knows(p)'
  <2>1. /\ epsilon' = epsilon /\ num_of_fun' = num_of_fun /\ calls' = calls
        /\ Number(p)' = Number(p) /\ stage'[p] = stage[p] /\ Knows(p)
    BY <1>2, <1>5, Before DEF Number
  <2> QED
    BY <1>1, <1>3, <1>4, <2>1, Reads DEF Knows, Block, TwoWay
<1>10. PICK n \in Nat : n = Number(p) /\ n = Number(p)'
  BY <1>2, Before DEF Number
<1>11. Out(p)' = Out(p)
  BY <1>1, <1>2, <1>5, <1>10 DEF Out, TwoWay, InInit, AfterSize, GaveUp
<1>12. \A q \in Party : InOrder(q)'
  BY <1>1, <1>2, <1>6, <1>11, Reads, ReadsOrder
<1>13. (p = S => SenderKnows') /\ (p = R => TableOK')
  BY <1>1, <1>2, <1>5, NoTable DEF TwoWay, Passed
<1>14. Ended' /\ ResultCorrect'
  BY <1>2, <1>6, ResultsStay
<1> QED
  BY <1>6, <1>7, <1>8, <1>9, <1>12, <1>13, <1>14, Together

-----------------------------------------------------------------------------
(* init, and what a party does without the network.                        *)

\* A party enters a stage with its exchange, if it has one, still to come.
LEMMA Entered ==
    ASSUME TypeOK, NEW p \in Party, NEW s \in TwoWay \cup OneWay \cup Rest, Enter(p, s)
    PROVE  /\ stage' \in [Party -> TwoWay \cup OneWay \cup Rest]
           /\ io' \in [Party -> {"send", "recv", "done", "none"}]
           /\ stage'[p] = s /\ stage'[Peer(p)] = stage[Peer(p)]
           /\ io'[p] = Starts(s, p) /\ io'[Peer(p)] = io[Peer(p)]
           /\ s \in TwoWay => io'[p] # "none"
           /\ ~HasRead(p)' /\ ~HasWritten(p)'
<1>1. Starts(s, p) \in {"send", "recv", "none"} /\ (s \in TwoWay => Starts(s, p) # "none")
  BY DEF Starts, First, TwoWay, Rest
<1>2. stage' = [stage EXCEPT ![p] = s] /\ io' = [io EXCEPT ![p] = Starts(s, p)]
  BY DEF Enter
<1>3. /\ stage'[p] = s /\ stage'[Peer(p)] = stage[Peer(p)]
      /\ io'[p] = Starts(s, p) /\ io'[Peer(p)] = io[Peer(p)]
      /\ stage' \in [Party -> TwoWay \cup OneWay \cup Rest]
      /\ io' \in [Party -> {"send", "recv", "done", "none"}]
  BY <1>1, <1>2, TwoParties DEF TypeOK
<1>4. ~HasRead(p)' /\ ~HasWritten(p)'
  BY <1>1, <1>3 DEF HasRead, HasWritten
<1> QED
  BY <1>1, <1>3, <1>4

\* Control in init, and after it.
LEMMA InitControl ==
    ASSUME KkrtInv, NEW p \in Party, stage[p] \in InInit
    PROVE  /\ Number(p) = 0 /\ Len(results[p]) = 0
           /\ common_prng[p] = [seed |-> IF stage[p] = "base_ot" THEN {1, 2} ELSE {},
                               draws |-> 0]
<1>1. Number(p) = 0
  BY Before DEF Control
<1>2. Number(p) = Len(results[p])
  <2>1. Number(p) = Len(results[p]) + 0
    BY Before DEF Control, InInit, InCall
  <2> QED
    BY <2>1, Before, LenProperties
<1>3. common_prng[p] = [seed |-> IF stage[p] = "base_ot" THEN {1, 2} ELSE {},
                        draws |-> Number(p)]
  BY Before DEF Control, InInit
<1> QED
  BY <1>1, <1>2, <1>3

LEMMA ControlAfterInit ==
    ASSUME KkrtInv, NEW p \in Party, stage[p] \in InInit,
           UNCHANGED <<calls, results>>, NEW s, stage'[p] = s,
           s \in {"fun_num", "seed", "base_ot", "idle", "threw"},
           io'[p] = Starts(s, p),
           common_prng'[p] = [seed |-> IF s \in {"base_ot", "idle"} THEN {1, 2} ELSE {},
                              draws |-> 0]
    PROVE  Control(p)'
<1>1. Number(p)' = 0 /\ Len(results[p])' = 0
  BY InitControl DEF Number
<1>2. IF s \in TwoWay THEN Starts(s, p) # "none" ELSE TRUE
  BY DEF Starts, First, TwoWay, Rest
<1>3. Number(p)' = Len(results[p])' + (IF stage'[p] \in InCall THEN 1 ELSE 0)
  BY <1>1 DEF InCall
<1>4. common_prng'[p] =
         [seed |-> IF stage'[p] \in {"epsilon", "fun_num", "seed", "threw"}
                   THEN {} ELSE {1, 2},
          draws |-> IF stage'[p] = "sizes" THEN Number(p)' - 1 ELSE Number(p)']
  BY <1>1
<1>5. 0 <= MaxCalls
  BY KkrtBoundsAssumption
<1> QED
  BY <1>1, <1>2, <1>3, <1>4, <1>5 DEF Control, InInit, InCall, TwoWay

\* A step of init that touches neither the network nor the calls.
LEMMA InitStepKeeps ==
    ASSUME KkrtInv, NEW p \in Party, stage[p] \in InInit, io[p] = "done",
           NEW s \in {"fun_num", "seed", "base_ot", "idle", "threw"}, Enter(p, s),
           UNCHANGED <<epsilon, num_of_fun, sender_obtain_result, modes, calls, results,
                       remote, stash_size, function_ids, found, chan>>,
           common_prng' \in [Party -> Prng],
           common_prng'[Peer(p)] = common_prng[Peer(p)],
           Control(p)', Knows(p)', In(p)' = In(p), Out(p)' = Out(p)
    PROVE  KkrtInv'
<1>1. /\ stage' \in [Party -> TwoWay \cup OneWay \cup Rest]
      /\ io' \in [Party -> {"send", "recv", "done", "none"}]
      /\ stage'[p] = s /\ stage'[Peer(p)] = stage[Peer(p)]
      /\ io'[Peer(p)] = io[Peer(p)]
  BY Entered, Before DEF TwoWay, OneWay, Rest
<1>2. Alone(p) /\ NoneGivesUp
  BY <1>1, MovesOn DEF Others, InInit, Passed
<1>3. TypeOK'
  <2>1. chan' \in [Party -> Seq(InTransit')] /\ \A x \in InTransit' : MessageOK(x)
    BY QuietType, Before
  <2>2. (\A x \in InTransit : MessageOK(x))'
    BY <2>1 DEF MessageOK
  <2> QED
    BY <1>1, <2>1, <2>2, Before DEF TypeOK
<1>4. \A q \in Party : InOrder(q)'
  BY <1>2, QuietOrder
<1>5. (p = S => SenderKnows') /\ (p = R => TableOK')
  BY <1>1, NoTable DEF InInit, Passed
<1>6. Ended' /\ ResultCorrect'
  BY <1>2, ResultsStay
<1> QED
  BY <1>2, <1>3, <1>4, <1>5, <1>6, Together

LEMMA CheckEpsilonKeeps ==
    ASSUME KkrtInv, NEW p \in Party, CheckEpsilon(p)
    PROVE  KkrtInv'
<1>1. PICK s : s = IF epsilon[p] = remote[p] THEN "fun_num" ELSE "threw"
  OBVIOUS
<1>2. /\ stage[p] = "epsilon" /\ io[p] = "done" /\ Enter(p, s)
      /\ UNCHANGED <<epsilon, num_of_fun, sender_obtain_result, modes, calls, results,
                     remote, common_prng, stash_size, function_ids, found, chan>>
  BY <1>1 DEF CheckEpsilon, At, config, table
<1>3. s \in TwoWay \cup OneWay \cup Rest
  BY <1>1 DEF TwoWay, Rest
<1>4. /\ stage'[p] = s /\ io'[p] = Starts(s, p)
      /\ s \in TwoWay => io'[p] # "none"
      /\ ~HasRead(p)' /\ ~HasWritten(p)'
  BY <1>2, <1>3, Entered, Before
<1>5. remote[p] = epsilon[Peer(p)]
  BY <1>2, Before DEF Knows, HasRead
<1>7. Control(p)'
  BY <1>1, <1>2, <1>4, InitControl, ControlAfterInit DEF InInit
<1>8. Knows(p)'
  BY <1>1, <1>2, <1>4, <1>5, Before DEF Knows
<1>9. In(p)' = In(p) /\ Out(p)' = Out(p)
  <2>1. In(p) = 2 /\ Out(p) = 2
    BY <1>2 DEF In, Out, InInit, HasRead, HasWritten, AfterInitId
  <2>2. s = "threw" => ThrewId' = 2
    BY <1>1, <1>2, <1>5, TwoParties DEF ThrewId
  <2>3. In(p)' = 2
    BY <1>1, <1>4, <2>2 DEF In, InInit, InitId
  <2>4. Out(p)' = 2
    BY <1>1, <1>4, <2>2 DEF Out, InInit, InitId
  <2> QED
    BY <2>1, <2>3, <2>4
<1> QED
  BY <1>1, <1>2, <1>7, <1>8, <1>9, InitStepKeeps, Before DEF TypeOK, InInit

LEMMA CheckFunNumKeeps ==
    ASSUME KkrtInv, NEW p \in Party, CheckFunNum(p)
    PROVE  KkrtInv'
<1>1. PICK s : s = IF num_of_fun[p] = remote[p] THEN "seed" ELSE "threw"
  OBVIOUS
<1>2. /\ stage[p] = "fun_num" /\ io[p] = "done" /\ Enter(p, s)
      /\ UNCHANGED <<epsilon, num_of_fun, sender_obtain_result, modes, calls, results,
                     remote, common_prng, stash_size, function_ids, found, chan>>
  BY <1>1 DEF CheckFunNum, At, config, table
<1>3. s \in TwoWay \cup OneWay \cup Rest
  BY <1>1 DEF TwoWay, Rest
<1>4. /\ stage'[p] = s /\ io'[p] = Starts(s, p)
      /\ s \in TwoWay => io'[p] # "none"
      /\ ~HasRead(p)' /\ ~HasWritten(p)'
  BY <1>2, <1>3, Entered, Before
<1>5. remote[p] = num_of_fun[Peer(p)] /\ epsilon[p] = epsilon[Peer(p)]
  BY <1>2, Before DEF Knows, HasRead
<1>7. Control(p)'
  BY <1>1, <1>2, <1>4, InitControl, ControlAfterInit DEF InInit
<1>8. Knows(p)'
  BY <1>1, <1>2, <1>4, <1>5, Before DEF Knows
<1>9. In(p)' = In(p) /\ Out(p)' = Out(p)
  <2>1. In(p) = 3 /\ Out(p) = 3
    BY <1>2 DEF In, Out, InInit, HasRead, HasWritten, AfterInitId
  <2>2. ThrewId' = 3
    BY <1>2, <1>5, TwoParties DEF ThrewId
  <2>3. In(p)' = 3
    BY <1>1, <1>4, <2>2 DEF In, InInit, InitId
  <2>4. Out(p)' = 3
    BY <1>1, <1>4, <2>2 DEF Out, InInit, InitId
  <2> QED
    BY <2>1, <2>3, <2>4
<1> QED
  BY <1>1, <1>2, <1>7, <1>8, <1>9, InitStepKeeps, Before DEF TypeOK, InInit

LEMMA CreateCommonPrngKeeps ==
    ASSUME KkrtInv, NEW p \in Party, CreateCommonPrng(p)
    PROVE  KkrtInv'
<1>1. /\ stage[p] = "seed" /\ io[p] = "done" /\ Enter(p, "base_ot")
      /\ UNCHANGED <<epsilon, num_of_fun, sender_obtain_result, modes, calls, results,
                     remote, stash_size, function_ids, found, chan>>
      /\ common_prng' = [common_prng EXCEPT ![p].seed = {Block(p), remote[p]}]
  BY DEF CreateCommonPrng, At, config, table
<1>2. /\ stage'[p] = "base_ot" /\ io'[p] = Starts("base_ot", p) /\ io'[p] # "none"
      /\ ~HasRead(p)' /\ ~HasWritten(p)'
  BY <1>1, Entered, Before DEF TwoWay
<1>3. remote[p] = Block(Peer(p))
  BY <1>1, Before DEF Knows, HasRead
<1>4. {Block(p), remote[p]} = {1, 2}
  BY <1>3, TwoParties DEF Block, S, R
<1>6. common_prng \in [Party -> Prng] /\ common_prng[p] = [seed |-> {}, draws |-> 0]
  BY <1>1, InitControl, Before DEF InInit, TypeOK
<1>7. /\ common_prng'[p] = [seed |-> {1, 2}, draws |-> 0]
      /\ common_prng'[Peer(p)] = common_prng[Peer(p)]
      /\ common_prng' \in [Party -> Prng]
  <2>1. common_prng'[p] = [seed |-> {1, 2}, draws |-> 0]
    BY <1>1, <1>4, <1>6
  <2>2. [seed |-> {1, 2}, draws |-> 0] \in Prng
    BY DEF Prng
  <2>3. common_prng'[Peer(p)] = common_prng[Peer(p)]
    BY <1>1, <1>6, TwoParties
  <2>4. common_prng' \in [Party -> Prng]
    <3>1. \A q \in Party : common_prng'[q] \in Prng
      BY <1>6, <2>1, <2>2, <2>3, TwoParties
    <3>2. common_prng' = [q \in Party |-> common_prng'[q]]
      BY <1>1, <1>6
    <3> QED
      BY <3>1, <3>2
  <2> QED
    BY <2>1, <2>3, <2>4
<1>8. Control(p)'
  BY <1>1, <1>2, <1>7, ControlAfterInit DEF InInit
<1>9. Knows(p)'
  BY <1>1, <1>2, Before DEF Knows
<1>10. In(p)' = In(p) /\ Out(p)' = Out(p)
  <2>1. In(p) = 4 /\ Out(p) = 4
    BY <1>1 DEF In, Out, InInit, HasRead, HasWritten, AfterInitId
  <2>2. In(p)' = 4
    BY <1>2 DEF In, InInit, InitId
  <2>3. Out(p)' = 4
    BY <1>2 DEF Out, InInit, InitId
  <2> QED
    BY <2>1, <2>2, <2>3
<1> QED
  BY <1>1, <1>7, <1>8, <1>9, <1>10, InitStepKeeps DEF InInit

LEMMA FinishInitKeeps ==
    ASSUME KkrtInv, NEW p \in Party, FinishInit(p)
    PROVE  KkrtInv'
<1>1. /\ stage[p] = "base_ot" /\ io[p] = "done" /\ Enter(p, "idle")
      /\ UNCHANGED <<epsilon, num_of_fun, sender_obtain_result, modes, calls, results,
                     remote, common_prng, stash_size, function_ids, found, chan>>
  BY DEF FinishInit, At, config, table
<1>2. /\ stage'[p] = "idle" /\ io'[p] = Starts("idle", p)
      /\ ~HasRead(p)' /\ ~HasWritten(p)'
  BY <1>1, Entered, Before DEF Rest
<1>3. Number(p)' = 0
  BY <1>1, InitControl DEF InInit, Number
<1>4. Control(p)'
  BY <1>1, <1>2, InitControl, ControlAfterInit DEF InInit
<1>5. Knows(p)'
  BY <1>1, <1>2, Before DEF Knows
<1>6. In(p)' = In(p) /\ Out(p)' = Out(p)
  <2>1. In(p) = 6 /\ Out(p) = 6
    BY <1>1 DEF In, Out, InInit, HasRead, HasWritten, AfterInitId
  <2>2. In(p)' = 6
    BY <1>2, <1>3 DEF In, InInit
  <2>3. Out(p)' = 6
    BY <1>2, <1>3 DEF Out, InInit
  <2> QED
    BY <2>1, <2>2, <2>3
<1> QED
  BY <1>1, <1>4, <1>5, <1>6, InitStepKeeps, Before DEF TypeOK, InInit

LEMMA ProcessKeeps ==
    ASSUME KkrtInv, NEW p \in Party, Process(p)
    PROVE  KkrtInv'
<1>1. PICK keys \in Inputs : calls' = [calls EXCEPT ![p] = Append(@, keys)]
  BY DEF Process
<1>2. /\ stage[p] = "idle" /\ Number(p) < MaxCalls /\ Enter(p, "sizes")
      /\ UNCHANGED <<epsilon, num_of_fun, sender_obtain_result, modes, results,
                     remote, common_prng, stash_size, function_ids, found, chan>>
  BY DEF Process, config, table
<1>3. /\ stage' \in [Party -> TwoWay \cup OneWay \cup Rest]
      /\ io' \in [Party -> {"send", "recv", "done", "none"}]
      /\ stage'[p] = "sizes" /\ stage'[Peer(p)] = stage[Peer(p)]
      /\ io'[p] # "none" /\ io'[Peer(p)] = io[Peer(p)]
      /\ ~HasRead(p)' /\ ~HasWritten(p)'
  BY <1>2, Entered, Before DEF TwoWay
<1>4. calls \in [Party -> Seq(Inputs)]
  BY Before DEF TypeOK
<1>5. /\ calls'[p] = Append(calls[p], keys) /\ calls'[Peer(p)] = calls[Peer(p)]
      /\ calls' \in [Party -> Seq(Inputs)]
  BY <1>1, <1>4, TwoParties
<1>6. Alone(p) /\ NoneGivesUp
  BY <1>2, <1>3, <1>5, CallStarts DEF Others
<1>7. TypeOK'
  <2>1. chan' \in [Party -> Seq(InTransit')] /\ \A x \in InTransit' : MessageOK(x)
    BY <1>2, QuietType, Before
  <2>2. (\A x \in InTransit : MessageOK(x))'
    BY <2>1 DEF MessageOK
  <2> QED
    BY <1>2, <1>3, <1>5, <2>1, <2>2, Before DEF TypeOK
<1>8. PICK n \in Nat : n = Number(p)
  BY Before
<1>9. Number(p)' = n + 1
  BY <1>4, <1>5, <1>8 DEF Number
<1>10. Control(p)'
  <2>1. n = Len(results[p]) /\ Len(results[p]) \in Nat
    <3>1. n = Len(results[p]) + 0 /\ Len(results[p]) \in Nat
      BY <1>2, <1>8, Before, LenProperties DEF Control, InCall
    <3> QED
      BY <3>1
  <2>2. common_prng[p] = [seed |-> {1, 2}, draws |-> n]
    BY <1>2, <1>8, Before DEF Control
  <2>3. Number(p)' = Len(results[p])' + (IF stage'[p] \in InCall THEN 1 ELSE 0)
    BY <1>2, <1>3, <1>9, <2>1 DEF InCall
  <2>4. common_prng'[p] =
           [seed |-> IF stage'[p] \in {"epsilon", "fun_num", "seed", "threw"}
                     THEN {} ELSE {1, 2},
            draws |-> IF stage'[p] = "sizes" THEN Number(p)' - 1 ELSE Number(p)']
    BY <1>2, <1>3, <1>9, <2>2
  <2>5. Number(p)' <= MaxCalls /\ Number(p)' > 0
    BY <1>2, <1>8, <1>9, KkrtBoundsAssumption
  <2> QED
    BY <1>3, <2>3, <2>4, <2>5 DEF Control, InInit, InCall, TwoWay
<1>11. Knows(p)'
  BY <1>2, <1>3, Before DEF Knows
<1>12. \A q \in Party : InOrder(q)'
  <2>1. In(p) = 6 * n + 6 /\ Out(p) = 6 * n + 6
    BY <1>2, <1>8 DEF In, Out, InInit
  <2>2. In(p)' = 6 * (n + 1) /\ Out(p)' = 6 * (n + 1)
    BY <1>3, <1>9 DEF In, Out, InInit
  <2> QED
    BY <1>2, <1>6, <2>1, <2>2, QuietOrder
<1>13. (p = S => SenderKnows') /\ (p = R => TableOK')
  BY <1>2, <1>3, NoTable DEF Passed
<1>14. Ended' /\ ResultCorrect'
  BY <1>2, <1>6, ResultsStay
<1> QED
  BY <1>6, <1>7, <1>10, <1>11, <1>12, <1>13, <1>14, Together

\* A party draws the seed of its table.
LEMMA Drawn ==
    ASSUME KkrtInv, NEW p \in Party, At(p, "sizes", "done"), Draw(p), Enter(p, "stash"),
           UNCHANGED <<epsilon, num_of_fun, modes, sender_obtain_result, calls, results,
                       remote, chan>>,
           p = S => UNCHANGED <<stash_size, function_ids, found>>
    PROVE  /\ Alone(p) /\ NoneGivesUp /\ Control(p)' /\ Knows(p)'
           /\ stage' \in [Party -> TwoWay \cup OneWay \cup Rest] /\ stage'[p] = "stash"
           /\ io' \in [Party -> {"send", "recv", "done", "none"}]
           /\ common_prng' \in [Party -> Prng]
           /\ \A q \in Party : InOrder(q)'
           /\ Ended' /\ ResultCorrect'
<1>1. stage[p] = "sizes" /\ io[p] = "done"
  BY DEF At
<1>2. /\ stage' \in [Party -> TwoWay \cup OneWay \cup Rest]
      /\ io' \in [Party -> {"send", "recv", "done", "none"}]
      /\ stage'[p] = "stash" /\ stage'[Peer(p)] = stage[Peer(p)]
      /\ io'[p] = Starts("stash", p) /\ io'[Peer(p)] = io[Peer(p)]
      /\ ~HasRead(p)' /\ ~HasWritten(p)'
  BY Entered, Before DEF OneWay
<1>3. PICK n \in Nat : n = Number(p) /\ n = Number(p)'
  BY Before DEF Number
<1>4. common_prng \in [Party -> Prng] /\ common_prng[p] = [seed |-> {1, 2}, draws |-> n - 1]
  BY <1>1, <1>3, Before DEF Control, TypeOK
<1>5. /\ common_prng'[p] = [seed |-> {1, 2}, draws |-> n]
      /\ common_prng'[Peer(p)] = common_prng[Peer(p)]
      /\ common_prng' \in [Party -> Prng]
  <2>1. common_prng' = [common_prng EXCEPT ![p].draws = @ + 1]
    BY DEF Draw
  <2>2. common_prng'[p] = [seed |-> {1, 2}, draws |-> n]
    <3>1. PICK d \in Int : d = n - 1
      OBVIOUS
    <3>2. common_prng[p] = [seed |-> {1, 2}, draws |-> d] /\ d + 1 = n
      BY <1>4, <3>1
    <3>3. common_prng'[p] = [seed |-> {1, 2}, draws |-> d + 1]
      BY <1>4, <2>1, <3>2
    <3> QED
      BY <3>2, <3>3
  <2>3. [seed |-> {1, 2}, draws |-> n] \in Prng
    BY DEF Prng
  <2>4. common_prng'[Peer(p)] = common_prng[Peer(p)]
    BY <1>4, <2>1, TwoParties
  <2>5. \A q \in Party : common_prng'[q] \in Prng
    BY <1>4, <2>2, <2>3, <2>4, TwoParties
  <2>6. common_prng' = [q \in Party |-> common_prng'[q]]
    BY <1>4, <2>1
  <2> QED
    BY <2>2, <2>4, <2>5, <2>6
<1>6. Alone(p) /\ NoneGivesUp
  BY <1>1, <1>2, <1>5, MovesOn DEF Others, Passed
<1>7. Control(p)'
  <2>1. /\ n > 0 /\ n <= MaxCalls
        /\ n = Len(results[p]) + (IF stage'[p] \in InCall THEN 1 ELSE 0)
    BY <1>1, <1>2, <1>3, Before DEF Control, InCall
  <2>2. common_prng'[p] =
           [seed |-> IF stage'[p] \in {"epsilon", "fun_num", "seed", "threw"}
                     THEN {} ELSE {1, 2},
            draws |-> IF stage'[p] = "sizes" THEN Number(p)' - 1 ELSE Number(p)']
    BY <1>2, <1>3, <1>5
  <2> QED
    BY <1>2, <1>3, <2>1, <2>2 DEF Control, InInit, InCall, TwoWay
<1>8. Knows(p)'
  BY <1>1, <1>2, Before DEF Knows, HasRead, Number
<1>9. In(p)' = In(p) /\ Out(p)' = Out(p)
  <2>1. AfterSize(n)' = AfterSize(n)
    BY DEF AfterSize, GaveUp
  <2>2. HasRead(p) /\ HasWritten(p)
    BY <1>1 DEF HasRead, HasWritten
  <2>3. In(p)' = In(p)
    BY <1>1, <1>2, <1>3, <2>2 DEF In, InInit
  <2>4. Out(p)' = Out(p)
    BY <1>1, <1>2, <1>3, <2>1, <2>2 DEF Out, InInit
  <2> QED
    BY <2>3, <2>4
<1>10. \A q \in Party : InOrder(q)'
  BY <1>6, <1>9, QuietOrder
<1>11. Ended' /\ ResultCorrect'
  BY <1>6, ResultsStay
<1> QED
  BY <1>2, <1>5, <1>6, <1>7, <1>8, <1>10, <1>11

LEMMA SimpleHashKeeps ==
    ASSUME KkrtInv, SimpleHash
    PROVE  KkrtInv'
<1>1. /\ At(S, "sizes", "done") /\ Draw(S) /\ Enter(S, "stash")
      /\ UNCHANGED <<epsilon, num_of_fun, modes, sender_obtain_result, calls, results,
                     remote, chan, stash_size, function_ids, found>>
  BY DEF SimpleHash, S, config, table
<1>2. /\ Alone(S) /\ NoneGivesUp /\ Control(S)' /\ Knows(S)'
      /\ stage' \in [Party -> TwoWay \cup OneWay \cup Rest] /\ stage'[S] = "stash"
      /\ io' \in [Party -> {"send", "recv", "done", "none"}]
      /\ common_prng' \in [Party -> Prng]
      /\ \A q \in Party : InOrder(q)'
      /\ Ended' /\ ResultCorrect'
  BY <1>1, Drawn, TwoParties
<1>3. TypeOK'
  <2>1. chan' \in [Party -> Seq(InTransit')] /\ \A x \in InTransit' : MessageOK(x)
    BY <1>1, QuietType DEF KkrtInv
  <2>2. (\A x \in InTransit : MessageOK(x))'
    BY <2>1 DEF MessageOK
  <2> QED
    BY <1>1, <1>2, <2>1, <2>2 DEF KkrtInv, TypeOK
<1>4. SenderKnows'
  BY <1>2 DEF SenderKnows
<1> QED
  BY <1>2, <1>3, <1>4, Together, TwoParties

\* A placement puts every key by some function.
LEMMA PlacementType ==
    ASSUME NEW keys \in Seq(Keys), NEW functions \in Nat, NEW bins,
           NEW placed \in Placements(keys, functions, bins)
    PROVE  placed \in [1..Len(keys) -> 1..functions] /\ placed \in Seq(Nat)
<1>1. placed \in [1..Len(keys) -> 1..functions]
  BY DEF Placements
<1>2. Len(keys) \in Nat /\ 1..functions \subseteq Nat
  BY LenProperties
<1>3. placed \in Seq(1..functions)
  BY <1>1, <1>2
<1> QED
  BY <1>1, <1>2, <1>3, SeqMonotonic

LEMMA CuckooHashKeeps ==
    ASSUME KkrtInv, CuckooHash
    PROVE  KkrtInv'
<1>1. /\ At(R, "sizes", "done") /\ Draw(R) /\ Enter(R, "stash") /\ found' = found
      /\ UNCHANGED <<epsilon, num_of_fun, modes, sender_obtain_result, calls, results,
                     remote, chan>>
      /\ \/ /\ function_ids' \in Placements(Current(R), num_of_fun[R], Bins(R))
            /\ stash_size' = 0
         \/ stash_size' = 1 /\ function_ids' = <<>>
  BY DEF CuckooHash, R, config
<1>2. /\ Alone(R) /\ NoneGivesUp /\ Control(R)' /\ Knows(R)'
      /\ stage' \in [Party -> TwoWay \cup OneWay \cup Rest] /\ stage'[R] = "stash"
      /\ io' \in [Party -> {"send", "recv", "done", "none"}]
      /\ common_prng' \in [Party -> Prng]
      /\ \A q \in Party : InOrder(q)'
      /\ Ended' /\ ResultCorrect'
  BY <1>1, Drawn, TwoParties
<1>3. Current(R) \in Seq(Keys) /\ num_of_fun[R] \in Nat
  BY <1>1, UnderWay, Before, TwoParties DEF At, InCall
<1>4. found = {}
  BY <1>1 DEF KkrtInv, TableOK, At
<1>5. function_ids' \in Seq(Nat) /\ stash_size' \in Nat
  <2>1. CASE stash_size' = 0 /\ function_ids' \in Placements(Current(R), num_of_fun[R], Bins(R))
    BY <1>3, <2>1, PlacementType
  <2>2. CASE stash_size' = 1 /\ function_ids' = <<>>
    BY <2>2
  <2> QED
    BY <1>1, <2>1, <2>2
<1>6. TypeOK'
  <2>1. chan' \in [Party -> Seq(InTransit')] /\ \A x \in InTransit' : MessageOK(x)
    BY <1>1, QuietType DEF KkrtInv
  <2>2. (\A x \in InTransit : MessageOK(x))'
    BY <2>1 DEF MessageOK
  <2>3. found' \subseteq 1..Len(function_ids')
    BY <1>1, <1>4
  <2> QED
    BY <1>1, <1>2, <1>5, <2>1, <2>2, <2>3 DEF KkrtInv, TypeOK
<1>7. TableOK'
  <2>1. Current(R)' = Current(R) /\ Bins(R)' = Bins(R) /\ num_of_fun' = num_of_fun
    BY <1>1 DEF Current, Bins, ReceiverSize, Number
  <2> QED
    BY <1>1, <1>2, <1>4, <2>1 DEF TableOK, InCall
<1> QED
  BY <1>2, <1>6, <1>7, Together, TwoParties

-----------------------------------------------------------------------------
(* The rest of a call.                                                     *)

\* A result is not an exception, and it is typed.
LEMMA ReturnedType ==
    ASSUME NEW keys \in Seq(Keys), NEW count \in Nat
    PROVE  Returned(keys, count) \in Outcome /\ Returned(keys, count) # Threw
<1>1. Returned(keys, count) \in [keys : Seq(Keys), count : Nat]
  BY DEF Returned
<1>2. "threw" \in DOMAIN Threw /\ "threw" \notin DOMAIN Returned(keys, count)
  BY DEF Threw, Returned
<1> QED
  BY <1>1, <1>2 DEF Outcome

\* The keys of the receiver that the sender has too.
LEMMA CommonType ==
    ASSUME TypeOK, NEW n \in DOMAIN calls[R]
    PROVE  /\ Common(n) \subseteq DOMAIN calls[R][n]
           /\ Cardinality(Common(n)) \in Nat
           /\ Pick(calls[R][n], Common(n)) \in Seq(Keys)
           /\ Len(Pick(calls[R][n], Common(n))) = Cardinality(Common(n))
<1>1. Common(n) \subseteq DOMAIN calls[R][n]
  BY DEF Common, R
<1>2. calls[R][n] \in Seq(Keys)
  BY CallKeys, TwoParties
<1> QED
  BY <1>1, <1>2, PickType

LEMMA RightType ==
    ASSUME TypeOK, NEW p \in Party, NEW n \in DOMAIN calls[R]
    PROVE  RightResult(p, n) \in Outcome /\ RightResult(p, n) # Threw
<1>1. <<>> \in Seq(Keys)
  OBVIOUS
<1>2. /\ Returned(<<>>, 0) \in Outcome /\ Returned(<<>>, 0) # Threw
      /\ Returned(<<>>, Cardinality(Common(n))) \in Outcome
      /\ Returned(<<>>, Cardinality(Common(n))) # Threw
      /\ Returned(Pick(calls[R][n], Common(n)), 0) \in Outcome
      /\ Returned(Pick(calls[R][n], Common(n)), 0) # Threw
  BY <1>1, CommonType, ReturnedType
<1> QED
  BY <1>2 DEF RightResult

\* A party goes on to the next message of its call.
LEMMA GoesOn ==
    ASSUME KkrtInv, NEW p \in Party, stage[p] \in OneWay, NEW s \in Passed, Enter(p, s),
           UNCHANGED <<epsilon, num_of_fun, sender_obtain_result, modes, calls, results,
                       common_prng>>,
           remote'[Peer(p)] = remote[Peer(p)],
           p = S => UNCHANGED <<stash_size, function_ids, found>>,
           s \in {"ot", "masks"} => stage[p] \in {"stash", "ot"} /\ remote'[p] = remote[p],
           s \in {"count", "keys"} => sender_obtain_result[p],
           s = "keys" => ~modes[Number(p)]
    PROVE  /\ Alone(p) /\ NoneGivesUp /\ Control(p)' /\ Knows(p)'
           /\ Number(p)' = Number(p)
           /\ stage' \in [Party -> TwoWay \cup OneWay \cup Rest] /\ stage'[p] = s
           /\ io' \in [Party -> {"send", "recv", "done", "none"}]
           /\ Ended' /\ ResultCorrect'
<1>1. /\ stage' \in [Party -> TwoWay \cup OneWay \cup Rest]
      /\ io' \in [Party -> {"send", "recv", "done", "none"}]
      /\ stage'[p] = s /\ stage'[Peer(p)] = stage[Peer(p)]
      /\ io'[p] = Starts(s, p) /\ io'[Peer(p)] = io[Peer(p)]
      /\ ~HasRead(p)'
  BY Entered, Before DEF Passed, OneWay
<1>2. Alone(p) /\ NoneGivesUp
  BY <1>1, MovesOn DEF Others
<1>3. Number(p)' = Number(p)
  BY DEF Number
<1>4. Control(p)'
  <2>1. /\ Number(p) > 0 /\ Number(p) <= MaxCalls
        /\ Number(p) = Len(results[p]) + (IF stage'[p] \in InCall THEN 1 ELSE 0)
    BY <1>1, Before DEF Control, InCall, OneWay, Passed
  <2>2. common_prng'[p] =
           [seed |-> IF stage'[p] \in {"epsilon", "fun_num", "seed", "threw"}
                     THEN {} ELSE {1, 2},
            draws |-> IF stage'[p] = "sizes" THEN Number(p)' - 1 ELSE Number(p)']
    BY ZenonT(60), <1>1, <1>3, Before DEF Control, OneWay, Passed
  <2> QED
    BY <1>1, <1>3, <2>1, <2>2 DEF Control, InInit, TwoWay, Passed
<1>5. Knows(p)'
  <2>1. /\ epsilon[p] = epsilon[Peer(p)] /\ num_of_fun[p] = num_of_fun[Peer(p)]
        /\ Number(p) \in DOMAIN calls[Peer(p)]
        /\ s \in {"ot", "masks"} => remote[p] = Len(calls[Peer(p)][Number(p)])
    BY Before DEF Knows, OneWay
  <2> QED
    BY <1>1, <1>3, <2>1 DEF Knows, Passed
<1>6. Ended' /\ ResultCorrect'
  BY <1>2, ResultsStay
<1> QED
  BY <1>1, <1>2, <1>3, <1>4, <1>5, <1>6

\* A party comes back from its call.
LEMMA ComesBack ==
    ASSUME KkrtInv, NEW p \in Party, stage[p] \in OneWay, Enter(p, "idle"),
           NEW result \in Outcome, results' = [results EXCEPT ![p] = Append(@, result)],
           UNCHANGED <<epsilon, num_of_fun, sender_obtain_result, modes, calls, common_prng>>,
           remote'[Peer(p)] = remote[Peer(p)],
           p = S => UNCHANGED <<stash_size, function_ids, found>>,
           p = S => IF result = Threw THEN GaveUp(Number(S)) ELSE GotThrough(Number(S)),
           p = R => (stage[R] \in Passed <=> result # Threw),
           result # Threw => result = RightResult(p, Number(p))
    PROVE  /\ Alone(p) /\ (p = S \/ result # Threw => NoneGivesUp)
           /\ p = R => IF result = Threw THEN GaveUp(Number(R))' ELSE GotThrough(Number(R))'
           /\ Control(p)' /\ Knows(p)' /\ Number(p)' = Number(p)
           /\ stage' \in [Party -> TwoWay \cup OneWay \cup Rest] /\ stage'[p] = "idle"
           /\ io' \in [Party -> {"send", "recv", "done", "none"}]
           /\ results' \in [Party -> Seq(Outcome)]
           /\ Ended' /\ ResultCorrect'
<1>1. /\ stage' \in [Party -> TwoWay \cup OneWay \cup Rest]
      /\ io' \in [Party -> {"send", "recv", "done", "none"}]
      /\ stage'[p] = "idle" /\ stage'[Peer(p)] = stage[Peer(p)]
      /\ io'[p] = Starts("idle", p) /\ io'[Peer(p)] = io[Peer(p)]
      /\ ~HasRead(p)'
  BY Entered, Before DEF Rest
<1>2. results \in [Party -> Seq(Outcome)]
  BY Before DEF TypeOK
<1>3. /\ results'[p] = Append(results[p], result) /\ results'[Peer(p)] = results[Peer(p)]
      /\ results' \in [Party -> Seq(Outcome)]
      /\ Len(results'[p]) = Len(results[p]) + 1
  BY <1>2, TwoParties
<1>4. stage[p] \in InCall
  BY DEF OneWay, InCall
<1>5. /\ Alone(p) /\ (p = S \/ result # Threw => NoneGivesUp)
      /\ p = R => IF result = Threw THEN GaveUp(Number(R))' ELSE GotThrough(Number(R))'
  <2>1. Others(p) /\ calls'[p] = calls[p]
    BY <1>1, <1>3 DEF Others
  <2>2. /\ results'[p] = Append(results[p], result)
        /\ p = R => (stage[R] \in Passed <=> result # Threw)
    BY <1>3
  <2>3. Alone(p)
    BY <1>4, <2>1, <2>2, CallEnds
  <2>4. p = S \/ result # Threw => NoneGivesUp
    BY <1>4, <2>1, <2>2, CallEnds
  <2>5. p = R => IF result = Threw THEN GaveUp(Number(R))' ELSE GotThrough(Number(R))'
    BY <1>4, <2>1, <2>2, CallEnds
  <2> QED
    BY <2>3, <2>4, <2>5
<1>6. Number(p)' = Number(p)
  BY DEF Number
<1>7. Control(p)'
  <2>1. /\ Number(p) <= MaxCalls /\ Number(p) \in Nat
        /\ Number(p)' = Len(results[p])' + (IF stage'[p] \in InCall THEN 1 ELSE 0)
    <3>1. Number(p) = Len(results[p]) + 1 /\ Number(p) \in Nat
      BY <1>4, UnderWay, Before
    <3>2. Number(p) <= MaxCalls
      BY Before DEF Control
    <3>3. stage'[p] \notin InCall
      BY <1>1 DEF InCall
    <3>4. Len(results[p])' = Number(p) + 0
      BY <1>3, <3>1
    <3> QED
      BY <1>6, <3>1, <3>2, <3>3, <3>4
  <2>2. common_prng'[p] =
           [seed |-> IF stage'[p] \in {"epsilon", "fun_num", "seed", "threw"}
                     THEN {} ELSE {1, 2},
            draws |-> IF stage'[p] = "sizes" THEN Number(p)' - 1 ELSE Number(p)']
    BY <1>1, <1>6, Before DEF Control, OneWay
  <2> QED
    BY <1>1, <1>6, <2>1, <2>2 DEF Control, InInit, InCall, TwoWay
<1>8. Knows(p)'
  BY <1>1, Before DEF Knows, OneWay
<1>9. Number(p) \in DOMAIN calls[Peer(p)]
  BY Before DEF Knows, OneWay
<1>10. Ended' /\ ResultCorrect'
  BY <1>3, <1>4, <1>5, <1>9, ResultsGrow
<1> QED
  BY <1>1, <1>3, <1>5, <1>6, <1>7, <1>8, <1>10

\* Types after a step of a call.
LEMMA TypeAfter ==
    ASSUME TypeOK,
           UNCHANGED <<epsilon, num_of_fun, sender_obtain_result, modes, calls, common_prng>>,
           results' \in [Party -> Seq(Outcome)],
           stage' \in [Party -> TwoWay \cup OneWay \cup Rest],
           io' \in [Party -> {"send", "recv", "done", "none"}],
           remote' \in [Party -> Nat], stash_size' \in Nat, function_ids' \in Seq(Nat),
           found' \subseteq 1..Len(function_ids'),
           chan' \in [Party -> Seq(InTransit')], \A x \in InTransit' : MessageOK(x)
    PROVE  TypeOK'
<1>1. (\A x \in InTransit : MessageOK(x))'
  BY DEF MessageOK
<1> QED
  BY <1>1 DEF TypeOK

\* The receiver's table is gone once its call is over.
LEMMA TableGone ==
    ASSUME stage'[R] = "idle", stash_size' = 0, function_ids' = <<>>, found' = {}
    PROVE  TableOK'
BY DEF TableOK, InCall

\* Where the receiver is when it tells the size of its stash.
LEMMA AtStash ==
    ASSUME KkrtInv, At(R, "stash", "send")
    PROVE  /\ Number(R) \in Nat /\ Number(R) > 0
           /\ In(R) = 6 * Number(R) + 3 /\ Out(R) = 6 * Number(R) + 1
           /\ Number(R) \in DOMAIN calls[R] /\ Number(R) \in DOMAIN calls[S]
           /\ ~GaveUp(Number(R)) /\ Number(R) \notin DOMAIN results[R]
           /\ stage[R] = "stash" /\ found = {}
           /\ \/ stash_size = 0 /\ function_ids \in [1..Len(Current(R)) -> 1..num_of_fun[R]]
              \/ stash_size = 1 /\ function_ids = <<>>
<1>1. stage[R] = "stash"
  BY DEF At
<1>2. Number(R) \in Nat /\ Number(R) > 0 /\ Number(R) \in DOMAIN calls[R]
  BY <1>1, UnderWay, Before, TwoParties DEF InCall
<1>3. Number(R) \in DOMAIN calls[S]
  BY <1>1, Before, TwoParties DEF Knows
<1>4. ~GaveUp(Number(R)) /\ Number(R) \notin DOMAIN results[R]
  BY <1>1, NotGivenUp DEF InCall
<1>5. In(R) = 6 * Number(R) + 3 /\ Out(R) = 6 * Number(R) + 1
  BY <1>1, TwoParties DEF In, Out, InInit
<1>6. found = {}
  BY <1>1 DEF KkrtInv, TableOK
<1>7. \/ stash_size = 0 /\ function_ids \in [1..Len(Current(R)) -> 1..num_of_fun[R]]
      \/ stash_size = 1 /\ function_ids = <<>>
  BY <1>1 DEF KkrtInv, TableOK, Placements
<1> QED
  BY <1>1, <1>2, <1>3, <1>4, <1>5, <1>6, <1>7

\* The receiver goes on.
LEMMA SendNoStash ==
    ASSUME KkrtInv, SendStashSize, stash_size = 0
    PROVE  KkrtInv'
<1>1. /\ At(R, "stash", "send") /\ Enter(R, "ot")
      /\ UNCHANGED <<epsilon, num_of_fun, sender_obtain_result, modes, calls, results,
                     remote, common_prng, stash_size, function_ids, found>>
  BY DEF SendStashSize, Continue, R, config, table
<1>2. PICK m : m = [is |-> "stash", width |-> Word, value |-> 0]
  OBVIOUS
<1>3. chan' = [chan EXCEPT ![S] = Append(@, m)]
  BY <1>1, <1>2, TwoParties DEF SendStashSize, Post, At, R
<1>4. PICK n \in Nat : n = Number(R) /\ n > 0
  BY <1>1, AtStash
<1>5. /\ Alone(R) /\ NoneGivesUp /\ Control(R)' /\ Knows(R)' /\ Number(R)' = n
      /\ stage' \in [Party -> TwoWay \cup OneWay \cup Rest] /\ stage'[R] = "ot"
      /\ io' \in [Party -> {"send", "recv", "done", "none"}]
      /\ Ended' /\ ResultCorrect'
  BY <1>1, <1>4, GoesOn, TwoParties DEF At, OneWay, Passed
<1>6. MessageOK(m)
  BY <1>2 DEF MessageOK, TwoWay, OneWay, Word, Width, Widths
<1>7. TypeOK'
  <2>1. chan' \in [Party -> Seq(InTransit')] /\ \A x \in InTransit' : MessageOK(x)
    BY <1>3, <1>6, SentType, TwoParties DEF KkrtInv
  <2>2. TypeOK
    BY DEF KkrtInv
  <2> QED
    BY <1>1, <1>5, <2>1, <2>2, TypeAfter DEF TypeOK
<1>8. \A q \in Party : InOrder(q)'
  <2>1. In(R)' = In(R) /\ Out(R) = 6 * n + 1 /\ Out(R)' = 6 * n + 2
    BY <1>1, <1>4, <1>5, AtStash, TwoParties DEF In, Out, InInit
  <2>2. GotThrough(n)'
    BY <1>1, <1>4, <1>5, AtStash DEF GotThrough
  <2>3. ToSender(n, 6 * n + 1, m, 6 * n + 2)'
    BY <1>2, <2>2 DEF ToSender, Says, Word, Width
  <2>4. n \in DOMAIN calls'[R]
    BY <1>1, <1>4, AtStash
  <2>5. Carries(S, 6 * n + 1, m, 6 * n + 2)'
    BY <2>3, <2>4, TwoParties DEF Carries
  <2>6. PICK high \in Nat, top \in Nat : high = 6 * n + 1 /\ top = 6 * n + 2
    OBVIOUS
  <2>7. /\ Carries(Peer(R), high, m, top)' /\ high < top
        /\ chan' = [chan EXCEPT ![Peer(R)] = Append(@, m)]
    BY <1>3, <2>5, <2>6, TwoParties
  <2> QED
    BY <1>5, <2>1, <2>6, <2>7, SendsOrder, TwoParties
<1>9. TableOK'
  <2>1. Current(R)' = Current(R)
    BY <1>1 DEF Current, Number
  <2> QED
    BY <1>1, <1>5, <2>1, AtStash DEF TableOK, InCall
<1> QED
  BY <1>5, <1>7, <1>8, <1>9, Together, TwoParties

\* Where the sender is then: in the same call, its size written and nothing
\* more, so that nothing is on its way to the receiver.
LEMMA SenderAtStash ==
    ASSUME KkrtInv, At(R, "stash", "send")
    PROVE  /\ Number(S) = Number(R) /\ stage[S] \in {"sizes", "stash"}
           /\ stage[S] = "sizes" => HasWritten(S)
           /\ Out(S) = In(R) /\ chan[R] = <<>>
<1>1. PICK n \in Nat : n = Number(R) /\ n > 0
  BY AtStash
<1>2. PICK k \in Nat : k = Number(S)
  BY Before, TwoParties
<1>3. n <= k
  BY <1>1, <1>2, AtStash, Before, TwoParties
<1>4. In(R) = 6 * n + 3 /\ Out(R) = 6 * n + 1 /\ ~GaveUp(n)
  BY <1>1, AtStash
<1>5. In(R) <= Out(S) /\ In(S) <= Out(R)
  BY Between, Before, Numbers, TwoParties
<1>6. In(S) <= 6 * n + 1 /\ Out(S) >= 6 * n + 3
  BY <1>4, <1>5
<1>7. stage[S] \notin InInit \cup {"threw"}
  <2>1. Control(S)
    BY Before, TwoParties
  <2>2. stage[S] \in InInit \cup {"threw"} => Number(S) = 0
    BY <2>1 DEF Control
  <2> QED
    BY <1>1, <1>2, <1>3, <2>2
<1>8. stage[S] \in InCall \cup {"idle"}
  <2>1. stage[S] \in TwoWay \cup OneWay \cup Rest
    BY TwoParties DEF KkrtInv, TypeOK
  <2> QED
    BY <1>7, <2>1 DEF TwoWay, OneWay, Rest, InInit, InCall
<1>9. stage[S] \in {"sizes", "stash"} /\ k = n
  <2>1. CASE stage[S] = "idle"
    BY <1>1, <1>2, <1>3, <1>6, <2>1 DEF In, InInit
  <2>2. CASE stage[S] = "ot"
    BY <1>1, <1>2, <1>3, <1>6, <2>2 DEF In, InInit
  <2>3. CASE stage[S] = "masks"
    BY <1>1, <1>2, <1>3, <1>6, <2>3 DEF In, InInit, AfterOt
  <2>4. CASE stage[S] = "count"
    BY <1>1, <1>2, <1>3, <1>6, <2>4 DEF In, InInit
  <2>5. CASE stage[S] = "keys"
    BY <1>1, <1>2, <1>3, <1>6, <2>5 DEF In, InInit
  <2>6. CASE stage[S] = "sizes"
    BY <1>1, <1>2, <1>3, <1>6, <2>6 DEF In, InInit
  <2>7. CASE stage[S] = "stash"
    BY <1>1, <1>2, <1>3, <1>6, <2>7 DEF In, InInit
  <2> QED
    BY <1>8, <2>1, <2>2, <2>3, <2>4, <2>5, <2>6, <2>7 DEF InCall
<1>10. stage[S] = "sizes" => HasWritten(S)
  BY <1>1, <1>2, <1>6, <1>9 DEF Out, InInit
<1>11. Out(S) = 6 * n + 3
  BY <1>2, <1>4, <1>9, <1>10 DEF Out, InInit, AfterSize
<1>12. Len(chan[R]) = 0
  BY <1>4, <1>11, Between, Before, Numbers, TwoParties
<1>13. chan[R] = <<>>
  BY <1>12, Before, TwoParties DEF TypeOK
<1> QED
  BY <1>1, <1>2, <1>4, <1>9, <1>10, <1>11, <1>13

\* The receiver gives up.
LEMMA SendStash ==
    ASSUME KkrtInv, SendStashSize, stash_size # 0
    PROVE  KkrtInv'
<1>1. /\ At(R, "stash", "send") /\ Enter(R, "idle")
      /\ results' = [results EXCEPT ![R] = Append(@, Threw)]
      /\ UNCHANGED <<epsilon, num_of_fun, sender_obtain_result, modes, calls,
                     remote, common_prng>>
      /\ stash_size = 1 /\ stash_size' = 0 /\ function_ids' = <<>> /\ found' = {}
  <2>1. At(R, "stash", "send")
    BY DEF SendStashSize, R
  <2>2. stash_size = 1
    BY <2>1, AtStash
  <2> QED
    BY <2>1, <2>2 DEF SendStashSize, Return, R, config
<1>2. PICK m : m = [is |-> "stash", width |-> Word, value |-> 1]
  OBVIOUS
<1>3. chan' = [chan EXCEPT ![S] = Append(@, m)]
  BY <1>1, <1>2, TwoParties DEF SendStashSize, Post, At, R
<1>4. PICK n \in Nat : n = Number(R) /\ n > 0
  BY <1>1, AtStash
<1>5. Threw \in Outcome
  BY DEF Outcome
<1>6. /\ Alone(R) /\ GaveUp(n)' /\ Control(R)' /\ Knows(R)' /\ Number(R)' = n
      /\ stage' \in [Party -> TwoWay \cup OneWay \cup Rest] /\ stage'[R] = "idle"
      /\ io' \in [Party -> {"send", "recv", "done", "none"}]
      /\ results' \in [Party -> Seq(Outcome)]
      /\ Ended' /\ ResultCorrect'
  BY <1>1, <1>4, <1>5, ComesBack, TwoParties DEF At, OneWay, Passed
<1>7. MessageOK(m)
  BY <1>2 DEF MessageOK, TwoWay, OneWay, Word, Width, Widths
<1>8. TypeOK'
  <2>1. chan' \in [Party -> Seq(InTransit')] /\ \A x \in InTransit' : MessageOK(x)
    BY <1>3, <1>7, SentType, TwoParties DEF KkrtInv
  <2>2. TypeOK /\ remote \in [Party -> Nat]
    BY DEF KkrtInv, TypeOK
  <2>3. stash_size' \in Nat /\ function_ids' \in Seq(Nat) /\ found' \subseteq 1..Len(function_ids')
    BY <1>1
  <2> QED
    BY <1>1, <1>6, <2>1, <2>2, <2>3, TypeAfter
<1>9. InOrder(R)'
  <2>1. chan'[R] = <<>>
    <3>1. chan[R] = <<>> /\ chan \in [Party -> Seq(InTransit)]
      BY <1>1, SenderAtStash DEF KkrtInv, TypeOK
    <3> QED
      BY <1>3, <3>1, TwoParties
  <2>2. In(R)' = 6 * n + 6
    BY <1>6 DEF In, InInit
  <2>3. Out(S)' = 6 * n + 6
    <3>1. /\ stage'[S] = stage[S] /\ io'[S] = io[S] /\ Number(S)' = n
          /\ stage[S] \in {"sizes", "stash"}
          /\ stage[S] = "sizes" => HasWritten(S)
      BY <1>1, <1>4, <1>6, SenderAtStash, TwoParties DEF Alone, Number
    <3>2. stage[S] = "sizes" => HasWritten(S)'
      BY <3>1 DEF HasWritten
    <3>3. AfterSize(n)' = 6 * n + 6
      BY <1>6 DEF AfterSize
    <3> QED
      BY <3>1, <3>2, <3>3 DEF Out, InInit
  <2>4. PICK here \in Nat : here = 6 * n + 6
    OBVIOUS
  <2> QED
    BY <2>1, <2>2, <2>3, <2>4, NothingOnWay, TwoParties
<1>10. InOrder(S)'
  <2>1. PICK low \in Nat, high \in Nat, top \in Nat :
           low = In(S) /\ high = 6 * n + 1 /\ top = 6 * n + 6
    BY Before, Numbers, TwoParties
  <2>2. In(S)' = low
    BY <1>6, <2>1, EndsStay, TwoParties DEF KkrtInv
  <2>3. Out(Peer(S)) = high /\ Out(Peer(S))' = top
    <3>1. Out(R) = high
      BY <1>1, <1>4, <2>1, AtStash
    <3>2. Out(R)' = top
      BY <1>6, <2>1 DEF Out, InInit
    <3> QED
      BY <3>1, <3>2, TwoParties
  <2>4. ToSender(n, high, m, top)'
    BY <1>2, <1>6, <2>1 DEF ToSender, Says, Word, Width
  <2>5. n \in DOMAIN calls'[Peer(S)]
    BY <1>1, <1>4, AtStash, TwoParties
  <2>6. Carries(S, high, m, top)'
    BY <2>4, <2>5 DEF Carries
  <2>7. Lasting(S) /\ InOrder(S)
    BY <1>6, MessagesLast, TwoParties DEF KkrtInv
  <2>8. chan[S] \in Seq(InTransit) /\ chan'[S] = Append(chan[S], m)
    <3>1. chan \in [Party -> Seq(InTransit)]
      BY DEF KkrtInv, TypeOK
    <3> QED
      BY <1>3, <3>1, TwoParties
  <2>9. high < top
    BY <2>1
  <2> QED
    BY <2>1, <2>2, <2>3, <2>6, <2>7, <2>8, <2>9, SendOrder, TwoParties
<1>11. TableOK'
  BY <1>1, <1>6, TableGone
<1>12. \A q \in Party : InOrder(q)'
  BY <1>9, <1>10, TwoParties
<1> QED
  BY <1>6, <1>8, <1>11, <1>12, Together, TwoParties

LEMMA SendStashSizeKeeps ==
    ASSUME KkrtInv, SendStashSize
    PROVE  KkrtInv'
BY SendNoStash, SendStash

\* What a party finds when it reads in a call.
LEMMA CallMessage ==
    ASSUME KkrtInv, NEW p \in Party, chan[p] # <<>>, NEW n \in Nat, n > 0,
           In(p) >= 6 * n, In(p) < 6 * n + 6
    PROVE  /\ MessageOK(Head(chan[p]))
           /\ \E y \in Int : Carries(p, In(p), Head(chan[p]), y)
           /\ \A y : Carries(p, In(p), Head(chan[p]), y) =>
                 IF p = S THEN ToSender(n, In(p), Head(chan[p]), y)
                 ELSE ToReceiver(n, In(p), Head(chan[p]), y)
<1>1. PICK x \in Nat : x = In(p)
  BY Before, Numbers
<1>2. PICK m : m = Head(chan[p])
  OBVIOUS
<1>3. x >= 6 * n /\ x < 6 * n + 6
  BY <1>1
<1>4. \A y : Carries(p, x, m, y) =>
                 IF p = S THEN ToSender(n, x, m, y) ELSE ToReceiver(n, x, m, y)
  BY <1>3, WhichMessage, Before
<1> QED
  BY <1>1, <1>2, <1>4, NextMessage

LEMMA RecvStashSizeKeeps ==
    ASSUME KkrtInv, RecvStashSize
    PROVE  KkrtInv'
<1>1. /\ stage[S] = "stash" /\ chan[S] # <<>>
      /\ chan' = [chan EXCEPT ![S] = Tail(@)]
      /\ UNCHANGED <<epsilon, num_of_fun, sender_obtain_result, modes, calls, remote,
                     common_prng>>
  BY DEF RecvStashSize, At, Take, S, config
<1>2. PICK size : size = Head(chan[S]).value
  OBVIOUS
<1>3. UNCHANGED <<stash_size, function_ids, found>>
  BY DEF RecvStashSize, Return, Continue, table, S
<1>4. PICK n \in Nat : n = Number(S) /\ n > 0
  BY <1>1, UnderWay, Before, TwoParties DEF InCall
<1>5. In(S) = 6 * n + 1 /\ Out(S) = AfterSize(n)
  BY <1>1, <1>4 DEF In, Out, InInit
<1>6. \A y : Carries(S, In(S), Head(chan[S]), y) =>
                \/ size = 0 /\ GotThrough(n) /\ y = 6 * n + 2
                \/ size = 1 /\ GaveUp(n) /\ y = 6 * n + 6
  <2>1. PICK m : m = Head(chan[S])
    OBVIOUS
  <2> DEFINE x == 6 * n + 1
  <2>2. \A y : Carries(S, x, m, y) => ToSender(n, x, m, y)
    <3>1. In(S) >= 6 * n /\ In(S) < 6 * n + 6
      BY <1>5
    <3>2. \A y : Carries(S, In(S), m, y) => ToSender(n, In(S), m, y)
      BY <1>1, <1>4, <2>1, <3>1, CallMessage, TwoParties
    <3> QED
      BY <1>5, <3>2
  <2>3. \A y : ToSender(n, x, m, y) => \/ m.value = 0 /\ GotThrough(n) /\ y = 6 * n + 2
                                       \/ m.value = 1 /\ GaveUp(n) /\ y = 6 * n + 6
    BY <2>1 DEF ToSender, Says
  <2> QED
    BY <1>2, <1>5, <2>1, <2>2, <2>3
<1>7. \E y \in Int : Carries(S, In(S), Head(chan[S]), y)
  BY <1>1, NextMessage, TwoParties
<1>8. \/ size = 0 /\ GotThrough(n) /\ ~GaveUp(n)
      \/ size = 1 /\ GaveUp(n) /\ ~GotThrough(n)
  BY <1>6, <1>7 DEF GotThrough, GaveUp
<1>9. TypeOK /\ remote \in [Party -> Nat] /\ stash_size \in Nat
      /\ function_ids \in Seq(Nat) /\ found \subseteq 1..Len(function_ids)
      /\ results \in [Party -> Seq(Outcome)]
  BY DEF KkrtInv, TypeOK
<1>10. chan' \in [Party -> Seq(InTransit')] /\ \A x \in InTransit' : MessageOK(x)
  BY <1>1, <1>9, ReadType, TwoParties
<1>11. CASE size = 0
  <2>1. Enter(S, "ot") /\ results' = results
    BY <1>2, <1>11 DEF RecvStashSize, Continue, S
  <2>2. /\ Alone(S) /\ NoneGivesUp /\ Control(S)' /\ Knows(S)' /\ Number(S)' = n
        /\ stage' \in [Party -> TwoWay \cup OneWay \cup Rest] /\ stage'[S] = "ot"
        /\ io' \in [Party -> {"send", "recv", "done", "none"}]
        /\ Ended' /\ ResultCorrect'
    BY <1>1, <1>3, <1>4, <2>1, GoesOn, TwoParties DEF OneWay, Passed
  <2>3. TypeOK'
    BY <1>1, <1>3, <1>9, <1>10, <2>1, <2>2, TypeAfter
  <2>4. \A q \in Party : InOrder(q)'
    <3>1. In(S)' = 6 * n + 2 /\ Out(S)' = 6 * n + 3
      BY <2>2 DEF In, Out, InInit
    <3>2. Out(S) = 6 * n + 3
      BY <1>5, <1>8, <1>11 DEF AfterSize
    <3>3. \A y \in Int : Carries(S, In(S), Head(chan[S]), y) => In(S)' = y
      BY <1>6, <1>11, <3>1
    <3> QED
      BY <1>1, <2>2, <3>1, <3>2, <3>3, ReadsOrder, TwoParties
  <2>5. SenderKnows'
    BY <1>8, <1>11, <2>2 DEF SenderKnows, Alone
  <2> QED
    BY <2>2, <2>3, <2>4, <2>5, Together, TwoParties
<1>12. CASE size = 1
  <2>1. Enter(S, "idle") /\ results' = [results EXCEPT ![S] = Append(@, Threw)]
    BY <1>2, <1>12 DEF RecvStashSize, Return, S
  <2>2. PICK result \in Outcome : result = Threw
    BY DEF Outcome
  <2>3. /\ Alone(S) /\ NoneGivesUp /\ Control(S)' /\ Knows(S)' /\ Number(S)' = n
        /\ stage' \in [Party -> TwoWay \cup OneWay \cup Rest] /\ stage'[S] = "idle"
        /\ io' \in [Party -> {"send", "recv", "done", "none"}]
        /\ results' \in [Party -> Seq(Outcome)]
        /\ Ended' /\ ResultCorrect'
    <3>1. /\ results' = [results EXCEPT ![S] = Append(@, result)] /\ stage[S] \in OneWay
          /\ IF result = Threw THEN GaveUp(Number(S)) ELSE GotThrough(Number(S))
      BY <1>1, <1>4, <1>8, <1>12, <2>1, <2>2 DEF OneWay
    <3> QED
      BY <1>1, <1>3, <1>4, <2>1, <2>2, <3>1, ComesBack, TwoParties
  <2>4. TypeOK'
    BY <1>1, <1>3, <1>9, <1>10, <2>1, <2>3, TypeAfter
  <2>5. \A q \in Party : InOrder(q)'
    <3>1. In(S)' = 6 * n + 6 /\ Out(S)' = 6 * n + 6
      BY <2>3 DEF In, Out, InInit
    <3>2. Out(S) = 6 * n + 6
      BY <1>5, <1>8, <1>12 DEF AfterSize
    <3>3. \A y \in Int : Carries(S, In(S), Head(chan[S]), y) => In(S)' = y
      BY <1>6, <1>12, <3>1
    <3> QED
      BY <1>1, <2>3, <3>1, <3>2, <3>3, ReadsOrder, TwoParties
  <2>6. SenderKnows'
    BY <2>3 DEF SenderKnows
  <2> QED
    BY <2>3, <2>4, <2>5, <2>6, Together, TwoParties
<1> QED
  BY <1>8, <1>11, <1>12

\* The number of bins is a number.
LEMMA BinsType ==
    ASSUME NEW size \in Nat, NEW hundredths \in Nat
    PROVE  NumOfBins(size, hundredths) \in Nat
<1>1. PICK k \in Nat : k = size * hundredths
  BY Product
<1>2. (k + 99) \div 100 \in Nat
  OBVIOUS
<1> QED
  BY <1>1, <1>2 DEF NumOfBins

\* Where the receiver is after that.
LEMMA ReceiverPassed ==
    ASSUME KkrtInv, stage[R] \in Passed
    PROVE  /\ Number(R) \in Nat /\ Number(R) > 0
           /\ Number(R) \in DOMAIN calls[R] /\ Number(R) \in DOMAIN calls[S]
           /\ stage[R] \in OneWay /\ Current(R) = calls[R][Number(R)]
           /\ stash_size = 0
           /\ function_ids \in [1..Len(Current(R)) -> 1..num_of_fun[R]]
           /\ GotThrough(Number(R))
           /\ found = IF stage[R] \in {"count", "keys"} THEN Common(Number(R)) ELSE {}
<1>1. stage[R] \in OneWay /\ stage[R] \in InCall
  BY DEF Passed, OneWay, InCall
<1>2. /\ Number(R) \in Nat /\ Number(R) > 0 /\ Number(R) \in DOMAIN calls[R]
      /\ Current(R) = calls[R][Number(R)]
  BY <1>1, UnderWay, Before, TwoParties
<1>3. Number(R) \in DOMAIN calls[S]
  BY <1>1, Before, TwoParties DEF Knows, OneWay
<1>4. /\ stash_size = 0
      /\ function_ids \in [1..Len(Current(R)) -> 1..num_of_fun[R]]
      /\ found = IF stage[R] \in {"count", "keys"} THEN Common(Number(R)) ELSE {}
  BY DEF KkrtInv, TableOK, Passed
<1>5. GotThrough(Number(R))
  BY <1>1, NotGivenUp DEF GotThrough, Passed
<1> QED
  BY <1>1, <1>2, <1>3, <1>4, <1>5

\* The table is kept as long as the receiver goes on.
LEMMA TableKept ==
    ASSUME KkrtInv, Alone(R), stage[R] \in Passed, stage'[R] \in Passed, calls' = calls,
           stash_size' = stash_size, function_ids' = function_ids,
           found' = IF stage'[R] \in {"count", "keys"} THEN Common(Number(R)) ELSE {}
    PROVE  TableOK'
<1>1. Current(R)' = Current(R) /\ Number(R)' = Number(R) /\ num_of_fun' = num_of_fun
  BY DEF Current, Number, Alone
<1>2. Common(Number(R))' = Common(Number(R))
  BY <1>1 DEF Common
<1> QED
  BY <1>1, <1>2, ReceiverPassed DEF TableOK, Passed, InCall

LEMMA OtReceiveKeeps ==
    ASSUME KkrtInv, OtReceive
    PROVE  KkrtInv'
<1>1. /\ stage[R] = "ot" /\ Enter(R, "masks")
      /\ UNCHANGED <<epsilon, num_of_fun, sender_obtain_result, modes, calls, results,
                     remote, common_prng, stash_size, function_ids, found>>
  BY DEF OtReceive, At, R, config, table
<1>2. PICK m : m = [is |-> "ot", width |-> Width("ot", Bins(R)), value |-> 0]
  OBVIOUS
<1>3. chan' = [chan EXCEPT ![Peer(R)] = Append(@, m)]
  BY <1>1, <1>2 DEF OtReceive, Post, R
<1>4. stage[R] \in Passed
  BY <1>1 DEF Passed
<1>5. PICK n \in Nat : n = Number(R) /\ n > 0
  BY <1>4, ReceiverPassed
<1>6. /\ Alone(R) /\ NoneGivesUp /\ Control(R)' /\ Knows(R)' /\ Number(R)' = n
      /\ stage' \in [Party -> TwoWay \cup OneWay \cup Rest] /\ stage'[R] = "masks"
      /\ io' \in [Party -> {"send", "recv", "done", "none"}]
      /\ Ended' /\ ResultCorrect'
  BY <1>1, <1>5, GoesOn, TwoParties DEF OneWay, Passed
<1>7. Bins(R) = NumOfBins(Len(calls[R][n]), epsilon[R]) /\ Bins(R) \in Nat
  <2>1. Len(Current(R)) \in Nat /\ epsilon[R] \in Nat
    BY <1>1, UnderWay, Before, TwoParties DEF InCall
  <2> QED
    BY <1>5, <2>1, BinsType DEF Bins, ReceiverSize, Current, R
<1>8. MessageOK(m)
  BY <1>2, <1>7 DEF MessageOK, TwoWay, OneWay, Width, Widths
<1>9. TypeOK'
  <2>1. chan' \in [Party -> Seq(InTransit')] /\ \A x \in InTransit' : MessageOK(x)
    BY <1>3, <1>8, SentType, TwoParties DEF KkrtInv
  <2>2. TypeOK
    BY DEF KkrtInv
  <2> QED
    BY <1>1, <1>6, <2>1, <2>2, TypeAfter DEF TypeOK
<1>10. \A q \in Party : InOrder(q)'
  <2>1. PICK high \in Nat, top \in Nat : high = 6 * n + 2 /\ top = AfterOt(n)
    BY DEF AfterOt
  <2>2. AfterOt(n)' = AfterOt(n)
    BY <1>1 DEF AfterOt
  <2>3. In(R) = 6 * n + 3 /\ Out(R) = high
    BY <1>1, <1>5, <2>1, TwoParties DEF In, Out, InInit
  <2>4. In(R)' = 6 * n + 3 /\ Out(R)' = top
    BY <1>6, <2>1, <2>2, TwoParties DEF In, Out, InInit
  <2>5. ToSender(n, high, m, top)'
    BY <1>1, <1>2, <1>7, <2>1, <2>2 DEF ToSender, Says, Width
  <2>6. n \in DOMAIN calls'[R]
    BY <1>1, <1>4, <1>5, ReceiverPassed
  <2>7. Carries(Peer(R), high, m, top)'
    BY <2>5, <2>6, TwoParties DEF Carries
  <2>8. high < top
    BY <2>1 DEF AfterOt
  <2> QED
    BY <1>3, <1>6, <2>3, <2>4, <2>7, <2>8, SendsOrder, TwoParties
<1>11. TableOK'
  BY <1>1, <1>4, <1>6, ReceiverPassed, TableKept DEF Passed
<1> QED
  BY <1>6, <1>9, <1>10, <1>11, Together, TwoParties

\* Where the sender is once the receiver has gone on.
LEMMA SenderPassed ==
    ASSUME KkrtInv, stage[S] \in Passed
    PROVE  /\ Number(S) \in Nat /\ Number(S) > 0
           /\ Number(S) \in DOMAIN calls[R] /\ Number(S) \in DOMAIN calls[S]
           /\ stage[S] \in OneWay /\ Current(S) = calls[S][Number(S)]
           /\ GotThrough(Number(S))
<1>1. stage[S] \in OneWay /\ stage[S] \in InCall
  BY DEF Passed, OneWay, InCall
<1>2. /\ Number(S) \in Nat /\ Number(S) > 0 /\ Number(S) \in DOMAIN calls[S]
      /\ Current(S) = calls[S][Number(S)]
  BY <1>1, UnderWay, Before, TwoParties
<1>3. Number(S) \in DOMAIN calls[R]
  BY <1>1, Before, TwoParties DEF Knows, OneWay
<1>4. GotThrough(Number(S))
  BY DEF KkrtInv, SenderKnows, Passed
<1> QED
  BY <1>1, <1>2, <1>3, <1>4

LEMMA OtSendKeeps ==
    ASSUME KkrtInv, OtSend
    PROVE  KkrtInv'
<1>1. /\ stage[S] = "ot" /\ Enter(S, "masks") /\ chan[S] # <<>>
      /\ chan' = [chan EXCEPT ![S] = Tail(@)]
      /\ UNCHANGED <<epsilon, num_of_fun, sender_obtain_result, modes, calls, results,
                     remote, common_prng, stash_size, function_ids, found>>
  BY DEF OtSend, At, Take, S, config, table
<1>2. stage[S] \in Passed
  BY <1>1 DEF Passed
<1>3. PICK n \in Nat : n = Number(S) /\ n > 0
  BY <1>2, SenderPassed
<1>4. /\ Alone(S) /\ NoneGivesUp /\ Control(S)' /\ Knows(S)' /\ Number(S)' = n
      /\ stage' \in [Party -> TwoWay \cup OneWay \cup Rest] /\ stage'[S] = "masks"
      /\ io' \in [Party -> {"send", "recv", "done", "none"}]
      /\ Ended' /\ ResultCorrect'
  BY <1>1, <1>3, GoesOn, TwoParties DEF OneWay, Passed
<1>5. TypeOK'
  <2>1. TypeOK
    BY DEF KkrtInv
  <2>2. chan' \in [Party -> Seq(InTransit')] /\ \A x \in InTransit' : MessageOK(x)
    BY <1>1, <2>1, ReadType, TwoParties
  <2> QED
    BY <1>1, <1>4, <2>1, <2>2, TypeAfter DEF TypeOK
<1>6. \A q \in Party : InOrder(q)'
  <2>1. In(S) = 6 * n + 2 /\ Out(S) = 6 * n + 3
    BY <1>1, <1>3 DEF In, Out, InInit
  <2>2. In(S)' = AfterOt(n) /\ Out(S)' = 6 * n + 3
    BY <1>1, <1>4 DEF In, Out, InInit, AfterOt
  <2>3. ASSUME NEW y \in Int, Carries(S, In(S), Head(chan[S]), y)
        PROVE  In(S)' = y
    <3>1. In(S) >= 6 * n /\ In(S) < 6 * n + 6
      BY <2>1
    <3>2. ToSender(n, In(S), Head(chan[S]), y)
      BY <1>1, <1>3, <2>3, <3>1, CallMessage, TwoParties
    <3> QED
      BY <2>1, <2>2, <3>2 DEF ToSender
  <2> QED
    BY <1>1, <1>4, <2>1, <2>2, <2>3, ReadsOrder, TwoParties
<1>7. SenderKnows'
  <2>1. GotThrough(n)'
    BY <1>2, <1>3, <1>4, SenderPassed DEF Alone
  <2> QED
    BY <1>4, <2>1 DEF SenderKnows
<1> QED
  BY <1>4, <1>5, <1>6, <1>7, Together, TwoParties

\* The stream of a party after its draw for a call.
LEMMA StreamIs ==
    ASSUME KkrtInv, NEW p \in Party, stage[p] \in Passed
    PROVE  common_prng[p] = Stream(Number(p)) /\ common_prng[p] \in Prng
<1>1. common_prng[p] = Stream(Number(p))
  BY Before DEF Control, Stream, Passed
<1> QED
  BY <1>1, Before DEF TypeOK

LEMMA SendMasksKeeps ==
    ASSUME KkrtInv, SendMasks
    PROVE  KkrtInv'
<1> DEFINE size == Len(Current(S))
           fun == num_of_fun[S]
<1>1. /\ stage[S] = "masks"
      /\ UNCHANGED <<epsilon, num_of_fun, sender_obtain_result, modes, calls, remote,
                     common_prng, stash_size, function_ids, found>>
      /\ IF sender_obtain_result[S] THEN Enter(S, "count") /\ results' = results
         ELSE /\ Enter(S, "idle")
              /\ results' = [results EXCEPT ![S] = Append(@, Returned(<<>>, 0))]
  BY DEF SendMasks, At, Continue, Return, S, config, table
<1> DEFINE message(shuffles) ==
              [is |-> "masks", width |-> Width("masks", fun * size),
               value |-> SenderMasks(common_prng[S], fun, Current(S), shuffles)]
<1>0. PICK shuffles \in [1..fun -> Shuffles(size)] :
        chan' = [chan EXCEPT ![Peer(S)] = Append(@, message(shuffles))]
  BY DEF SendMasks, At, Post, S
<1>2. PICK m : /\ m = message(shuffles)
               /\ chan' = [chan EXCEPT ![Peer(S)] = Append(@, m)]
  BY <1>0
<1>3. stage[S] \in Passed
  BY <1>1 DEF Passed
<1>4. PICK n \in Nat : n = Number(S) /\ n > 0
  BY <1>3, SenderPassed
<1>5. /\ GotThrough(n) /\ n \in DOMAIN calls[S] /\ n \in DOMAIN calls[R]
      /\ Current(S) = calls[S][n]
      /\ common_prng[S] = Stream(n) /\ common_prng[S] \in Prng
  BY <1>3, <1>4, SenderPassed, StreamIs, TwoParties
<1>6. Current(S) \in Seq(Keys) /\ size \in Nat \ {0} /\ fun \in Nat
  BY <1>5, CallKeys, Before, TwoParties
<1>7. MessageOK(m)
  <2>1. /\ SenderMasks(common_prng[S], fun, Current(S), shuffles) \in Seq(Masks)
        /\ fun * size \in Nat
    BY <1>2, <1>5, <1>6, SenderMasksType
  <2> HIDE DEF size, fun
  <2> QED
    BY <1>2, <2>1 DEF MessageOK, TwoWay, OneWay, Width, Widths
<1>8. TypeOK
  BY DEF KkrtInv
<1>9. chan' \in [Party -> Seq(InTransit')] /\ \A x \in InTransit' : MessageOK(x)
  BY <1>2, <1>7, <1>8, SentType, TwoParties
<1>10. PICK high \in Nat, top \in Nat : high = 6 * n + 3 /\ top = 6 * n + 6
  OBVIOUS
<1>11. Out(S) = high /\ In(S) = AfterOt(n) /\ high < top
  BY <1>1, <1>4, <1>10 DEF In, Out, InInit
<1>12. Carries(Peer(S), high, m, top)'
  <2>1. ToReceiver(n, high, m, top)'
    BY <1>1, <1>2, <1>5, <1>10 DEF ToReceiver, Says, Width
  <2> QED
    BY <1>1, <1>5, <2>1, TwoParties DEF Carries
<1>13. sender_obtain_result[S] = sender_obtain_result[R]
  BY DEF KkrtInv
<1>14. CASE sender_obtain_result[S]
  <2>1. /\ Alone(S) /\ NoneGivesUp /\ Control(S)' /\ Knows(S)' /\ Number(S)' = n
        /\ stage' \in [Party -> TwoWay \cup OneWay \cup Rest] /\ stage'[S] = "count"
        /\ io' \in [Party -> {"send", "recv", "done", "none"}]
        /\ Ended' /\ ResultCorrect'
    BY <1>1, <1>4, <1>14, GoesOn, TwoParties DEF OneWay, Passed
  <2>2. TypeOK'
    BY <1>1, <1>8, <1>9, <1>14, <2>1, TypeAfter DEF TypeOK
  <2>3. In(S)' = In(S) /\ Out(S)' = top
    BY <1>10, <1>11, <1>13, <1>14, <2>1 DEF In, Out, InInit, AfterOt
  <2>4. \A q \in Party : InOrder(q)'
    BY <1>2, <1>11, <1>12, <2>1, <2>3, SendsOrder, TwoParties
  <2>5. SenderKnows'
    BY <1>5, <2>1 DEF SenderKnows, Alone
  <2> QED
    BY <2>1, <2>2, <2>4, <2>5, Together, TwoParties
<1>15. CASE ~sender_obtain_result[S]
  <2>1. PICK result : result = Returned(<<>>, 0)
    OBVIOUS
  <2>2. result \in Outcome /\ result # Threw
    <3>1. <<>> \in Seq(Keys) /\ 0 \in Nat
      OBVIOUS
    <3> QED
      BY <2>1, <3>1, ReturnedType
  <2>3. result = RightResult(S, Number(S)) /\ results' = [results EXCEPT ![S] = Append(@, result)]
    BY <1>1, <1>15, <2>1 DEF RightResult
  <2>4. IF result = Threw THEN GaveUp(Number(S)) ELSE GotThrough(Number(S))
    BY <1>4, <1>5, <2>2
  <2>5. /\ Alone(S) /\ NoneGivesUp /\ Control(S)' /\ Knows(S)' /\ Number(S)' = n
        /\ stage' \in [Party -> TwoWay \cup OneWay \cup Rest] /\ stage'[S] = "idle"
        /\ io' \in [Party -> {"send", "recv", "done", "none"}]
        /\ results' \in [Party -> Seq(Outcome)]
        /\ Ended' /\ ResultCorrect'
    <3>1. stage[S] \in OneWay
      BY <1>1 DEF OneWay
    <3> QED
      BY <1>1, <1>4, <1>15, <2>2, <2>3, <2>4, <3>1, ComesBack, TwoParties
  <2>6. TypeOK'
    BY <1>1, <1>8, <1>9, <2>5, TypeAfter DEF TypeOK
  <2>7. In(S)' = In(S) /\ Out(S)' = top
    BY <1>10, <1>11, <1>13, <1>15, <2>5 DEF In, Out, InInit, AfterOt
  <2>8. \A q \in Party : InOrder(q)'
    BY <1>2, <1>11, <1>12, <2>5, <2>7, SendsOrder, TwoParties
  <2>9. SenderKnows'
    BY <2>5 DEF SenderKnows
  <2> QED
    BY <2>5, <2>6, <2>8, <2>9, Together, TwoParties
<1> QED
  BY <1>14, <1>15

\* What the receiver's search gives it is the right result.
LEMMA ResultIs ==
    ASSUME KkrtInv, stage[R] \in Passed
    PROVE  /\ Result(Common(Number(R))) = RightResult(R, Number(R))
           /\ Result(Common(Number(R))) \in Outcome
           /\ Result(Common(Number(R))) # Threw
<1>1. Number(R) \in DOMAIN calls[R]
  BY ReceiverPassed
<1>2. Result(Common(Number(R))) = RightResult(R, Number(R))
  BY TwoParties DEF Result, RightResult, OnlyCardinality, Current, R
<1> QED
  BY <1>1, <1>2, RightType, Before, TwoParties

\* The receiver finds the common keys.
LEMMA MasksRead ==
    ASSUME KkrtInv, stage[R] = "masks", chan[R] # <<>>
    PROVE  /\ Found(common_prng[R], function_ids, Current(R), Head(chan[R]).value, remote[R])
                 = Common(Number(R))
           /\ \A y : Carries(R, In(R), Head(chan[R]), y) => y = 6 * Number(R) + 6
<1>1. stage[R] \in Passed
  BY DEF Passed
<1>2. PICK n \in Nat : n = Number(R) /\ n > 0
  BY <1>1, ReceiverPassed
<1>3. /\ n \in DOMAIN calls[R] /\ n \in DOMAIN calls[S]
      /\ Current(R) = calls[R][n]
      /\ function_ids \in [1..Len(Current(R)) -> 1..num_of_fun[R]]
      /\ common_prng[R] = Stream(n)
  BY <1>1, <1>2, ReceiverPassed, StreamIs, TwoParties
<1>4. /\ remote[R] = Len(calls[S][n]) /\ num_of_fun[R] = num_of_fun[S]
      /\ num_of_fun[R] \in Nat
  BY <1>2, Before, TwoParties DEF Knows
<1>5. /\ calls[R][n] \in Seq(Keys) /\ calls[S][n] \in Seq(Keys)
      /\ Len(calls[S][n]) \in Nat \ {0}
  BY <1>3, CallKeys, Before, TwoParties
<1>6. In(R) = 6 * n + 3
  BY <1>2, TwoParties DEF In, InInit
<1>7. PICK m : m = Head(chan[R])
  OBVIOUS
<1>8. \A y : Carries(R, In(R), m, y) => ToReceiver(n, In(R), m, y)
  <2>1. In(R) >= 6 * n /\ In(R) < 6 * n + 6
    BY <1>6
  <2> QED
    BY <1>2, <1>7, <2>1, CallMessage, TwoParties
<1>9. \A y : ToReceiver(n, In(R), m, y) =>
                /\ y = 6 * n + 6
                /\ \E shuffles \in [1..num_of_fun[S] -> Shuffles(Len(calls[S][n]))] :
                      m.value = SenderMasks(Stream(n), num_of_fun[S], calls[S][n], shuffles)
  BY <1>6 DEF ToReceiver, Says
<1>10. \E y \in Int : Carries(R, In(R), m, y)
  BY <1>7, NextMessage, TwoParties
<1>11. PICK shuffles \in [1..num_of_fun[S] -> Shuffles(Len(calls[S][n]))] :
         m.value = SenderMasks(Stream(n), num_of_fun[S], calls[S][n], shuffles)
  BY <1>8, <1>9, <1>10
<1>12. Found(Stream(n), function_ids, calls[R][n], m.value, Len(calls[S][n]))
         = {i \in DOMAIN calls[R][n] : calls[R][n][i] \in Range(calls[S][n])}
  <2>1. PICK functions \in Nat, size \in Nat \ {0}, theirs \in Seq(Keys), mine \in Seq(Keys),
             seed \in {Stream(n)}, placed \in {function_ids} :
          /\ functions = num_of_fun[R] /\ functions = num_of_fun[S]
          /\ theirs = calls[S][n] /\ size = Len(theirs) /\ mine = calls[R][n]
          /\ seed = Stream(n) /\ placed = function_ids
    BY <1>4, <1>5
  <2>2. /\ placed \in [1..Len(mine) -> 1..functions]
        /\ shuffles \in [1..functions -> Shuffles(size)]
        /\ Len(theirs) = size
        /\ m.value = SenderMasks(seed, functions, theirs, shuffles)
    BY <1>3, <1>11, <2>1
  <2>3. Found(seed, placed, mine, SenderMasks(seed, functions, theirs, shuffles), size)
          = {i \in DOMAIN mine : mine[i] \in Range(theirs)}
    BY <2>2, FoundIs
  <2> QED
    BY <2>1, <2>2, <2>3
<1>13. {i \in DOMAIN calls[R][n] : calls[R][n][i] \in Range(calls[S][n])} = Common(n)
  BY DEF Common, S, R
<1> QED
  BY <1>2, <1>3, <1>4, <1>7, <1>8, <1>9, <1>12, <1>13

LEMMA RecvMasksKeeps ==
    ASSUME KkrtInv, RecvMasks
    PROVE  KkrtInv'
<1>1. /\ stage[R] = "masks" /\ chan[R] # <<>>
      /\ chan' = [chan EXCEPT ![R] = Tail(@)]
      /\ UNCHANGED <<epsilon, num_of_fun, sender_obtain_result, modes, calls, remote,
                     common_prng>>
  BY DEF RecvMasks, At, Take, R, config
<1>2. stage[R] \in Passed /\ stage[R] \in OneWay
  BY <1>1 DEF Passed, OneWay
<1>3. PICK n \in Nat : n = Number(R) /\ n > 0
  BY <1>2, ReceiverPassed
<1>4. IF sender_obtain_result[R]
      THEN /\ Enter(R, "count") /\ found' = Common(n)
           /\ UNCHANGED <<results, stash_size, function_ids>>
      ELSE /\ Enter(R, "idle")
           /\ results' = [results EXCEPT ![R] = Append(@, Result(Common(n)))]
           /\ stash_size' = 0 /\ function_ids' = <<>> /\ found' = {}
  <2>1. PICK positions : positions = Found(common_prng[R], function_ids, Current(R),
                                           Head(chan[R]).value, remote[R])
    OBVIOUS
  <2>2. positions = Common(n)
    BY <1>1, <1>3, <2>1, MasksRead
  <2>3. IF sender_obtain_result[R]
        THEN /\ Enter(R, "count") /\ found' = positions
             /\ UNCHANGED <<results, stash_size, function_ids>>
        ELSE /\ Enter(R, "idle")
             /\ results' = [results EXCEPT ![R] = Append(@, Result(positions))]
             /\ stash_size' = 0 /\ function_ids' = <<>> /\ found' = {}
    BY <2>1 DEF RecvMasks, Return, R
  <2> QED
    BY <2>2, <2>3
<1>5. TypeOK /\ n \in DOMAIN calls[R]
  BY <1>2, <1>3, ReceiverPassed DEF KkrtInv
<1>6. chan' \in [Party -> Seq(InTransit')] /\ \A x \in InTransit' : MessageOK(x)
  BY <1>1, <1>5, ReadType, TwoParties
<1>7. In(R) = 6 * n + 3 /\ Out(R) = AfterOt(n)
  BY <1>1, <1>3, TwoParties DEF In, Out, InInit
<1>8. \A y \in Int : Carries(R, In(R), Head(chan[R]), y) => y = 6 * n + 6
  BY <1>1, <1>3, MasksRead
<1>9. CASE sender_obtain_result[R]
  <2>1. /\ Alone(R) /\ NoneGivesUp /\ Control(R)' /\ Knows(R)' /\ Number(R)' = n
        /\ stage' \in [Party -> TwoWay \cup OneWay \cup Rest] /\ stage'[R] = "count"
        /\ io' \in [Party -> {"send", "recv", "done", "none"}]
        /\ Ended' /\ ResultCorrect'
    BY <1>1, <1>2, <1>3, <1>4, <1>9, GoesOn, TwoParties DEF Passed
  <2>2. found' \subseteq 1..Len(function_ids')
    <3>1. DOMAIN calls[R][n] = 1..Len(calls[R][n]) /\ Len(calls[R][n]) \in Nat
      BY <1>5, CallKeys, TwoParties
    <3>2. /\ function_ids \in [1..Len(calls[R][n]) -> 1..num_of_fun[R]]
          /\ function_ids \in Seq(Nat)
      BY <1>2, <1>3, <1>5, ReceiverPassed DEF Current, TypeOK
    <3>3. Len(function_ids) = Len(calls[R][n])
      BY <3>1, <3>2, LenProperties
    <3> QED
      BY <1>4, <1>5, <1>9, <3>1, <3>3, CommonType
  <2>3. TypeOK'
    BY <1>1, <1>4, <1>5, <1>6, <1>9, <2>1, <2>2, TypeAfter DEF TypeOK
  <2>4. \A q \in Party : InOrder(q)'
    <3>1. In(R)' = 6 * n + 6 /\ Out(R)' = Out(R)
      BY <1>7, <1>9, <2>1, TwoParties DEF In, Out, InInit, AfterOt
    <3> QED
      BY <1>1, <1>8, <2>1, <3>1, ReadsOrder, TwoParties
  <2>5. TableOK'
    BY <1>1, <1>2, <1>3, <1>4, <1>9, <2>1, TableKept DEF Passed
  <2> QED
    BY <2>1, <2>3, <2>4, <2>5, Together, TwoParties
<1>10. CASE ~sender_obtain_result[R]
  <2>1. PICK result : result = Result(Common(n))
    OBVIOUS
  <2>2. result = RightResult(R, Number(R)) /\ result \in Outcome /\ result # Threw
    BY <1>2, <1>3, <2>1, ResultIs
  <2>3. Enter(R, "idle") /\ results' = [results EXCEPT ![R] = Append(@, result)]
    BY <1>4, <1>10, <2>1
  <2>4. /\ Alone(R) /\ NoneGivesUp /\ Control(R)' /\ Knows(R)' /\ Number(R)' = n
        /\ stage' \in [Party -> TwoWay \cup OneWay \cup Rest] /\ stage'[R] = "idle"
        /\ io' \in [Party -> {"send", "recv", "done", "none"}]
        /\ results' \in [Party -> Seq(Outcome)]
        /\ Ended' /\ ResultCorrect'
    BY ZenonT(60), <1>1, <1>2, <1>3, <2>2, <2>3, ComesBack, TwoParties
  <2>5. TypeOK'
    <3>1. stash_size' \in Nat /\ function_ids' \in Seq(Nat) /\ found' \subseteq 1..Len(function_ids')
      BY <1>4, <1>10
    <3>2. remote' \in [Party -> Nat]
      BY <1>1, <1>5 DEF TypeOK
    <3> QED
      BY <1>1, <1>5, <1>6, <2>4, <3>1, <3>2, TypeAfter
  <2>6. \A q \in Party : InOrder(q)'
    <3>1. In(R)' = 6 * n + 6 /\ Out(R)' = Out(R)
      BY <1>7, <1>10, <2>4, TwoParties DEF In, Out, InInit, AfterOt
    <3> QED
      BY <1>1, <1>8, <2>4, <3>1, ReadsOrder, TwoParties
  <2>7. TableOK'
    BY <1>4, <1>10, <2>4, TableGone
  <2> QED
    BY <2>4, <2>5, <2>6, <2>7, Together, TwoParties
<1> QED
  BY <1>9, <1>10

\* The receiver passes on what it has found.
LEMMA SendCountKeeps ==
    ASSUME KkrtInv, SendCount
    PROVE  KkrtInv'
<1>1. /\ stage[R] = "count"
      /\ UNCHANGED <<epsilon, num_of_fun, sender_obtain_result, modes, calls, remote,
                     common_prng>>
      /\ IF OnlyCardinality(R)
         THEN /\ Enter(R, "idle")
              /\ results' = [results EXCEPT ![R] = Append(@, Result(found))]
              /\ stash_size' = 0 /\ function_ids' = <<>> /\ found' = {}
         ELSE Enter(R, "keys") /\ UNCHANGED <<results, stash_size, function_ids, found>>
  BY DEF SendCount, At, Continue, Return, R, config, table
<1>2. PICK m : /\ m = [is |-> "count", width |-> Word, value |-> Cardinality(found)]
               /\ chan' = [chan EXCEPT ![Peer(R)] = Append(@, m)]
  BY DEF SendCount, At, Post, R
<1>3. stage[R] \in Passed /\ stage[R] \in OneWay
  BY <1>1 DEF Passed, OneWay
<1>4. PICK n \in Nat : n = Number(R) /\ n > 0
  BY <1>3, ReceiverPassed
<1>5. /\ n \in DOMAIN calls[R] /\ n \in DOMAIN calls[S] /\ found = Common(n)
      /\ OnlyCardinality(R) = modes[n]
  BY <1>1, <1>3, <1>4, ReceiverPassed DEF OnlyCardinality
<1>6. TypeOK /\ Cardinality(Common(n)) \in Nat
  BY <1>5, CommonType DEF KkrtInv
<1>7. MessageOK(m)
  BY <1>2, <1>5, <1>6 DEF MessageOK, TwoWay, OneWay, Word, Width, Widths
<1>8. chan' \in [Party -> Seq(InTransit')] /\ \A x \in InTransit' : MessageOK(x)
  BY <1>2, <1>6, <1>7, SentType, TwoParties
<1>9. PICK high \in Nat, top \in Nat : high = 6 * n + 4 /\ top = AfterCount(n)
  BY DEF AfterCount
<1>10. In(R) = 6 * n + 6 /\ Out(R) = high /\ high < top
  BY <1>1, <1>4, <1>9, TwoParties DEF In, Out, InInit, AfterCount
<1>11. Common(n)' = Common(n) /\ AfterCount(n)' = AfterCount(n)
  BY <1>1 DEF Common, AfterCount
<1>12. Carries(Peer(R), high, m, top)'
  <2>1. ToSender(n, high, m, top)'
    BY <1>1, <1>2, <1>5, <1>9, <1>11 DEF ToSender, Says, Word, Width
  <2> QED
    BY <1>1, <1>5, <2>1, TwoParties DEF Carries
<1>13. CASE ~OnlyCardinality(R)
  <2>1. sender_obtain_result[R] /\ ~modes[Number(R)]
    BY <1>1, <1>4, <1>5, <1>13, Before, TwoParties DEF Control
  <2>2. /\ Alone(R) /\ NoneGivesUp /\ Control(R)' /\ Knows(R)' /\ Number(R)' = n
        /\ stage' \in [Party -> TwoWay \cup OneWay \cup Rest] /\ stage'[R] = "keys"
        /\ io' \in [Party -> {"send", "recv", "done", "none"}]
        /\ Ended' /\ ResultCorrect'
    BY <1>1, <1>3, <1>4, <1>13, <2>1, GoesOn, TwoParties DEF Passed
  <2>3. TypeOK'
    BY <1>1, <1>6, <1>8, <1>13, <2>2, TypeAfter DEF TypeOK
  <2>4. In(R)' = In(R) /\ Out(R)' = top
    BY <1>5, <1>9, <1>10, <1>13, <2>2, TwoParties DEF In, Out, InInit, AfterCount
  <2>5. \A q \in Party : InOrder(q)'
    BY <1>2, <1>10, <1>12, <2>2, <2>4, SendsOrder, TwoParties
  <2>6. TableOK'
    BY <1>1, <1>3, <1>4, <1>5, <1>13, <2>2, TableKept DEF Passed
  <2> QED
    BY <2>2, <2>3, <2>5, <2>6, Together, TwoParties
<1>14. CASE OnlyCardinality(R)
  <2>1. PICK result : result = Result(Common(n))
    OBVIOUS
  <2>2. result = RightResult(R, Number(R)) /\ result \in Outcome /\ result # Threw
    BY <1>3, <1>4, <2>1, ResultIs
  <2>3. Enter(R, "idle") /\ results' = [results EXCEPT ![R] = Append(@, result)]
    BY <1>1, <1>5, <1>14, <2>1
  <2>4. /\ Alone(R) /\ NoneGivesUp /\ Control(R)' /\ Knows(R)' /\ Number(R)' = n
        /\ stage' \in [Party -> TwoWay \cup OneWay \cup Rest] /\ stage'[R] = "idle"
        /\ io' \in [Party -> {"send", "recv", "done", "none"}]
        /\ results' \in [Party -> Seq(Outcome)]
        /\ Ended' /\ ResultCorrect'
    BY <1>1, <1>3, <1>4, <2>2, <2>3, ComesBack, TwoParties
  <2>5. TypeOK'
    <3>1. stash_size' \in Nat /\ function_ids' \in Seq(Nat) /\ found' \subseteq 1..Len(function_ids')
      BY <1>1, <1>14
    <3>2. remote' \in [Party -> Nat]
      BY <1>1, <1>6 DEF TypeOK
    <3> QED
      BY <1>1, <1>6, <1>8, <2>4, <3>1, <3>2, TypeAfter
  <2>6. In(R)' = In(R) /\ Out(R)' = top
    BY <1>5, <1>9, <1>10, <1>14, <2>4, TwoParties DEF In, Out, InInit, AfterCount
  <2>7. \A q \in Party : InOrder(q)'
    BY <1>2, <1>10, <1>12, <2>4, <2>6, SendsOrder, TwoParties
  <2>8. TableOK'
    BY <1>1, <1>14, <2>4, TableGone
  <2> QED
    BY <2>4, <2>5, <2>7, <2>8, Together, TwoParties
<1> QED
  BY <1>13, <1>14

LEMMA SendKeysKeeps ==
    ASSUME KkrtInv, SendKeys
    PROVE  KkrtInv'
<1>1. /\ stage[R] = "keys" /\ Enter(R, "idle")
      /\ UNCHANGED <<epsilon, num_of_fun, sender_obtain_result, modes, calls, remote,
                     common_prng>>
      /\ results' = [results EXCEPT ![R] = Append(@, Result(found))]
      /\ stash_size' = 0 /\ function_ids' = <<>> /\ found' = {}
  BY DEF SendKeys, At, Return, R, config
<1>2. PICK m : /\ m = [is |-> "keys", width |-> Width("bytes", Len(Result(found).keys)),
                       value |-> Result(found).keys]
               /\ chan' = [chan EXCEPT ![Peer(R)] = Append(@, m)]
  BY DEF SendKeys, At, Post, R
<1>3. stage[R] \in Passed /\ stage[R] \in OneWay
  BY <1>1 DEF Passed, OneWay
<1>4. PICK n \in Nat : n = Number(R) /\ n > 0
  BY <1>3, ReceiverPassed
<1>5. /\ n \in DOMAIN calls[R] /\ n \in DOMAIN calls[S] /\ found = Common(n)
      /\ Current(R) = calls[R][n]
  BY <1>1, <1>3, <1>4, ReceiverPassed
<1>6. ~modes[n]
  BY <1>1, <1>4, Before, TwoParties DEF Control
<1>7. Result(found).keys = Pick(calls[R][n], Common(n))
  BY <1>4, <1>5, <1>6 DEF Result, OnlyCardinality, Returned, R
<1>8. /\ TypeOK /\ Cardinality(Common(n)) \in Nat
      /\ Pick(calls[R][n], Common(n)) \in Seq(Keys)
      /\ Len(Pick(calls[R][n], Common(n))) = Cardinality(Common(n))
  BY <1>5, CommonType DEF KkrtInv
<1>9. /\ m.is = "keys" /\ m.width = Width("bytes", Cardinality(Common(n)))
      /\ m.value = Pick(calls[R][n], Common(n))
  BY <1>2, <1>7, <1>8
<1>10. MessageOK(m)
  BY <1>8, <1>9 DEF MessageOK, TwoWay, OneWay, Width, Widths
<1>11. chan' \in [Party -> Seq(InTransit')] /\ \A x \in InTransit' : MessageOK(x)
  BY <1>2, <1>8, <1>10, SentType, TwoParties
<1>12. PICK high \in Nat, top \in Nat : high = 6 * n + 5 /\ top = 6 * n + 6
  OBVIOUS
<1>13. In(R) = 6 * n + 6 /\ Out(R) = high /\ high < top
  BY <1>1, <1>4, <1>12, TwoParties DEF In, Out, InInit
<1>14. Carries(Peer(R), high, m, top)'
  <2>1. Common(n)' = Common(n) /\ calls' = calls
    BY <1>1 DEF Common
  <2>2. ToSender(n, high, m, top)'
    BY <1>5, <1>9, <1>12, <2>1 DEF ToSender, Says, Width
  <2> QED
    BY <1>1, <1>5, <2>2, TwoParties DEF Carries
<1>15. PICK result : result = Result(Common(n))
  OBVIOUS
<1>16. result = RightResult(R, Number(R)) /\ result \in Outcome /\ result # Threw
  BY <1>3, <1>4, <1>15, ResultIs
<1>17. results' = [results EXCEPT ![R] = Append(@, result)]
  BY <1>1, <1>5, <1>15
<1>18. /\ Alone(R) /\ NoneGivesUp /\ Control(R)' /\ Knows(R)' /\ Number(R)' = n
       /\ stage' \in [Party -> TwoWay \cup OneWay \cup Rest] /\ stage'[R] = "idle"
       /\ io' \in [Party -> {"send", "recv", "done", "none"}]
       /\ results' \in [Party -> Seq(Outcome)]
       /\ Ended' /\ ResultCorrect'
  BY ZenonT(60), <1>1, <1>3, <1>4, <1>16, <1>17, ComesBack, TwoParties
<1>19. TypeOK'
  <2>1. stash_size' \in Nat /\ function_ids' \in Seq(Nat) /\ found' \subseteq 1..Len(function_ids')
    BY <1>1
  <2>2. remote' \in [Party -> Nat]
    BY <1>1, <1>8 DEF TypeOK
  <2> QED
    BY <1>1, <1>8, <1>11, <1>18, <2>1, <2>2, TypeAfter
<1>20. In(R)' = In(R) /\ Out(R)' = top
  BY <1>12, <1>13, <1>18, TwoParties DEF In, Out, InInit
<1>21. \A q \in Party : InOrder(q)'
  BY <1>2, <1>13, <1>14, <1>18, <1>20, SendsOrder, TwoParties
<1>22. TableOK'
  BY <1>1, <1>18, TableGone
<1> QED
  BY <1>18, <1>19, <1>21, <1>22, Together, TwoParties

\* The sender is told what the receiver has found.
LEMMA RecvCountKeeps ==
    ASSUME KkrtInv, RecvCount
    PROVE  KkrtInv'
<1>1. PICK count : count = Head(chan[S]).value
  OBVIOUS
<1>2. /\ stage[S] = "count" /\ chan[S] # <<>>
      /\ chan' = [chan EXCEPT ![S] = Tail(@)]
      /\ remote' = [remote EXCEPT ![S] = count]
      /\ UNCHANGED <<epsilon, num_of_fun, sender_obtain_result, modes, calls,
                     common_prng, stash_size, function_ids, found>>
      /\ IF OnlyCardinality(S)
         THEN /\ Enter(S, "idle")
              /\ results' = [results EXCEPT ![S] = Append(@, Returned(<<>>, count))]
         ELSE Enter(S, "keys") /\ results' = results
  BY <1>1 DEF RecvCount, At, Take, Continue, Return, S, config, table
<1>3. stage[S] \in Passed /\ stage[S] \in OneWay
  BY <1>2 DEF Passed, OneWay
<1>4. PICK n \in Nat : n = Number(S) /\ n > 0
  BY <1>3, SenderPassed
<1>5. /\ n \in DOMAIN calls[R] /\ GotThrough(n) /\ OnlyCardinality(S) = modes[n]
      /\ sender_obtain_result[S]
  BY <1>2, <1>3, <1>4, SenderPassed, Before, TwoParties DEF OnlyCardinality, Control
<1>6. In(S) = 6 * n + 4 /\ Out(S) = 6 * n + 6
  BY <1>2, <1>4 DEF In, Out, InInit
<1>7. \A y : Carries(S, In(S), Head(chan[S]), y) =>
                y = AfterCount(n) /\ count = Cardinality(Common(n))
  <2>1. PICK m : m = Head(chan[S])
    OBVIOUS
  <2>2. \A y : Carries(S, In(S), m, y) => ToSender(n, In(S), m, y)
    <3>1. In(S) >= 6 * n /\ In(S) < 6 * n + 6
      BY <1>6
    <3> QED
      BY <1>2, <1>4, <2>1, <3>1, CallMessage, TwoParties
  <2>3. \A y : ToSender(n, In(S), m, y) =>
                  y = AfterCount(n) /\ m.value = Cardinality(Common(n))
    BY <1>6 DEF ToSender, Says
  <2> QED
    BY <1>1, <2>1, <2>2, <2>3
<1>8. count = Cardinality(Common(n)) /\ count \in Nat
  BY <1>2, <1>5, <1>7, NextMessage, CommonType, TwoParties DEF KkrtInv
<1>9. TypeOK
  BY DEF KkrtInv
<1>10. chan' \in [Party -> Seq(InTransit')] /\ \A x \in InTransit' : MessageOK(x)
  BY <1>2, <1>9, ReadType, TwoParties
<1>11. /\ remote' \in [Party -> Nat] /\ remote'[S] = count
       /\ remote'[Peer(S)] = remote[Peer(S)]
  BY <1>2, <1>8, <1>9, TwoParties DEF TypeOK
<1>12. CASE ~OnlyCardinality(S)
  <2>1. ~modes[Number(S)]
    BY <1>4, <1>5, <1>12
  <2>2. /\ Alone(S) /\ NoneGivesUp /\ Control(S)' /\ Knows(S)' /\ Number(S)' = n
        /\ stage' \in [Party -> TwoWay \cup OneWay \cup Rest] /\ stage'[S] = "keys"
        /\ io' \in [Party -> {"send", "recv", "done", "none"}]
        /\ Ended' /\ ResultCorrect'
    BY <1>2, <1>3, <1>4, <1>5, <1>11, <1>12, <2>1, GoesOn, TwoParties DEF Passed
  <2>3. TypeOK'
    BY <1>2, <1>9, <1>10, <1>11, <1>12, <2>2, TypeAfter DEF TypeOK
  <2>4. In(S)' = AfterCount(n) /\ Out(S)' = Out(S)
    BY <1>5, <1>6, <1>12, <2>2 DEF In, Out, InInit, AfterCount
  <2>5. \A q \in Party : InOrder(q)'
    BY <1>2, <1>7, <2>2, <2>4, ReadsOrder, TwoParties
  <2>6. SenderKnows'
    <3>1. Common(n)' = Common(n)
      BY <1>2 DEF Common
    <3> QED
      BY <1>5, <1>8, <1>11, <2>2, <3>1 DEF SenderKnows, Alone
  <2> QED
    BY <2>2, <2>3, <2>5, <2>6, Together, TwoParties
<1>13. CASE OnlyCardinality(S)
  <2>1. PICK result : result = Returned(<<>>, count)
    OBVIOUS
  <2>2. result \in Outcome /\ result # Threw
    <3>1. <<>> \in Seq(Keys)
      OBVIOUS
    <3> QED
      BY <1>8, <2>1, <3>1, ReturnedType
  <2>3. result = RightResult(S, Number(S)) /\ results' = [results EXCEPT ![S] = Append(@, result)]
    BY <1>2, <1>4, <1>5, <1>8, <1>13, <2>1 DEF RightResult
  <2>4. IF result = Threw THEN GaveUp(Number(S)) ELSE GotThrough(Number(S))
    BY <1>4, <1>5, <2>2
  <2>5. /\ Alone(S) /\ NoneGivesUp /\ Control(S)' /\ Knows(S)' /\ Number(S)' = n
        /\ stage' \in [Party -> TwoWay \cup OneWay \cup Rest] /\ stage'[S] = "idle"
        /\ io' \in [Party -> {"send", "recv", "done", "none"}]
        /\ results' \in [Party -> Seq(Outcome)]
        /\ Ended' /\ ResultCorrect'
    BY <1>2, <1>3, <1>4, <1>11, <1>13, <2>2, <2>3, <2>4, ComesBack, TwoParties
  <2>6. TypeOK'
    BY <1>2, <1>9, <1>10, <1>11, <2>5, TypeAfter DEF TypeOK
  <2>7. In(S)' = AfterCount(n) /\ Out(S)' = Out(S)
    BY <1>5, <1>6, <1>13, <2>5 DEF In, Out, InInit, AfterCount
  <2>8. \A q \in Party : InOrder(q)'
    BY <1>2, <1>7, <2>5, <2>7, ReadsOrder, TwoParties
  <2>9. SenderKnows'
    BY <2>5 DEF SenderKnows
  <2> QED
    BY <2>5, <2>6, <2>8, <2>9, Together, TwoParties
<1> QED
  BY <1>12, <1>13

LEMMA RecvKeysKeeps ==
    ASSUME KkrtInv, RecvKeys
    PROVE  KkrtInv'
<1>1. PICK keys : keys = Head(chan[S]).value
  OBVIOUS
<1>2. /\ stage[S] = "keys" /\ chan[S] # <<>> /\ Enter(S, "idle")
      /\ chan' = [chan EXCEPT ![S] = Tail(@)]
      /\ UNCHANGED <<epsilon, num_of_fun, sender_obtain_result, modes, calls, remote,
                     common_prng, stash_size, function_ids, found>>
      /\ results' = [results EXCEPT ![S] = Append(@, Returned(keys, 0))]
  BY <1>1 DEF RecvKeys, At, Take, Return, S, config, table
<1>3. stage[S] \in Passed /\ stage[S] \in OneWay
  BY <1>2 DEF Passed, OneWay
<1>4. PICK n \in Nat : n = Number(S) /\ n > 0
  BY <1>3, SenderPassed
<1>5. /\ n \in DOMAIN calls[R] /\ GotThrough(n)
      /\ ~modes[n] /\ sender_obtain_result[S]
  BY <1>2, <1>3, <1>4, SenderPassed, Before, TwoParties DEF Control
<1>6. In(S) = 6 * n + 5 /\ Out(S) = 6 * n + 6
  BY <1>2, <1>4 DEF In, Out, InInit
<1>7. \A y : Carries(S, In(S), Head(chan[S]), y) =>
                y = 6 * n + 6 /\ keys = Pick(calls[R][n], Common(n))
  <2>1. PICK m : m = Head(chan[S])
    OBVIOUS
  <2>2. \A y : Carries(S, In(S), m, y) => ToSender(n, In(S), m, y)
    <3>1. In(S) >= 6 * n /\ In(S) < 6 * n + 6
      BY <1>6
    <3> QED
      BY <1>2, <1>4, <2>1, <3>1, CallMessage, TwoParties
  <2>3. \A y : ToSender(n, In(S), m, y) =>
                  y = 6 * n + 6 /\ m.value = Pick(calls[R][n], Common(n))
    BY <1>6 DEF ToSender, Says
  <2> QED
    BY <1>1, <2>1, <2>2, <2>3
<1>8. keys = Pick(calls[R][n], Common(n)) /\ keys \in Seq(Keys)
  BY <1>2, <1>5, <1>7, NextMessage, CommonType, TwoParties DEF KkrtInv
<1>9. PICK result : result = Returned(keys, 0)
  OBVIOUS
<1>10. result \in Outcome /\ result # Threw
  BY <1>8, <1>9, ReturnedType
<1>11. result = RightResult(S, Number(S)) /\ results' = [results EXCEPT ![S] = Append(@, result)]
  BY <1>2, <1>4, <1>5, <1>8, <1>9 DEF RightResult
<1>12. IF result = Threw THEN GaveUp(Number(S)) ELSE GotThrough(Number(S))
  BY <1>4, <1>5, <1>10
<1>13. /\ Alone(S) /\ NoneGivesUp /\ Control(S)' /\ Knows(S)' /\ Number(S)' = n
       /\ stage' \in [Party -> TwoWay \cup OneWay \cup Rest] /\ stage'[S] = "idle"
       /\ io' \in [Party -> {"send", "recv", "done", "none"}]
       /\ results' \in [Party -> Seq(Outcome)]
       /\ Ended' /\ ResultCorrect'
  <2>1. /\ Enter(S, "idle") /\ remote'[Peer(S)] = remote[Peer(S)]
        /\ UNCHANGED <<epsilon, num_of_fun, sender_obtain_result, modes, calls, common_prng>>
        /\ UNCHANGED <<stash_size, function_ids, found>>
    BY <1>2
  <2> QED
    BY <1>3, <1>4, <1>10, <1>11, <1>12, <2>1, ComesBack, TwoParties
<1>14. TypeOK'
  <2>1. TypeOK
    BY DEF KkrtInv
  <2>2. chan' \in [Party -> Seq(InTransit')] /\ \A x \in InTransit' : MessageOK(x)
    BY <1>2, <2>1, ReadType, TwoParties
  <2> QED
    BY <1>2, <1>13, <2>1, <2>2, TypeAfter DEF TypeOK
<1>15. In(S)' = 6 * n + 6 /\ Out(S)' = Out(S)
  BY <1>6, <1>13 DEF In, Out, InInit
<1>16. \A q \in Party : InOrder(q)'
  BY <1>2, <1>7, <1>13, <1>15, ReadsOrder, TwoParties
<1>17. SenderKnows'
  BY <1>13 DEF SenderKnows
<1> QED
  BY <1>13, <1>14, <1>16, <1>17, Together, TwoParties

-----------------------------------------------------------------------------
(* Theorems.                                                               *)

LEMMA InitHolds ==
    ASSUME FlagsAgree, Init
    PROVE  KkrtInv
<1>1. /\ stage = [p \in Party |-> "epsilon"] /\ io = [p \in Party |-> First(p)]
      /\ calls = [p \in Party |-> <<>>] /\ results = [p \in Party |-> <<>>]
      /\ chan = [p \in Party |-> <<>>] /\ remote = [p \in Party |-> 0]
      /\ common_prng = [p \in Party |-> [seed |-> {}, draws |-> 0]]
      /\ stash_size = 0 /\ function_ids = <<>> /\ found = {}
  BY DEF Init
<1>2. \A p \in Party :
         /\ stage[p] = "epsilon" /\ io[p] = First(p) /\ io[p] \in {"send", "recv"}
         /\ calls[p] = <<>> /\ results[p] = <<>> /\ chan[p] = <<>> /\ Number(p) = 0
         /\ common_prng[p] = [seed |-> {}, draws |-> 0]
         /\ ~HasRead(p) /\ ~HasWritten(p)
  BY <1>1 DEF First, Number, HasRead, HasWritten, Starts, Rest
<1>3. TypeOK
  <2>1. InTransit = {}
    BY <1>2 DEF InTransit, Range
  <2>2. [seed |-> {}, draws |-> 0] \in Prng
    BY DEF Prng
  <2>3. /\ calls \in [Party -> Seq(Inputs)] /\ results \in [Party -> Seq(Outcome)]
        /\ chan \in [Party -> Seq(InTransit)] /\ common_prng \in [Party -> Prng]
        /\ stage \in [Party -> TwoWay \cup OneWay \cup Rest]
        /\ io \in [Party -> {"send", "recv", "done", "none"}]
        /\ remote \in [Party -> Nat] /\ found \subseteq 1..Len(function_ids)
        /\ function_ids \in Seq(Nat)
    BY <1>1, <2>2 DEF TwoWay, First
  <2> QED
    BY <1>1, <2>1, <2>3 DEF TypeOK, Init
<1>4. sender_obtain_result[S] = sender_obtain_result[R]
  BY DEF FlagsAgree, Init
<1>5. \A p \in Party : Control(p) /\ Knows(p)
  <2>1. SUFFICES ASSUME NEW p \in Party PROVE Control(p) /\ Knows(p)
    OBVIOUS
  <2>2. Len(results[p]) = 0 /\ 0 <= MaxCalls
    BY <1>2, KkrtBoundsAssumption
  <2>3. Number(p) = Len(results[p]) + (IF stage[p] \in InCall THEN 1 ELSE 0)
    BY <1>2, <2>2 DEF InCall
  <2>4. Control(p)
    BY <1>2, <2>2, <2>3 DEF Control, InInit, InCall, TwoWay
  <2> QED
    BY <1>2, <2>4 DEF Knows
<1>6. \A p \in Party : InOrder(p)
  <2>1. SUFFICES ASSUME NEW p \in Party PROVE InOrder(p)
    OBVIOUS
  <2>2. In(p) = 1 /\ Out(Peer(p)) = 1
    BY <1>2, TwoParties DEF In, Out, InInit, InitId
  <2>3. PICK ids : ids = [i \in 1..1 |-> 1]
    OBVIOUS
  <2>4. /\ Len(chan[p]) = 0 /\ ids \in [1..(0 + 1) -> 1..1] /\ ids[1] = 1
        /\ \A i, j \in 1..(0 + 1) : ~(i < j)
    BY <1>2, <2>3
  <2> QED
    BY <2>2, <2>4 DEF InOrder
<1>7. SenderKnows /\ TableOK
  BY <1>1, <1>2, TwoParties DEF SenderKnows, TableOK, InCall
<1>8. Ended /\ ResultCorrect
  BY <1>2, TwoParties DEF Ended, ResultCorrect
<1> QED
  BY <1>3, <1>4, <1>5, <1>6, <1>7, <1>8 DEF KkrtInv

LEMMA NextHolds ==
    ASSUME KkrtInv, [Next]_vars
    PROVE  KkrtInv'
<1>1. ASSUME NEW p \in Party, Process(p) PROVE KkrtInv'
  BY <1>1, ProcessKeeps
<1>2. ASSUME NEW p \in Party, SendValue(p) PROVE KkrtInv'
  BY <1>2, SendValueKeeps
<1>3. ASSUME NEW p \in Party, RecvValue(p) PROVE KkrtInv'
  BY <1>3, RecvValueKeeps
<1>4. ASSUME NEW p \in Party, CheckEpsilon(p) PROVE KkrtInv'
  BY <1>4, CheckEpsilonKeeps
<1>5. ASSUME NEW p \in Party, CheckFunNum(p) PROVE KkrtInv'
  BY <1>5, CheckFunNumKeeps
<1>6. ASSUME NEW p \in Party, CreateCommonPrng(p) PROVE KkrtInv'
  BY <1>6, CreateCommonPrngKeeps
<1>7. ASSUME NEW p \in Party, FinishInit(p) PROVE KkrtInv'
  BY <1>7, FinishInitKeeps
<1>8. ASSUME SenderStep PROVE KkrtInv'
  BY <1>8, SimpleHashKeeps, RecvStashSizeKeeps, OtSendKeeps, SendMasksKeeps,
     RecvCountKeeps, RecvKeysKeeps DEF SenderStep
<1>9. ASSUME ReceiverStep PROVE KkrtInv'
  BY <1>9, CuckooHashKeeps, SendStashSizeKeeps, OtReceiveKeeps, RecvMasksKeeps,
     SendCountKeeps, SendKeysKeeps DEF ReceiverStep
<1>10. ASSUME UNCHANGED vars PROVE KkrtInv'
  <2>1. /\ UNCHANGED <<epsilon, num_of_fun, sender_obtain_result, modes, calls, results,
                       stage, io, remote, common_prng, stash_size, function_ids, found, chan>>
    BY <1>10 DEF vars, config, table
  <2>2. Others(S)
    BY <2>1 DEF Others
  <2>3. Alone(S) /\ NoneGivesUp
    BY <2>1, <2>2, MovesOn, TwoParties
  <2>4. TypeOK'
    <3>1. chan' \in [Party -> Seq(InTransit')] /\ \A x \in InTransit' : MessageOK(x)
      BY <2>1, QuietType DEF KkrtInv
    <3>2. TypeOK
      BY DEF KkrtInv
    <3> QED
      BY <2>1, <3>1, <3>2, TypeAfter DEF TypeOK
  <2>5. /\ Control(S) /\ Knows(S) /\ SenderKnows
    BY TwoParties DEF KkrtInv
  <2>6. Number(S)' = Number(S) /\ HasRead(S)' = HasRead(S) /\ HasWritten(S)' = HasWritten(S)
    BY <2>1 DEF Number, HasRead, HasWritten
  <2>7. Control(S)'
    BY <2>1, <2>5, <2>6 DEF Control
  <2>8. Knows(S)'
    BY <2>1, <2>5, <2>6 DEF Knows, Block
  <2>9. Common(Number(S))' = Common(Number(S))
    BY <2>1, <2>6 DEF Common
  <2>10. SenderKnows'
    BY <2>1, <2>3, <2>5, <2>6, <2>9 DEF SenderKnows, Alone
  <2>11. In(S)' = In(S) /\ Out(S)' = Out(S)
    <3>1. \A n : AfterOt(n)' = AfterOt(n) /\ AfterSize(n)' = AfterSize(n)
      BY <2>1 DEF AfterOt, AfterSize, GaveUp
    <3>2. ThrewId' = ThrewId
      BY <2>1 DEF ThrewId
    <3>3. In(S)' = In(S)
      BY <2>1, <2>6, <3>1, <3>2 DEF In
    <3>4. Out(S)' = Out(S)
      BY <2>1, <2>6, <3>1, <3>2 DEF Out
    <3> QED
      BY <3>3, <3>4
  <2>12. \A q \in Party : InOrder(q)'
    BY <2>1, <2>3, <2>11, QuietOrder, TwoParties
  <2>13. Ended' /\ ResultCorrect'
    BY <2>1, <2>3, ResultsStay, TwoParties
  <2> QED
    BY <2>3, <2>4, <2>7, <2>8, <2>10, <2>12, <2>13, Together, TwoParties
<1> QED
  BY <1>1, <1>2, <1>3, <1>4, <1>5, <1>6, <1>7, <1>8, <1>9, <1>10 DEF Next, Step

\* The invariant: each channel holds the messages between its two ends, and a
\* party knows what it has been told.  check_params does not compare the two
\* values of sender_obtain_result: that they agree is a hypothesis.
THEOREM MessagesInPlace ==
    FlagsAgree => (Spec => []KkrtInv)
<1> SUFFICES ASSUME FlagsAgree PROVE Spec => []KkrtInv
  OBVIOUS
<1>1. Init => KkrtInv
  BY InitHolds
<1>2. KkrtInv /\ [Next]_vars => KkrtInv'
  BY NextHolds
<1> QED
  BY <1>1, <1>2, PTL DEF Spec

\* Every variable keeps its type.
THEOREM KkrtTypes ==
    FlagsAgree => (Spec => []TypeOK)
<1>1. KkrtInv => TypeOK
  BY DEF KkrtInv
<1> QED
  BY <1>1, MessagesInPlace, PTL

\* What a read finds is what it asks for.
LEMMA InSync ==
    ASSUME KkrtInv
    PROVE  WireSync
<1> SUFFICES ASSUME NEW p \in Party, io[p] = "recv", chan[p] # <<>>,
                    NEW m, m = Head(chan[p])
             PROVE  /\ m.is = stage[p]
                    /\ stage[p] = "ot" => m.width.number = Bins(p)
                    /\ stage[p] = "masks" =>
                          /\ m.width.number = num_of_fun[p] * remote[p]
                          /\ \A k \in DOMAIN m.value : m.value[k].seed = common_prng[p]
                    /\ stage[p] = "keys" => m.width.number = remote[p]
  BY DEF WireSync
<1>1. PICK n \in Nat : n = Number(p)
  BY Before
<1>2. PICK y \in Int : Carries(p, In(p), m, y)
  BY NextMessage
<1>3. ~HasRead(p)
  BY DEF HasRead
<1>4. stage[p] \in TwoWay \cup OneWay
  <2>1. stage[p] \in TwoWay \cup OneWay \cup Rest
    BY Before DEF TypeOK
  <2>2. stage[p] \in Rest => io[p] = "none"
    BY Before DEF Control, Rest, TwoWay, Starts
  <2> QED
    BY <2>1, <2>2
<1>5. CASE stage[p] \in InInit
  <2>1. In(p) = InitId(stage[p])
    BY <1>3, <1>5 DEF In, InInit, InitId
  <2>2. InitId(stage[p]) \in Int /\ InitId(stage[p]) < 6
    BY DEF InitId
  <2>3. InitCarries(p, InitId(stage[p]), m, y)
    BY <1>2, <2>1, <2>2, WhichMessage, Before
  <2>4. m.is = stage[p]
    BY <1>5, <2>3 DEF InitCarries, Says, InitId, InInit
  <2> QED
    BY <1>5, <2>4 DEF InInit
<1>6. CASE stage[p] \in InCall
  <2>1. n > 0
    BY <1>1, <1>6, UnderWay
  <2>2. CASE p = S
    <3>1. stage[S] \in {"sizes", "stash", "ot", "count", "keys"}
      <4>1. stage[S] = "masks" => io[S] = "send"
        BY <2>2, Before DEF Control, TwoWay, Starts, First, Rest, S
      <4> QED
        BY <1>6, <2>2, <4>1 DEF InCall
    <3>2. In(S) = CASE stage[S] = "sizes" -> 6 * n [] stage[S] = "stash" -> 6 * n + 1
                    [] stage[S] = "ot" -> 6 * n + 2 [] stage[S] = "count" -> 6 * n + 4
                    [] OTHER -> 6 * n + 5
      BY <1>1, <1>3, <2>2, <3>1 DEF In, InInit
    <3>3. In(S) >= 6 * n /\ In(S) < 6 * n + 6
      BY <3>1, <3>2
    <3>4. ToSender(n, In(S), m, y)
      BY <1>2, <2>1, <2>2, <3>3, CallMessage
    <3>5. m.is = stage[S]
      BY SMTT(60), <3>1, <3>2, <3>4 DEF ToSender, Says
    <3>6. stage[S] = "ot" => m.width.number = Bins(S)
      <4>1. SUFFICES ASSUME stage[S] = "ot" PROVE m.width.number = Bins(S)
        OBVIOUS
      <4>2. m.width = Width("ot", NumOfBins(Len(calls[R][n]), epsilon[R]))
        BY <3>2, <3>4, <4>1 DEF ToSender, Says
      <4>3. remote[S] = Len(calls[R][n]) /\ epsilon[S] = epsilon[R]
        BY <1>1, <2>2, <4>1, Before, TwoParties DEF Knows
      <4> QED
        BY <4>2, <4>3 DEF Width, Bins, ReceiverSize, S
    <3>7. stage[S] = "keys" => m.width.number = remote[S]
      <4>1. SUFFICES ASSUME stage[S] = "keys" PROVE m.width.number = remote[S]
        OBVIOUS
      <4>2. m.width = Width("bytes", Cardinality(Common(n)))
        BY <3>2, <3>4, <4>1 DEF ToSender, Says
      <4>3. remote[S] = Cardinality(Common(n))
        BY <1>1, <2>2, <4>1 DEF KkrtInv, SenderKnows
      <4> QED
        BY <4>2, <4>3 DEF Width
    <3> QED
      BY <2>2, <3>1, <3>5, <3>6, <3>7
  <2>3. CASE p = R
    <3>1. stage[R] \in {"sizes", "masks"}
      <4>1. stage[R] \in {"stash", "ot", "count", "keys"} => io[R] = "send"
        BY <2>3, Before, TwoParties DEF Control, TwoWay, Starts, First, Rest, S
      <4> QED
        BY <1>6, <2>3, <4>1 DEF InCall
    <3>2. In(R) = IF stage[R] = "sizes" THEN 6 * n ELSE 6 * n + 3
      BY <1>1, <1>3, <2>3, <3>1, TwoParties DEF In, InInit
    <3>3. In(R) >= 6 * n /\ In(R) < 6 * n + 6
      BY <3>1, <3>2
    <3>4. ToReceiver(n, In(R), m, y)
      BY <1>2, <2>1, <2>3, <3>3, CallMessage, TwoParties
    <3>5. m.is = stage[R]
      BY <3>1, <3>2, <3>4 DEF ToReceiver, Says
    <3>6. stage[R] = "masks" =>
             /\ m.width.number = num_of_fun[R] * remote[R]
             /\ \A k \in DOMAIN m.value : m.value[k].seed = common_prng[R]
      <4>1. SUFFICES ASSUME stage[R] = "masks"
                     PROVE  /\ m.width.number = num_of_fun[R] * remote[R]
                            /\ \A k \in DOMAIN m.value : m.value[k].seed = common_prng[R]
        OBVIOUS
      <4>2. PICK size \in Nat \ {0}, fun \in Nat, theirs \in Seq(Keys), seed \in Prng :
              /\ theirs = calls[S][n] /\ size = Len(theirs) /\ fun = num_of_fun[S]
              /\ seed = Stream(n) /\ seed = common_prng[R]
        <5>1. n \in DOMAIN calls[S]
          BY <1>1, <2>3, <4>1, Before, TwoParties DEF Knows
        <5>2. common_prng[R] = Stream(n) /\ common_prng[R] \in Prng
          BY <1>1, <2>3, <4>1, StreamIs DEF Passed
        <5> QED
          BY <5>1, <5>2, CallKeys, Before, TwoParties
      <4>3. PICK shuffles \in [1..fun -> Shuffles(size)] :
              /\ m.width = Width("masks", fun * size)
              /\ m.value = SenderMasks(seed, fun, theirs, shuffles)
        BY <3>2, <3>4, <4>1, <4>2 DEF ToReceiver, Says
      <4>4. remote[R] = size /\ num_of_fun[R] = fun
        BY <1>1, <2>3, <4>1, <4>2, Before, TwoParties DEF Knows
      <4>5. \A k \in DOMAIN m.value : m.value[k].seed = seed
        <5>1. PICK masks : masks = SenderMasks(seed, fun, theirs, shuffles)
          OBVIOUS
        <5>2. /\ DOMAIN masks = 1..(fun * size)
              /\ \A k \in 1..(fun * size) : masks[k].seed = seed
          <6>1. /\ shuffles \in [1..fun -> Shuffles(Len(theirs))]
                /\ Len(theirs) \in Nat \ {0}
            BY <4>2, <4>3
          <6>2. /\ DOMAIN masks = 1..(fun * Len(theirs))
                /\ \A k \in 1..(fun * Len(theirs)) : masks[k].seed = seed
            BY <5>1, <6>1, SenderMasksType
          <6> QED
            BY <4>2, <6>2
        <5> QED
          BY <4>3, <5>1, <5>2
      <4> QED
        BY <4>2, <4>3, <4>4, <4>5 DEF Width
    <3> QED
      BY <2>3, <3>1, <3>5, <3>6
  <2> QED
    BY <2>2, <2>3, TwoParties
<1> QED
  BY <1>4, <1>5, <1>6 DEF TwoWay, OneWay, InInit, InCall

\* Every read takes the message it asks for, with the number of items it
\* expects, and masks are searched with the seed they were made with.
THEOREM KkrtWireInSync ==
    FlagsAgree => (Spec => []WireSync)
BY InSync, MessagesInPlace, PTL

\* When both have ended the same calls nothing is left in the network, and the
\* common streams agree: a call after one that threw starts clean.
THEOREM NextCallCanWork ==
    FlagsAgree => (Spec => []ReadyForNext)
<1>1. ASSUME KkrtInv PROVE ReadyForNext
  <2> SUFFICES ASSUME \A p \in Party : stage[p] = "idle", Number(S) = Number(R)
               PROVE  /\ \A p \in Party : chan[p] = <<>>
                      /\ common_prng[S] = common_prng[R]
    BY DEF ReadyForNext, S, R
  <2>1. PICK n \in Nat : n = Number(S) /\ n = Number(R)
    BY <1>1, Before, TwoParties
  <2>2. \A p \in Party : In(p) = 6 * n + 6 /\ Out(p) = 6 * n + 6
    BY <2>1, TwoParties DEF In, Out, InInit
  <2>3. \A p \in Party : common_prng[p] = Stream(n)
    <3>1. SUFFICES ASSUME NEW p \in Party PROVE common_prng[p] = Stream(n)
      OBVIOUS
    <3>2. Number(p) = n /\ stage[p] = "idle"
      BY <2>1, TwoParties
    <3> QED
      BY <1>1, <3>2, Before DEF Control, Stream
  <2>4. \A p \in Party : chan[p] = <<>>
    <3>1. SUFFICES ASSUME NEW p \in Party PROVE chan[p] = <<>>
      OBVIOUS
    <3>2. In(p) = Out(Peer(p))
      BY <2>2, TwoParties
    <3>3. Len(chan[p]) = 0
      BY <1>1, <3>2, Between, Before, Numbers, TwoParties
    <3> QED
      BY <1>1, <3>3, Before DEF TypeOK
  <2> QED
    BY <2>3, <2>4, TwoParties
<1> QED
  BY <1>1, MessagesInPlace, PTL

\* Results are right, call by call, whatever the inputs repeat.
THEOREM KkrtResultsCorrect ==
    FlagsAgree => (Spec => []ResultCorrect)
<1>1. KkrtInv => ResultCorrect
  BY DEF KkrtInv
<1> QED
  BY <1>1, MessagesInPlace, PTL

\* init throws on both sides or on neither, and so does every call.
THEOREM KkrtThrowsAgree ==
    FlagsAgree => (Spec => []ThrowAgreement)
<1>1. ASSUME KkrtInv PROVE ThrowAgreement
  <2>1. ASSUME NEW p \in Party, stage[p] = "threw"
        PROVE  stage[Peer(p)] \in {"epsilon", "fun_num", "threw"}
    <3>1. Knows(p) /\ Knows(Peer(p)) /\ Peer(Peer(p)) = p
      BY <1>1, Before, TwoParties
    <3> QED
      BY <2>1, <3>1 DEF Knows
  <2>2. ASSUME NEW n \in DOMAIN results[S] \cap DOMAIN results[R]
        PROVE  results[S][n] = Threw <=> results[R][n] = Threw
    BY <1>1 DEF KkrtInv, Ended, GaveUp, GotThrough
  <2> QED
    BY <2>1, <2>2 DEF ThrowAgreement, S, R
<1> QED
  BY <1>1, MessagesInPlace, PTL
-----------------------------------------------------------------------------
(* The protocol implements what psi/psi.h promises.                        *)

\* The other hypothesis of what follows: no input repeats a key.  With repeated
\* keys the sender gets the receiver's occurrences, not its own.
NoneRepeats == \A keys \in Inputs : Unrepeated(keys)

\* The refinement mapping of Ideal.
AgreedBar == epsilon["sender"] = epsilon["receiver"]
               /\ num_of_fun["sender"] = num_of_fun["receiver"]
EntitledBar == [p \in Party |-> p = "receiver" \/ sender_obtain_result[p]]
StatusBar == [p \in Party |->
                 CASE stage[p] \in {"epsilon", "fun_num", "seed", "base_ot"} -> "init"
                   [] stage[p] = "threw" -> "threw"
                   [] OTHER -> "open"]
CallsBar == [p \in Party |-> [n \in DOMAIN calls[p] |->
                 [keys |-> calls[p][n], only_cardinality |-> modes[n]]]]

LEMMA IdealVars ==
    Ideal!vars = <<AgreedBar, EntitledBar, StatusBar, CallsBar, results>>
BY DEF Ideal!vars, AgreedBar, EntitledBar, StatusBar, CallsBar

LEMMA IdealInit == Init => Ideal!Init
<1> SUFFICES ASSUME Init PROVE Ideal!Init
  OBVIOUS
<1>1. AgreedBar \in BOOLEAN
  BY DEF AgreedBar
<1>2. StatusBar = [p \in Party |-> "init"]
  BY DEF StatusBar, Init
<1>3. CallsBar = [p \in Party |-> <<>>]
  BY DEF CallsBar, Init
<1>4. EntitledBar \in [Party -> BOOLEAN] /\ results = [p \in Party |-> <<>>]
  <2>1. sender_obtain_result \in [Party -> BOOLEAN]
    BY KkrtParamsAssumption DEF Init
  <2>2. \A p \in Party : (p = "receiver" \/ sender_obtain_result[p]) \in BOOLEAN
    BY <2>1
  <2> QED
    BY <2>2 DEF Init, EntitledBar
<1> QED
  BY <1>1, <1>2, <1>3, <1>4, Zenon
     DEF Ideal!Init, Ideal!Party, Party, AgreedBar, EntitledBar, StatusBar, CallsBar

\* A step that changes no configuration, call, result or status.
LEMMA Stutters ==
    ASSUME UNCHANGED <<config, calls, results>>,
           StatusBar' = StatusBar
    PROVE  UNCHANGED Ideal!vars
<1>1. AgreedBar' = AgreedBar /\ CallsBar' = CallsBar /\ EntitledBar' = EntitledBar
  BY DEF config, AgreedBar, CallsBar, EntitledBar
<1> QED
  BY <1>1, IdealVars DEF config, AgreedBar, EntitledBar, StatusBar, CallsBar, Ideal!vars

\* init opens the session or throws, as the parameters say.
LEMMA OpenStep ==
    ASSUME KkrtInv, NEW p \in Party,
           CheckEpsilon(p) \/ CheckFunNum(p) \/ CreateCommonPrng(p) \/ FinishInit(p)
    PROVE  Ideal!Open(p) \/ UNCHANGED Ideal!vars
<1>1. /\ UNCHANGED <<config, calls, results>>
      /\ stage \in [Party -> TwoWay \cup OneWay \cup Rest]
  BY DEF CheckEpsilon, CheckFunNum, CreateCommonPrng, FinishInit, KkrtInv, TypeOK
<1>2. AgreedBar' = AgreedBar /\ CallsBar' = CallsBar /\ results' = results
      /\ EntitledBar' = EntitledBar
  BY <1>1 DEF config, AgreedBar, CallsBar, EntitledBar
<1>3. /\ Knows(p)
      /\ \/ Peer(p) = "sender" /\ p = "receiver"
         \/ Peer(p) = "receiver" /\ p = "sender"
  BY DEF KkrtInv, Party, Peer
<1>4. CASE \E s \in {"fun_num", "seed", "base_ot"} :
              stage[p] \in {"epsilon", "fun_num", "seed"} /\ stage' = [stage EXCEPT ![p] = s]
  <2>1. StatusBar' = StatusBar
    BY <1>1, <1>4 DEF StatusBar
  <2> QED
    BY <1>1, <2>1, Stutters
<1>5. CASE ~AgreedBar /\ stage[p] \in {"epsilon", "fun_num"} /\ stage' = [stage EXCEPT ![p] = "threw"]
  <2>1. StatusBar' = [StatusBar EXCEPT ![p] = "threw"] /\ StatusBar[p] = "init"
    BY <1>1, <1>5 DEF StatusBar
  <2> QED
    BY <1>2, <1>5, <2>1 DEF Ideal!Open, AgreedBar, EntitledBar, StatusBar, CallsBar
<1>6. CASE AgreedBar /\ stage[p] = "base_ot" /\ stage' = [stage EXCEPT ![p] = "idle"]
  <2>1. StatusBar' = [StatusBar EXCEPT ![p] = "open"] /\ StatusBar[p] = "init"
    BY <1>1, <1>6 DEF StatusBar
  <2> QED
    BY <1>2, <1>6, <2>1 DEF Ideal!Open, AgreedBar, EntitledBar, StatusBar, CallsBar
<1>7. CASE CheckEpsilon(p)
  <2>1. stage[p] = "epsilon" /\ remote[p] = epsilon[Peer(p)]
    BY <1>3, <1>7 DEF CheckEpsilon, At, Knows, HasRead
  <2>2. CASE epsilon[p] = remote[p]
    <3>1. stage' = [stage EXCEPT ![p] = "fun_num"]
      BY <1>7, <2>2 DEF CheckEpsilon, Enter
    <3> QED
      BY <1>4, <2>1, <3>1
  <2>3. CASE epsilon[p] # remote[p]
    <3>1. stage' = [stage EXCEPT ![p] = "threw"]
      BY <1>7, <2>3 DEF CheckEpsilon, Enter
    <3>2. ~AgreedBar
      BY <1>3, <2>1, <2>3 DEF AgreedBar
    <3> QED
      BY <1>5, <2>1, <3>1, <3>2
  <2> QED
    BY <2>2, <2>3
<1>8. CASE CheckFunNum(p)
  <2>1. stage[p] = "fun_num" /\ remote[p] = num_of_fun[Peer(p)]
    BY <1>3, <1>8 DEF CheckFunNum, At, Knows, HasRead
  <2>2. CASE num_of_fun[p] = remote[p]
    <3>1. stage' = [stage EXCEPT ![p] = "seed"]
      BY <1>8, <2>2 DEF CheckFunNum, Enter
    <3> QED
      BY <1>4, <2>1, <3>1
  <2>3. CASE num_of_fun[p] # remote[p]
    <3>1. stage' = [stage EXCEPT ![p] = "threw"]
      BY <1>8, <2>3 DEF CheckFunNum, Enter
    <3>2. ~AgreedBar
      BY <1>3, <2>1, <2>3 DEF AgreedBar
    <3> QED
      BY <1>5, <2>1, <3>1, <3>2
  <2> QED
    BY <2>2, <2>3
<1>9. CASE CreateCommonPrng(p)
  <2>1. stage[p] = "seed" /\ stage' = [stage EXCEPT ![p] = "base_ot"]
    BY <1>9 DEF CreateCommonPrng, At, Enter
  <2> QED
    BY <1>4, <2>1
<1>10. CASE FinishInit(p)
  <2>1. stage[p] = "base_ot" /\ stage' = [stage EXCEPT ![p] = "idle"]
    BY <1>10 DEF FinishInit, At, Enter
  <2>2. AgreedBar
    BY <1>3, <2>1 DEF AgreedBar, Knows
  <2> QED
    BY <1>6, <2>1, <2>2
<1> QED
  BY <1>7, <1>8, <1>9, <1>10

\* A call of the caller's.
LEMMA InvokeStep ==
    ASSUME KkrtInv, NEW p \in Party, Process(p)
    PROVE  Ideal!Invoke(p)
<1>1. PICK keys \in Inputs : calls' = [calls EXCEPT ![p] = Append(@, keys)]
  BY DEF Process
<1>2. /\ stage[p] = "idle" /\ Len(calls[p]) < MaxCalls
      /\ stage' = [stage EXCEPT ![p] = "sizes"]
      /\ results' = results /\ UNCHANGED config
  BY DEF Process, Enter, Number
<1>3. /\ stage \in [Party -> TwoWay \cup OneWay \cup Rest]
      /\ calls \in [Party -> Seq(Inputs)] /\ calls[p] \in Seq(Inputs)
      /\ modes \in [1..MaxCalls -> BOOLEAN]
  BY DEF KkrtInv, TypeOK
<1> DEFINE len == Len(calls[p])
           passed == [keys |-> keys, only_cardinality |-> modes[len + 1]]
<1>4. /\ len \in Nat /\ DOMAIN calls[p] = 1..len
      /\ Append(calls[p], keys) \in Seq(Inputs)
      /\ Len(Append(calls[p], keys)) = len + 1
      /\ \A n \in 1..len : Append(calls[p], keys)[n] = calls[p][n]
      /\ Append(calls[p], keys)[len + 1] = keys
      /\ DOMAIN Append(calls[p], keys) = 1..(len + 1)
      /\ calls'[p] = Append(calls[p], keys) /\ \A q \in Party \ {p} : calls'[q] = calls[q]
      /\ modes' = modes
  BY <1>1, <1>2, <1>3, AppendProperties, LenProperties DEF config
<1>5. CallsBar' = [CallsBar EXCEPT ![p] = Append(@, passed)]
  <2> DEFINE old == [n \in 1..len |-> [keys |-> calls[p][n], only_cardinality |-> modes[n]]]
  <2>1. CallsBar[p] = old
    BY <1>4 DEF CallsBar
  <2>2. CallsBar'[p] = [n \in 1..(len + 1) |-> [keys |-> Append(calls[p], keys)[n],
                                               only_cardinality |-> modes[n]]]
    BY <1>4 DEF CallsBar
  <2> DEFINE Recs == {old[n] : n \in 1..len} \cup {passed}
  <2>3. old \in Seq(Recs) /\ Len(old) = len
    <3>1. old \in [1..len -> Recs]
      OBVIOUS
    <3> HIDE DEF old, Recs, len
    <3> QED
      BY <1>4, <3>1, FunctionIsSeq
  <2>4. \A n \in 1..len : old[n] = [keys |-> Append(calls[p], keys)[n], only_cardinality |-> modes[n]]
    BY <1>4
  <2>5. passed \in Recs /\ passed = [keys |-> Append(calls[p], keys)[len + 1], only_cardinality |-> modes[len + 1]]
    BY <1>4
  <2> HIDE DEF old, passed, Recs
  <2>6. /\ DOMAIN Append(old, passed) = 1..(len + 1)
        /\ \A n \in 1..len : Append(old, passed)[n] = old[n]
        /\ Append(old, passed)[len + 1] = passed
        /\ Append(old, passed) = [n \in 1..(len + 1) |-> Append(old, passed)[n]]
    <3> HIDE DEF len
    <3>1. Append(old, passed) \in Seq(Recs)
      BY <2>3, <2>5, AppendProperties
    <3>2. PICK t \in Seq(Recs) : t = Append(old, passed)
      BY <3>1
    <3>3. DOMAIN t = 1..(len + 1) /\ t = [n \in 1..(len + 1) |-> t[n]]
      BY <1>4, <2>3, <2>5, <3>2, AppendProperties, LenProperties
    <3>4. (\A n \in 1..len : t[n] = old[n]) /\ t[len + 1] = passed
      BY <1>4, <2>3, <2>5, <3>2, AppendProperties
    <3> QED
      BY <3>2, <3>3, <3>4
  <2>7. Append(old, passed) = CallsBar'[p]
    <3>1. \A n \in 1..(len + 1) : n \in 1..len \/ n = len + 1
      BY <1>4
    <3>2. \A n \in 1..(len + 1) : Append(old, passed)[n] = [keys |-> Append(calls[p], keys)[n], only_cardinality |-> modes[n]]
      BY <2>4, <2>5, <2>6, <3>1
    <3> QED
      BY <2>2, <2>6, <3>2
  <2>8. \A q \in Party \ {p} : CallsBar'[q] = CallsBar[q]
    BY <1>4 DEF CallsBar
  <2>9. CallsBar' = [q \in Party |-> CallsBar'[q]] /\ DOMAIN CallsBar = Party
    BY DEF CallsBar
  <2> QED
    BY <2>1, <2>7, <2>8, <2>9
<1>6. StatusBar' = StatusBar /\ StatusBar[p] = "open"
  BY <1>2, <1>3 DEF StatusBar
<1>7. Len(CallsBar[p]) = len /\ len = Len(results[p])
  <2>1. Number(p) = Len(results[p]) + (IF stage[p] \in InCall THEN 1 ELSE 0)
    BY DEF KkrtInv, Control
  <2>2. Len(results[p]) \in Nat
    BY Numbers DEF KkrtInv
  <2>3. len = Len(results[p])
    BY <1>2, <2>1, <2>2 DEF InCall, Number
  <2>4. DOMAIN CallsBar[p] = 1..len
    BY <1>4 DEF CallsBar
  <2> QED
    BY <1>4, <2>3, <2>4
<1>8. passed \in Ideal!Call
  <2>1. len + 1 \in 1..MaxCalls
    BY <1>2, <1>4, KkrtBoundsAssumption
  <2>2. modes[len + 1] \in BOOLEAN
    BY <1>3, <2>1
  <2> QED
    BY <2>2 DEF Ideal!Call
<1>9. AgreedBar' = AgreedBar /\ EntitledBar' = EntitledBar
  BY <1>2 DEF AgreedBar, EntitledBar, config
<1> HIDE DEF passed, len
<1>10. /\ StatusBar[p] = "open" /\ Len(CallsBar[p]) = Len(results[p])
       /\ Len(CallsBar[p]) < MaxCalls
       /\ \E c \in Ideal!Call : CallsBar' = [CallsBar EXCEPT ![p] = Append(@, c)]
       /\ UNCHANGED <<AgreedBar, EntitledBar, StatusBar, results>>
  BY <1>2, <1>5, <1>6, <1>7, <1>8, <1>9 DEF len
<1> QED
  BY <1>10 DEF Ideal!Invoke, AgreedBar, EntitledBar, StatusBar, CallsBar

\* A call both have ended ended alike.
LEMMA EndedAlike ==
    ASSUME KkrtInv, NEW n \in DOMAIN results[S] \cap DOMAIN results[R]
    PROVE  results[S][n] = Threw <=> results[R][n] = Threw
BY DEF KkrtInv, Ended, GaveUp, GotThrough

\* What ended calls gave is what psi.h lets them give, and they ended alike.
ResultsAllowed ==
    \A p \in Party : \A n \in DOMAIN results[p] :
        LET q == Peer(p) IN
        /\ n \in DOMAIN CallsBar[p] /\ n \in DOMAIN CallsBar[q]
        /\ results[p][n] \in {Ideal!Threw} \cup
              Ideal!Outcomes(CallsBar[p][n], CallsBar[q][n], EntitledBar[p])
        /\ n \in DOMAIN results[q] =>
              (results[p][n] = Ideal!Threw <=> results[q][n] = Ideal!Threw)

LEMMA AllowedOf ==
    ASSUME KkrtInv, NoneRepeats, NEW p \in Party, NEW n,
           n \in DOMAIN calls[p], n \in DOMAIN calls[Peer(p)]
    PROVE  RightResult(p, n) \in
              Ideal!Outcomes(CallsBar[p][n], CallsBar[Peer(p)][n], EntitledBar[p])
<1> DEFINE q == Peer(p)
           mine == calls[p][n]
           theirs == calls[q][n]
           I == Shared(mine, theirs)
           J == Shared(theirs, mine)
<1>1. q \in Party /\ TypeOK
  BY TwoParties DEF KkrtInv
<1>2. /\ mine \in Inputs /\ theirs \in Inputs
      /\ mine \in Seq(Keys) /\ theirs \in Seq(Keys)
  BY <1>1, CallKeys, ElementOfSeq, LenProperties DEF TypeOK
<1>3. Unrepeated(mine) /\ Unrepeated(theirs)
  BY <1>2 DEF NoneRepeats
<1>4. /\ CallsBar[p][n].keys = mine /\ CallsBar[q][n].keys = theirs
      /\ CallsBar[p][n].only_cardinality = modes[n]
  BY <1>1 DEF CallsBar
<1>5. Ideal!Common(mine, theirs) = I
  BY DEF Ideal!Common, Ideal!Range, Range, Shared
<1>6. modes[n] \in BOOLEAN /\ sender_obtain_result[p] \in BOOLEAN
  <2>1. Control(p) /\ Number(p) \in Nat /\ DOMAIN calls[p] = 1..Number(p)
    BY Before
  <2>2. Number(p) <= MaxCalls
    BY <2>1 DEF Control
  <2>3. n \in 1..MaxCalls
    BY <2>1, <2>2, KkrtBoundsAssumption
  <2> QED
    BY <1>1, <2>3, Before DEF TypeOK
<1>7. /\ Cardinality(Common(n)) = Cardinality(I)
      /\ Pick(calls[R][n], Common(n)) \in InSomeOrder(mine, I)
  <2>1. CASE p = R
    <3>1. Common(n) = I /\ calls[R][n] = mine
      BY <2>1, TwoParties DEF Common, Shared, S, R
    <3>2. Len(mine) \in Nat /\ I \in SUBSET (1..Len(mine))
      BY <1>2, LenProperties DEF Shared
    <3>3. Pick(mine, I) \in InSomeOrder(mine, I)
      BY <3>2, PickInOrder
    <3> HIDE DEF I, mine
    <3> QED
      BY <3>1, <3>3
  <2>2. CASE p = S
    <3>1. Common(n) = J /\ calls[R][n] = theirs
      BY <2>2, TwoParties DEF Common, Shared, S, R
    <3> HIDE DEF mine, theirs
    <3>2. Cardinality(J) = Cardinality(I) /\ Pick(theirs, J) \in InSomeOrder(mine, I)
      BY <1>2, <1>3, PickOfOther
    <3> HIDE DEF I, J
    <3> QED
      BY <3>1, <3>2
  <2> QED
    BY <2>1, <2>2, TwoParties
<1>8. EntitledBar[p] = (p = R \/ sender_obtain_result[p])
  BY DEF EntitledBar, R
<1> HIDE DEF q, mine, theirs, I, J
<1> DEFINE keys == CallsBar[p][n].keys
           only == CallsBar[p][n].only_cardinality
           C == Ideal!Common(keys, CallsBar[q][n].keys)
<1>9. keys = mine /\ only = modes[n] /\ C = I
  BY <1>4, <1>5
<1>10. PICK pick \in Ideal!Bijection(1..Cardinality(C), C) :
         Pick(calls[R][n], Common(n)) = [k \in 1..Cardinality(C) |-> keys[pick[k]]]
  <2>1. Ideal!Bijection(1..Cardinality(I), I) = Bijection(1..Cardinality(I), I)
    BY DEF Ideal!Bijection, Bijection, Ideal!Injection, Injection,
           Ideal!Surjection, Surjection, Ideal!IsInjective, IsInjective
  <2> HIDE DEF keys, C
  <2> QED
    BY SMTT(60), <1>7, <1>9, <2>1 DEF InSomeOrder
<1>11. Ideal!Outcomes(CallsBar[p][n], CallsBar[q][n], EntitledBar[p])
        = IF ~EntitledBar[p] THEN {Returned(<<>>, 0)}
          ELSE IF only THEN {Returned(<<>>, Cardinality(C))}
          ELSE {Returned([k \in 1..Cardinality(C) |-> keys[x[k]]], 0) :
                   x \in Ideal!Bijection(1..Cardinality(C), C)}
  BY Zenon DEF Ideal!Outcomes, Ideal!Returned, Returned, Ideal!Cardinality, Cardinality
<1> HIDE DEF keys, only, C
<1>12. RightResult(p, n) \in Ideal!Outcomes(CallsBar[p][n], CallsBar[q][n], EntitledBar[p])
  <2>1. CASE ~EntitledBar[p]
    <3>1. RightResult(p, n) = Returned(<<>>, 0)
      BY <1>8, <2>1, TwoParties DEF RightResult
    <3> QED
      BY <1>11, <2>1, <3>1
  <2>2. CASE EntitledBar[p] /\ only
    <3>1. RightResult(p, n) = Returned(<<>>, Cardinality(C))
      BY <1>7, <1>8, <1>9, <2>2, TwoParties DEF RightResult
    <3> QED
      BY <1>11, <2>2, <3>1
  <2>3. CASE EntitledBar[p] /\ ~only
    <3>1. RightResult(p, n) = Returned([k \in 1..Cardinality(C) |-> keys[pick[k]]], 0)
      BY <1>8, <1>9, <1>10, <2>3, TwoParties DEF RightResult
    <3> QED
      BY <1>11, <2>3, <3>1
  <2> QED
    BY <2>1, <2>2, <2>3
<1> QED
  BY <1>12 DEF q

LEMMA Allowed == KkrtInv /\ NoneRepeats => ResultsAllowed
<1> SUFFICES ASSUME KkrtInv, NoneRepeats, NEW p \in Party, NEW n \in DOMAIN results[p]
             PROVE  LET q == Peer(p) IN
                    /\ n \in DOMAIN CallsBar[p] /\ n \in DOMAIN CallsBar[q]
                    /\ results[p][n] \in {Ideal!Threw} \cup
                          Ideal!Outcomes(CallsBar[p][n], CallsBar[q][n], EntitledBar[p])
                    /\ n \in DOMAIN results[q] =>
                          (results[p][n] = Ideal!Threw <=> results[q][n] = Ideal!Threw)
  BY DEF ResultsAllowed
<1> DEFINE q == Peer(p)
<1>1. Ideal!Threw = Threw
  BY DEF Ideal!Threw, Threw
<1>2. n \in DOMAIN calls[p] /\ n \in DOMAIN calls[q] /\ q \in Party
  BY EndedCalls, TwoParties
<1>3. DOMAIN CallsBar[p] = DOMAIN calls[p] /\ DOMAIN CallsBar[q] = DOMAIN calls[q]
  BY <1>2 DEF CallsBar
<1>4. results[p][n] = Threw \/ results[p][n] = RightResult(p, n)
  BY ResultsAre DEF KkrtInv
<1>5. RightResult(p, n) \in
         Ideal!Outcomes(CallsBar[p][n], CallsBar[q][n], EntitledBar[p])
  BY <1>2, AllowedOf
<1>6. n \in DOMAIN results[q] => (results[p][n] = Threw <=> results[q][n] = Threw)
  BY EndedAlike, TwoParties
<1> HIDE DEF q
<1> QED
  BY <1>1, <1>2, <1>3, <1>4, <1>5, <1>6 DEF q

\* A call ends.
LEMMA ReturnStep ==
    ASSUME KkrtInv, ResultsAllowed', NEW p \in Party, NEW result,
           results' = [results EXCEPT ![p] = Append(@, result)],
           UNCHANGED <<config, calls>>, StatusBar' = StatusBar
    PROVE  Ideal!Return(p)
<1> DEFINE q == Peer(p)
<1>1. PICK n \in Nat : n = Len(results[p]) + 1
  BY Numbers DEF KkrtInv
<1>2. results[p] \in Seq(Outcome) /\ DOMAIN results = Party /\ q \in Party /\ q # p
  BY Before, TwoParties DEF TypeOK, KkrtInv
<1>3. PICK T : results[p] \in Seq(T) /\ result \in T
  <2>1. results[p] \in Seq(Outcome \cup {result})
    BY <1>2, LenProperties
  <2> QED
    BY <2>1
<1>4. n \in DOMAIN results'[p] /\ results'[p][n] = result /\ results'[q] = results[q]
  <2>1. results'[p] = Append(results[p], result) /\ results'[q] = results[q]
    BY <1>2
  <2>2. /\ Append(results[p], result) \in Seq(T)
        /\ Len(Append(results[p], result)) = Len(results[p]) + 1
        /\ Append(results[p], result)[Len(results[p]) + 1] = result
    BY <1>3, AppendProperties
  <2>3. DOMAIN Append(results[p], result) = 1..(Len(results[p]) + 1)
    BY <2>2, LenProperties
  <2>4. n \in 1..(Len(results[p]) + 1)
    BY <1>1, <1>2, LenProperties
  <2> QED
    BY <1>1, <2>1, <2>2, <2>3, <2>4
<1>5. AgreedBar' = AgreedBar /\ CallsBar' = CallsBar /\ EntitledBar' = EntitledBar
  BY DEF config, AgreedBar, CallsBar, EntitledBar
<1>6. /\ n \in DOMAIN CallsBar[p] /\ n \in DOMAIN CallsBar[q]
      /\ result \in {Ideal!Threw} \cup
            Ideal!Outcomes(CallsBar[p][n], CallsBar[q][n], EntitledBar[p])
      /\ n \in DOMAIN results[q] =>
            (result = Ideal!Threw <=> results[q][n] = Ideal!Threw)
  BY <1>4, <1>5 DEF ResultsAllowed
<1> HIDE DEF q
<1>7. /\ n \in DOMAIN CallsBar[p] /\ n \in DOMAIN CallsBar[q]
      /\ \E outcome \in Ideal!Outcomes(CallsBar[p][n], CallsBar[q][n], EntitledBar[p])
                          \cup (IF TRUE THEN {Ideal!Threw} ELSE {}) :
            /\ n \in DOMAIN results[q] =>
                  (outcome = Ideal!Threw <=> results[q][n] = Ideal!Threw)
            /\ results' = [results EXCEPT ![p] = Append(@, outcome)]
      /\ UNCHANGED <<AgreedBar, EntitledBar, StatusBar, CallsBar>>
  BY <1>5, <1>6
<1>8. q = Ideal!Peer(p)
  BY DEF q, Peer, Ideal!Peer
<1> QED
  BY <1>1, <1>7, <1>8, ZenonT(60)
     DEF Ideal!Return, AgreedBar, EntitledBar, StatusBar, CallsBar

\* A step inside a call ends it or is not seen.
LEMMA InsideStep ==
    ASSUME KkrtInv, ResultsAllowed', NEW p \in Party, stage[p] \in InCall,
           UNCHANGED <<config, calls>>,
           \/ results' = results
           \/ \E result : results' = [results EXCEPT ![p] = Append(@, result)],
           \E s \in InCall \cup {"idle"} : stage' = [stage EXCEPT ![p] = s]
    PROVE  Ideal!Return(p) \/ UNCHANGED Ideal!vars
<1>1. StatusBar' = StatusBar
  BY DEF StatusBar, KkrtInv, TypeOK, InCall
<1>2. CASE results' = results
  BY <1>1, <1>2, Stutters
<1>3. CASE \E result : results' = [results EXCEPT ![p] = Append(@, result)]
  BY <1>1, <1>3, ReturnStep
<1> QED
  BY <1>2, <1>3

LEMMA IdealStep ==
    ASSUME KkrtInv, ResultsAllowed', [Next]_vars
    PROVE  [Ideal!Next]_(Ideal!vars)
<1>1. CASE UNCHANGED vars
  BY <1>1 DEF vars, config, Ideal!vars
<1>2. ASSUME NEW p \in Party, Process(p) PROVE Ideal!Next
  BY <1>2, InvokeStep DEF Ideal!Next, Ideal!Party, Party
<1>3. ASSUME NEW p \in Party,
             CheckEpsilon(p) \/ CheckFunNum(p) \/ CreateCommonPrng(p) \/ FinishInit(p)
      PROVE  [Ideal!Next]_(Ideal!vars)
  BY <1>3, OpenStep DEF Ideal!Next, Ideal!Party, Party
<1>4. ASSUME NEW p \in Party, SendValue(p) \/ RecvValue(p) PROVE UNCHANGED Ideal!vars
  <2>1. UNCHANGED <<config, calls, results, stage>>
    BY <1>4 DEF SendValue, RecvValue, Half
  <2>2. StatusBar' = StatusBar
    BY <2>1 DEF StatusBar
  <2> QED
    BY <2>1, <2>2, Stutters
<1>5. CASE SenderStep
  <2>1. /\ stage[S] \in InCall /\ UNCHANGED <<config, calls>>
        /\ \/ results' = results
           \/ \E result : results' = [results EXCEPT ![S] = Append(@, result)]
        /\ \E s \in InCall \cup {"idle"} : stage' = [stage EXCEPT ![S] = s]
    BY <1>5 DEF SenderStep, SimpleHash, RecvStashSize, OtSend, SendMasks, RecvCount,
                RecvKeys, At, Enter, Return, Continue, InCall, S
  <2> QED
    BY <2>1, InsideStep, TwoParties DEF Ideal!Next, Ideal!Party, Party
<1>6. CASE ReceiverStep
  <2>1. /\ stage[R] \in InCall /\ UNCHANGED <<config, calls>>
        /\ \/ results' = results
           \/ \E result : results' = [results EXCEPT ![R] = Append(@, result)]
        /\ \E s \in InCall \cup {"idle"} : stage' = [stage EXCEPT ![R] = s]
    BY <1>6 DEF ReceiverStep, CuckooHash, SendStashSize, OtReceive, RecvMasks, SendCount,
                SendKeys, At, Enter, Return, Continue, InCall, R
  <2> QED
    BY <2>1, InsideStep, TwoParties DEF Ideal!Next, Ideal!Party, Party
<1> QED
  BY <1>1, <1>2, <1>3, <1>4, <1>5, <1>6 DEF Next, Step

\* As long as no input repeats a key, and the two configurations agree on the
\* flag init does not compare, a session is one of those psi.h promises, as far
\* as safety goes.
THEOREM KkrtImplementsPSI ==
    FlagsAgree /\ NoneRepeats => (Spec => Ideal!Safety)
<1> SUFFICES ASSUME FlagsAgree, NoneRepeats PROVE Spec => Ideal!Safety
  OBVIOUS
<1>1. KkrtInv => ResultsAllowed
  BY Allowed
<1>2. KkrtInv /\ ResultsAllowed' /\ [Next]_vars => [Ideal!Next]_(Ideal!vars)
  BY IdealStep
<1>3. Spec => []KkrtInv
  BY MessagesInPlace
<1> QED
  BY <1>1, <1>2, <1>3, IdealInit, PTL DEF Spec, Ideal!Safety
=============================================================================
