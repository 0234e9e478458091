------------------------------- MODULE KkrtPSI -------------------------------
(***************************************************************************)
(* psi/kkrt_psi.cpp: private set intersection from oblivious transfer.     *)
(*                                                                         *)
(* A session opens with the comparison of two parameters, the agreement on *)
(* a seed for a common random stream, and base transfers.  In a call of    *)
(* process, or of process_cardinality_only, both draw the seed of their    *)
(* hash tables from the common stream; the receiver puts each key in a bin *)
(* of its own (cuckoo hashing) or gives up, the sender puts each key in a  *)
(* bin for every hash function, and the receiver finds its masks among the *)
(* sender's.  The receiver gets the result, and passes it on if its own    *)
(* sender_obtain_result says so.                                           *)
(*                                                                         *)
(* The network moves bytes: a read takes what comes next if it has the     *)
(* length asked for, whatever it was sent as.  `is` tells what that was.   *)
(* A read that would split or join messages blocks here.                   *)
(***************************************************************************)
EXTENDS Integers, Sequences, FiniteSets, Functions, Parties, Permutation,
        Selection

CONSTANTS
    Keys,           \* identifiers, and their 128-bit hashes
    Inputs,         \* the key sequences a party may call with
    Epsilons,       \* values of epsilon, in hundredths
    FunNums,        \* values of fun_num
    ObtainResult,   \* the pairs of sender_obtain_result configured
    MaxCalls,       \* bound on the calls of one party
    Capacity        \* messages the network holds in one direction

ASSUME KkrtInputsAssumption == Inputs \subseteq Seq(Keys) \ {<<>>}
ASSUME KkrtParamsAssumption ==
    /\ Epsilons \subseteq Nat \ {0}
    /\ FunNums \subseteq Nat \ {0}
    /\ ObtainResult \subseteq [Party -> BOOLEAN]
ASSUME KkrtBoundsAssumption == MaxCalls \in Nat /\ Capacity \in Nat \ {0}

VARIABLES
    epsilon,              \* per party, of its configuration
    num_of_fun,           \* per party, of its configuration
    sender_obtain_result, \* per party, of its configuration
    modes,                \* which calls are process_cardinality_only, agreed
                          \* on by the two applications
    calls,                \* per party, the key vectors it has called with
    results,              \* per party, how its finished calls ended
    stage,                \* per party, the message or exchange it is at
    io,                   \* per party, whether it sends, reads or goes on
    remote,               \* per party, the value it read last
    common_prng,          \* per party, the seed of the common stream and the
                          \* number of draws from it
    stash_size,           \* of the receiver's table
    function_ids,         \* of the receiver's keys, the function placing each
    found,                \* positions of the receiver's keys found
    chan                  \* per party, the messages on their way to it

config == <<epsilon, num_of_fun, sender_obtain_result, modes>>
\* Local to a call of the receiver.
table == <<stash_size, function_ids, found>>
vars == <<config, calls, results, stage, io, remote, common_prng, table, chan>>

Rest == {"idle", "threw"}
TwoWay == {"epsilon", "fun_num", "seed", "base_ot", "sizes"}
OneWay == {"stash", "ot", "masks", "count", "keys"}

Threw == [threw |-> TRUE]
Returned(keys, count) == [keys |-> keys, count |-> count]

-----------------------------------------------------------------------------
(* What the parties compute.                                               *)

\* ceil(size * epsilon)
NumOfBins(size, hundredths) == (size * hundredths + 99) \div 100

\* A key's bin under a hash function is settled by the table's seed, so a mask
\* is the key, the function and the seed: two masks are equal if these are.
Mask(seed, function, key) == [seed |-> seed, function |-> function, key |-> key]

\* The sender's masks, function by function, each list shuffled.
SenderMasks(seed, functions, keys, shuffles) ==
    LET n == Len(keys)
        masks(f) == Permute(shuffles[f], [i \in 1..n |-> Mask(seed, f, keys[i])])
    IN
    [k \in 1..(functions * n) |->
        masks(1 + (k - 1) \div n)[1 + ((k - 1) % n)]]

\* Mutant of Segment: the first list, whatever the function.
SegmentFirst(masks, f, size) == {masks[k] : k \in 1..size}

\* The part of the sender's masks the receiver searches for function f.
Segment(masks, f, size) == {masks[k] : k \in ((f - 1) * size + 1)..(f * size)}

\* Positions of the receiver's keys whose mask is in its segment.
Found(seed, functions, keys, masks, size) ==
    {i \in DOMAIN keys : Mask(seed, functions[i], keys[i])
                            \in Segment(masks, functions[i], size)}

\* Cuckoo hashing places every key by one of its functions, equal keys by
\* different ones, and no two in one bin.
Placements(keys, functions, bins) ==
    IF Len(keys) > bins THEN {}
    ELSE {f \in [1..Len(keys) -> 1..functions] :
             \A i, j \in 1..Len(keys) :
                 i # j /\ keys[i] = keys[j] => f[i] # f[j]}

-----------------------------------------------------------------------------
(* The state of one party.                                                 *)

Number(p) == Len(calls[p])
Current(p) == calls[p][Number(p)]
OnlyCardinality(p) == modes[Number(p)]

\* Mutant of ReceiverSize: the number of the party's own keys.
ReceiverSizeOwn(p) == Len(Current(p))

ReceiverSize(p) == IF p = "receiver" THEN Len(Current(p)) ELSE remote[p]

Bins(p) == NumOfBins(ReceiverSize(p), epsilon[p])

Draw(p) == common_prng' = [common_prng EXCEPT ![p].draws = @ + 1]

Init ==
    /\ epsilon \in [Party -> Epsilons]
    /\ num_of_fun \in [Party -> FunNums]
    /\ sender_obtain_result \in ObtainResult
    /\ modes \in [1..MaxCalls -> BOOLEAN]
    /\ calls = [p \in Party |-> <<>>]
    /\ results = [p \in Party |-> <<>>]
    /\ stage = [p \in Party |-> "epsilon"]
    /\ io = [p \in Party |-> First(p)]
    /\ remote = [p \in Party |-> 0]
    /\ common_prng = [p \in Party |-> [seed |-> {}, draws |-> 0]]
    /\ stash_size = 0
    /\ function_ids = <<>>
    /\ found = {}
    /\ chan = [p \in Party |-> <<>>]

-----------------------------------------------------------------------------
(* Network and control.                                                    *)

Width(unit, number) == [unit |-> unit, number |-> number]

Word == Width("word", 1)

Post(p, width, value) ==
    /\ Len(chan[Peer(p)]) < Capacity
    /\ chan' = [chan EXCEPT ![Peer(p)] =
                   Append(@, [is |-> stage[p], width |-> width, value |-> value])]

Take(p, width) ==
    /\ chan[p] # <<>>
    /\ Head(chan[p]).width = width
    /\ chan' = [chan EXCEPT ![p] = Tail(@)]

\* What a party does first in a stage: check_consistency lets the sender write
\* first, and so do the masks; both write their share of the seed first;
\* everywhere else the receiver does.
Starts(s, p) ==
    CASE s \in Rest -> "none"
      [] s \in {"epsilon", "fun_num", "masks"} -> First(p)
      [] s = "seed" -> "send"
      [] OTHER -> First(Peer(p))

At(p, s, position) == stage[p] = s /\ io[p] = position

Enter(p, s) ==
    /\ stage' = [stage EXCEPT ![p] = s]
    /\ io' = [io EXCEPT ![p] = Starts(s, p)]

\* One half of a two-way exchange is over.
Half(p) ==
    /\ io' = [io EXCEPT ![p] = IF @ # Starts(stage[p], p) THEN "done"
                               ELSE IF @ = "send" THEN "recv" ELSE "send"]
    /\ UNCHANGED stage

Return(p, result) ==
    /\ results' = [results EXCEPT ![p] = Append(@, result)]
    /\ IF p = "receiver" THEN stash_size' = 0 /\ function_ids' = <<>> /\ found' = {}
       ELSE UNCHANGED table
    /\ Enter(p, "idle")

\* The call goes on.
Continue(p, s) == Enter(p, s) /\ UNCHANGED <<results, table>>

\* The random block p contributes to the seed.
Block(p) == IF p = "sender" THEN 1 ELSE 2

\* What a party writes in a two-way exchange, and how long it is.
Value(p) ==
    CASE stage[p] = "epsilon" -> epsilon[p]
      [] stage[p] = "fun_num" -> num_of_fun[p]
      [] stage[p] = "sizes" -> Len(Current(p))
      [] OTHER -> Block(p)

Size(s) == IF s \in {"seed", "base_ot"} THEN Width(s, 1) ELSE Word

SendValue(p) ==
    /\ stage[p] \in TwoWay /\ io[p] = "send"
    /\ Post(p, Size(stage[p]), Value(p))
    /\ Half(p)
    /\ UNCHANGED <<config, calls, results, remote, common_prng, table>>

RecvValue(p) ==
    /\ stage[p] \in TwoWay /\ io[p] = "recv"
    /\ Take(p, Size(stage[p]))
    /\ remote' = [remote EXCEPT ![p] = Head(chan[p]).value]
    /\ Half(p)
    /\ UNCHANGED <<config, calls, results, common_prng, table>>

-----------------------------------------------------------------------------
(* init                                                                    *)

\* check_params: epsilon, then the number of functions; a disagreement throws.
CheckEpsilon(p) ==
    /\ At(p, "epsilon", "done")
    /\ Enter(p, IF epsilon[p] = remote[p] THEN "fun_num" ELSE "threw")
    /\ UNCHANGED <<config, calls, results, remote, common_prng, table, chan>>

\* Mutant of CheckFunNum: only a party whose own number is the smaller throws.
CheckFunNumOneSided(p) ==
    /\ At(p, "fun_num", "done")
    /\ Enter(p, IF num_of_fun[p] >= remote[p] THEN "seed" ELSE "threw")
    /\ UNCHANGED <<config, calls, results, remote, common_prng, table, chan>>

CheckFunNum(p) ==
    /\ At(p, "fun_num", "done")
    /\ Enter(p, IF num_of_fun[p] = remote[p] THEN "seed" ELSE "threw")
    /\ UNCHANGED <<config, calls, results, remote, common_prng, table, chan>>

\* Each sends a random block; the exclusive or of the two seeds the stream.
CreateCommonPrng(p) ==
    /\ At(p, "seed", "done")
    /\ common_prng' = [common_prng EXCEPT ![p].seed = {Block(p), remote[p]}]
    /\ Enter(p, "base_ot")
    /\ UNCHANGED <<config, calls, results, remote, table, chan>>

FinishInit(p) ==
    /\ At(p, "base_ot", "done")
    /\ Enter(p, "idle")
    /\ UNCHANGED <<config, calls, results, remote, common_prng, table, chan>>

-----------------------------------------------------------------------------
(* process and process_cardinality_only                                    *)

Process(p) ==
    /\ stage[p] = "idle" /\ Number(p) < MaxCalls
    /\ \E keys \in Inputs : calls' = [calls EXCEPT ![p] = Append(@, keys)]
    /\ Enter(p, "sizes")
    /\ UNCHANGED <<config, results, remote, common_prng, table, chan>>

\* The sender fills its simple table, with a seed of the common stream.
SimpleHash ==
    /\ At("sender", "sizes", "done")
    /\ Draw("sender")
    /\ Enter("sender", "stash")
    /\ UNCHANGED <<config, calls, results, remote, table, chan>>

\* Mutant of CuckooHash: the seed is drawn only when the table has taken all keys.
CuckooHashDrawLate ==
    LET p == "receiver" IN
    /\ At(p, "sizes", "done")
    /\ \/ /\ function_ids' \in Placements(Current(p), num_of_fun[p], Bins(p))
          /\ stash_size' = 0
          /\ Draw(p)
       \/ stash_size' = 1 /\ function_ids' = <<>> /\ UNCHANGED common_prng
    /\ UNCHANGED found
    /\ Enter(p, "stash")
    /\ UNCHANGED <<config, calls, results, remote, chan>>

\* The receiver fills its cuckoo table, with the same seed.  It may fail to.
CuckooHash ==
    LET p == "receiver" IN
    /\ At(p, "sizes", "done")
    /\ Draw(p)
    /\ \/ /\ function_ids' \in Placements(Current(p), num_of_fun[p], Bins(p))
          /\ stash_size' = 0
       \/ stash_size' = 1 /\ function_ids' = <<>>
    /\ UNCHANGED found
    /\ Enter(p, "stash")
    /\ UNCHANGED <<config, calls, results, remote, chan>>

\* Mutant of SendStashSize: a receiver with a stash throws without a word.
SendStashSizeThrowFirst ==
    LET p == "receiver" IN
    /\ At(p, "stash", "send")
    /\ IF stash_size > 0 THEN Return(p, Threw) /\ UNCHANGED chan
       ELSE Post(p, Word, stash_size) /\ Continue(p, "ot")
    /\ UNCHANGED <<config, calls, remote, common_prng>>

SendStashSize ==
    LET p == "receiver" IN
    /\ At(p, "stash", "send")
    /\ Post(p, Word, stash_size)
    /\ IF stash_size > 0 THEN Return(p, Threw)
       ELSE Continue(p, "ot")
    /\ UNCHANGED <<config, calls, remote, common_prng>>

\* Mutant of RecvStashSize: a sender that gives up draws another seed.
RecvStashSizeDrawAgain ==
    LET p == "sender"
        size == Head(chan[p]).value
    IN
    /\ At(p, "stash", "recv")
    /\ Take(p, Word)
    /\ IF size > 0 THEN Return(p, Threw) /\ Draw(p)
       ELSE Continue(p, "ot") /\ UNCHANGED common_prng
    /\ UNCHANGED <<config, calls, remote>>

RecvStashSize ==
    LET p == "sender"
        size == Head(chan[p]).value
    IN
    /\ At(p, "stash", "recv")
    /\ Take(p, Word)
    /\ IF size > 0 THEN Return(p, Threw)
       ELSE Continue(p, "ot")
    /\ UNCHANGED <<config, calls, remote, common_prng>>

\* The oblivious transfers, one a bin: the receiver's choices go to the sender.
OtReceive ==
    LET p == "receiver" IN
    /\ At(p, "ot", "send")
    /\ Post(p, Width("ot", Bins(p)), 0)
    /\ Enter(p, "masks")
    /\ UNCHANGED <<config, calls, results, remote, common_prng, table>>

OtSend ==
    LET p == "sender" IN
    /\ At(p, "ot", "recv")
    /\ Take(p, Width("ot", Bins(p)))
    /\ Enter(p, "masks")
    /\ UNCHANGED <<config, calls, results, remote, common_prng, table>>

\* A sender that is not to obtain the result is done: it leaves output_keys as
\* it was, or returns 0.
SendMasks ==
    LET p == "sender"
        size == Len(Current(p))
        fun == num_of_fun[p]
    IN
    /\ At(p, "masks", "send")
    /\ \E shuffles \in [1..fun -> Shuffles(size)] :
          Post(p, Width("masks", fun * size),
               SenderMasks(common_prng[p], fun, Current(p), shuffles))
    /\ IF sender_obtain_result[p] THEN Continue(p, "count")
       ELSE Return(p, Returned(<<>>, 0))
    /\ UNCHANGED <<config, calls, remote, common_prng>>

\* What the receiver's search gives it.
Result(positions) ==
    IF OnlyCardinality("receiver") THEN Returned(<<>>, Cardinality(positions))
    ELSE Returned(Pick(Current("receiver"), positions), 0)

RecvMasks ==
    LET p == "receiver"
        size == remote[p]
        positions == Found(common_prng[p], function_ids, Current(p),
                           Head(chan[p]).value, size)
    IN
    /\ At(p, "masks", "recv")
    /\ Take(p, Width("masks", num_of_fun[p] * size))
    /\ IF sender_obtain_result[p]
       THEN /\ found' = positions
            /\ Enter(p, "count")
            /\ UNCHANGED <<results, stash_size, function_ids>>
       ELSE Return(p, Result(positions))
    /\ UNCHANGED <<config, calls, remote, common_prng>>

\* Mutant of SendCount: the last index instead of the number.
SendCountLast ==
    LET p == "receiver" IN
    /\ At(p, "count", "send")
    /\ Post(p, Word, Cardinality(found) - 1)
    /\ IF OnlyCardinality(p) THEN Return(p, Result(found))
       ELSE Continue(p, "keys")
    /\ UNCHANGED <<config, calls, remote, common_prng>>

\* The number of common keys, or the length of the keys that follow.
SendCount ==
    LET p == "receiver" IN
    /\ At(p, "count", "send")
    /\ Post(p, Word, Cardinality(found))
    /\ IF OnlyCardinality(p) THEN Return(p, Result(found))
       ELSE Continue(p, "keys")
    /\ UNCHANGED <<config, calls, remote, common_prng>>

RecvCount ==
    LET p == "sender"
        count == Head(chan[p]).value
    IN
    /\ At(p, "count", "recv")
    /\ Take(p, Word)
    /\ remote' = [remote EXCEPT ![p] = count]
    /\ IF OnlyCardinality(p) THEN Return(p, Returned(<<>>, count))
       ELSE Continue(p, "keys")
    /\ UNCHANGED <<config, calls, common_prng>>

SendKeys ==
    LET p == "receiver"
        result == Result(found)
    IN
    /\ At(p, "keys", "send")
    /\ Post(p, Width("bytes", Len(result.keys)), result.keys)
    /\ Return(p, result)
    /\ UNCHANGED <<config, calls, remote, common_prng>>

RecvKeys ==
    LET p == "sender" IN
    /\ At(p, "keys", "recv")
    /\ Take(p, Width("bytes", remote[p]))
    /\ Return(p, Returned(Head(chan[p]).value, 0))
    /\ UNCHANGED <<config, calls, remote, common_prng>>

-----------------------------------------------------------------------------
SenderStep == SimpleHash \/ RecvStashSize \/ OtSend \/ SendMasks \/ RecvCount
                \/ RecvKeys

ReceiverStep == CuckooHash \/ SendStashSize \/ OtReceive \/ RecvMasks
                  \/ SendCount \/ SendKeys

\* What p does on its own once init or a call is under way.
Step(p) ==
    \/ SendValue(p) \/ RecvValue(p)
    \/ CheckEpsilon(p) \/ CheckFunNum(p) \/ CreateCommonPrng(p) \/ FinishInit(p)
    \/ p = "sender" /\ SenderStep
    \/ p = "receiver" /\ ReceiverStep

Next == \E p \in Party : Process(p) \/ Step(p)

Spec == Init /\ [][Next]_vars

\* A thread inside init or a call keeps running; whether the caller calls
\* again is its own choice.
FairSpec == Spec /\ \A p \in Party : WF_vars(Step(p))

\* The session is over on both sides.  With this the only way to stop, a
\* deadlock is two parties waiting for each other.
Terminated ==
    /\ \/ \A p \in Party : stage[p] = "threw"
       \/ \A p \in Party : stage[p] = "idle" /\ Number(p) = MaxCalls
    /\ UNCHANGED vars

TerminatingSpec == Init /\ [][Next \/ Terminated]_vars

-----------------------------------------------------------------------------
(* Properties.                                                             *)

Prng == [seed : SUBSET (Nat \ {0}), draws : Nat]

Masks == [seed : Prng, function : Nat, key : Keys]

Widths == [unit : {"word", "seed", "base_ot", "ot", "masks", "bytes"}, number : Nat]

InTransit == UNION {Range(chan[p]) : p \in Party}

MessageOK(m) ==
    /\ m.is \in TwoWay \cup OneWay
    /\ m.width \in Widths
    /\ CASE m.is = "masks" -> m.value \in Seq(Masks)
         [] m.is = "keys" -> m.value \in Seq(Keys)
         [] OTHER -> m.value \in Nat

Outcome == {Threw} \cup [keys : Seq(Keys), count : Nat]

\* Every variable has the type its C++ counterpart gives it.
TypeOK ==
    /\ epsilon \in [Party -> Epsilons]
    /\ num_of_fun \in [Party -> FunNums]
    /\ sender_obtain_result \in ObtainResult
    /\ modes \in [1..MaxCalls -> BOOLEAN]
    /\ calls \in [Party -> Seq(Inputs)]
    /\ results \in [Party -> Seq(Outcome)]
    /\ stage \in [Party -> TwoWay \cup OneWay \cup Rest]
    /\ io \in [Party -> {"send", "recv", "done", "none"}]
    /\ remote \in [Party -> Nat]
    /\ common_prng \in [Party -> Prng]
    /\ stash_size \in Nat
    /\ function_ids \in Seq(Nat)
    /\ found \subseteq 1..Len(function_ids)
    /\ chan \in [Party -> Seq(InTransit)]
    /\ \A m \in InTransit : MessageOK(m)

\* What a read asks for is what comes next: never a size for a count, or the
\* masks of one table for those of another.
WireSync ==
    \A p \in Party : io[p] = "recv" /\ chan[p] # <<>> =>
        LET m == Head(chan[p]) IN
        /\ m.is = stage[p]
        /\ stage[p] = "ot" => m.width.number = Bins(p)
        /\ stage[p] = "masks" =>
              /\ m.width.number = num_of_fun[p] * remote[p]
              /\ \A k \in DOMAIN m.value : m.value[k].seed = common_prng[p]
        /\ stage[p] = "keys" => m.width.number = remote[p]

\* When both have ended the same calls, in a result or an exception, no byte is
\* left in the network and the common streams are at the same place, so that
\* the next call can work.
ReadyForNext ==
    (/\ \A p \in Party : stage[p] = "idle"
     /\ Number("sender") = Number("receiver"))
    => /\ \A p \in Party : chan[p] = <<>>
       /\ common_prng["sender"] = common_prng["receiver"]

\* Positions of the keys in the receiver's n-th call that the sender has too.
Common(n) ==
    {i \in DOMAIN calls["receiver"][n] :
        calls["receiver"][n][i] \in Range(calls["sender"][n])}

\* The receiver gets its keys the sender has too, in the order of its input and
\* as often as there, or their number.  The sender gets the same, if it is to
\* obtain the result.
ResultCorrect ==
    \A p \in Party : \A n \in DOMAIN results[p] : results[p][n] # Threw =>
        results[p][n] =
            IF p = "sender" /\ ~sender_obtain_result[p] THEN Returned(<<>>, 0)
            ELSE IF modes[n] THEN Returned(<<>>, Cardinality(Common(n)))
            ELSE Returned(Pick(calls["receiver"][n], Common(n)), 0)

\* init throws on both sides or on neither, and so does every call.
ThrowAgreement ==
    /\ \A p \in Party : stage[p] = "threw" =>
          stage[Peer(p)] \in {"epsilon", "fun_num", "threw"}
    /\ \A n \in DOMAIN results["sender"] \cap DOMAIN results["receiver"] :
          results["sender"][n] = Threw <=> results["receiver"][n] = Threw

\* kkrt_psi.h:109 says of what process_cardinality_only returns: "A std::size_t
\* number indicates the cardinality."
CountIsCardinality ==
    \A p \in Party : \A n \in DOMAIN results[p] :
        (/\ modes[n] /\ results[p][n] # Threw
         /\ p = "receiver" \/ sender_obtain_result[p]) =>
            results[p][n].count = Cardinality(Common(n))

\* The session as its users see it.
Ideal == INSTANCE PSIIdeal WITH
    MayThrow <- TRUE,
    agreed <- (epsilon["sender"] = epsilon["receiver"]
                 /\ num_of_fun["sender"] = num_of_fun["receiver"]),
    entitled <- [p \in Party |-> p = "receiver" \/ sender_obtain_result[p]],
    status <- [p \in Party |->
                 CASE stage[p] \in {"epsilon", "fun_num", "seed", "base_ot"} -> "init"
                   [] stage[p] = "threw" -> "threw"
                   [] OTHER -> "open"],
    calls <- [p \in Party |-> [n \in DOMAIN calls[p] |->
                 [keys |-> calls[p][n], only_cardinality |-> modes[n]]]]

\* The protocol implements psi.h's promise, as long as no input repeats a key
\* and the two configurations give sender_obtain_result the same value.
ImplementsIdeal == Ideal!Spec
=============================================================================
