------------------------------- MODULE EcdhPSI -------------------------------
(***************************************************************************)
(* psi/ecdh_psi.cpp: private set intersection from commutative encryption. *)
(*                                                                         *)
(* A session opens with two exchanges of one value (the curve, then        *)
(* whether a party obtains the result).  A call of process, or of          *)
(* process_cardinality_only, makes two exchanges of keys, each a size      *)
(* followed by that many items when there are any: first the party's own   *)
(* shuffled keys under its secret key, then the peer's keys under both.    *)
(*                                                                         *)
(* A point of the curve is a record of the key hashed to it and the        *)
(* parties that encrypted it, so that encryptions commute and two points   *)
(* are equal only if key and encryptors are (the Diffie-Hellman            *)
(* assumption, and no collision in the kECCCompareBytesLen bytes kept).    *)
(***************************************************************************)
EXTENDS Integers, Sequences, FiniteSets, Functions, Parties, Permutation,
        Selection

CONSTANTS
    Keys,           \* identifiers
    Curves,         \* values of curve_id
    SupportedCurve, \* 415, the one check_params accepts
    Inputs,         \* the key sequences a party may call with
    MaxCalls,       \* bound on the calls of one party
    Capacity        \* messages the network holds in one direction

ASSUME CurvesAssumption == SupportedCurve \in Curves
ASSUME InputsAssumption == Inputs \subseteq Seq(Keys)
ASSUME BoundsAssumption == MaxCalls \in Nat /\ Capacity \in Nat \ {0}

VARIABLES
    curve_id,             \* per party, of its configuration
    obtain_result,        \* per party, of its configuration
    remote_obtain_result, \* per party, as the peer announced it
    calls,                \* per party, the calls it has made
    results,              \* per party, how its finished calls ended
    stage,                \* per party, the exchange it is in
    io,                   \* per party, where in that exchange
    remote_curve,         \* per party, the curve_id it read
    received_size,        \* per party, the size it read in this exchange
    received,             \* per party, the items it read in this exchange
    exchanged,            \* per party, the peer's keys under both secrets
    chan                  \* per party, the messages on their way to it

config == <<curve_id, obtain_result>>
vars == <<config, remote_obtain_result, calls, results, stage, io,
          remote_curve, received_size, received, exchanged, chan>>

\* A call of process or process_cardinality_only, with the shuffle it draws.
Call == {call \in [keys : Inputs,
                   permutation : UNION {Shuffles(Len(keys)) : keys \in Inputs},
                   only_cardinality : BOOLEAN] :
            call.permutation \in Shuffles(Len(call.keys))}

Point == [key : Keys, by : SUBSET Party]

Message == [kind : {"curve"}, curve : Curves]
      \cup [kind : {"flag"}, flag : BOOLEAN]
      \cup [kind : {"size"}, size : Nat]
      \cup [kind : {"points", "digests"}, items : Seq(Point)]

Exchanges == {"exchange_keys", "exchange_doubled"}

\* Stage of a party, and its position in the exchange of that stage.
Stages == {"check_params", "flags", "idle", "threw"} \cup Exchanges
Positions == {"send", "send_items", "recv", "recv_items", "done", "none"}

-----------------------------------------------------------------------------
(* Pure parts: encryption and the intersection.                            *)

\* encrypt_keys
EncryptKeys(p, keys) == [i \in DOMAIN keys |-> [key |-> keys[i], by |-> {p}]]

\* doublely_encrypt_keys
DoublelyEncryptKeys(p, points) ==
    [i \in DOMAIN points |-> [points[i] EXCEPT !.by = @ \cup {p}]]

\* Mutant of Matches: items compared position by position.
MatchesInPlace(remote, self) ==
    {i \in DOMAIN self \cap DOMAIN remote : self[i] = remote[i]}

\* The positions whose item std::binary_search finds in the sorted `remote`.
Matches(remote, self) == {i \in DOMAIN self : self[i] \in Range(remote)}

\* calculate_intersection; `output` is what output_keys holds on entry.
CalculateIntersection(remote, self, input, output) ==
    IF remote = <<>> \/ self = <<>> \/ input = <<>> THEN output
    ELSE Pick(input, Matches(remote, self))

\* Mutant of CalculateCardinalityOnly: the last position instead of the number.
CardinalityLessOne(remote, self) ==
    IF remote = <<>> \/ self = <<>> THEN 0
    ELSE Cardinality(Matches(remote, self)) - 1

\* calculate_cardinality_only
CalculateCardinalityOnly(remote, self) ==
    IF remote = <<>> \/ self = <<>> THEN 0
    ELSE Cardinality(Matches(remote, self))

Returned(keys, count) == [keys |-> keys, count |-> count]

-----------------------------------------------------------------------------
(* The state of one party.                                                 *)

Current(p) == calls[p][Len(calls[p])]

\* The input keys in the order the shuffle of this call put them in.
Shuffled(p) == Permute(Current(p).permutation, Current(p).keys)

\* Mutant of Outgoing: the party's own flag decides, not the peer's.
OutgoingByOwnFlag(p) ==
    IF stage[p] = "exchange_keys" THEN EncryptKeys(p, Shuffled(p))
    ELSE IF obtain_result[p] THEN exchanged[p]
    ELSE <<>>

\* What p hands to exchange_encrypted_keys.
Outgoing(p) ==
    IF stage[p] = "exchange_keys" THEN EncryptKeys(p, Shuffled(p))
    ELSE IF remote_obtain_result[p] THEN exchanged[p]
    ELSE <<>>

\* kEccPointLen bytes an item in the first exchange, kECCCompareBytesLen in
\* the second.
ItemKind(p) == IF stage[p] = "exchange_keys" THEN "points" ELSE "digests"

Init ==
    /\ curve_id \in [Party -> Curves]
    /\ obtain_result \in [Party -> BOOLEAN]
    /\ remote_obtain_result = [p \in Party |-> FALSE]
    /\ calls = [p \in Party |-> <<>>]
    /\ results = [p \in Party |-> <<>>]
    /\ stage = [p \in Party |-> "check_params"]
    /\ io = [p \in Party |-> First(p)]
    /\ remote_curve = curve_id
    /\ received_size = [p \in Party |-> 0]
    /\ received = [p \in Party |-> <<>>]
    /\ exchanged = [p \in Party |-> <<>>]
    /\ chan = [p \in Party |-> <<>>]

-----------------------------------------------------------------------------
(* Network: send_data blocks while the direction is full, recv_data while  *)
(* it is empty; messages arrive once and in order.                         *)

Post(p, message) ==
    /\ Len(chan[Peer(p)]) < Capacity
    /\ chan' = [chan EXCEPT ![Peer(p)] = Append(@, message)]

Take(p, kind) ==
    /\ chan[p] # <<>>
    /\ Head(chan[p]).kind = kind
    /\ chan' = [chan EXCEPT ![p] = Tail(@)]

Goto(p, position) == io' = [io EXCEPT ![p] = position]

Enter(p, next) ==
    /\ stage' = [stage EXCEPT ![p] = next]
    /\ Goto(p, IF next \in {"idle", "threw"} THEN "none" ELSE First(p))

-----------------------------------------------------------------------------
(* init: check_params, then the exchange of obtain_result.                 *)

\* Mutant of SendCurve: check_equal before the peer's curve is read.
SendCurveCheckFirst(p) ==
    /\ stage[p] = "check_params" /\ io[p] = "send"
    /\ Post(p, [kind |-> "curve", curve |-> curve_id[p]])
    /\ IF curve_id[p] = SupportedCurve
       THEN Goto(p, AfterSend(p)) /\ UNCHANGED stage
       ELSE Enter(p, "threw")
    /\ UNCHANGED <<config, remote_obtain_result, calls, results,
                   remote_curve, received_size, received, exchanged>>

SendCurve(p) ==
    /\ stage[p] = "check_params" /\ io[p] = "send"
    /\ Post(p, [kind |-> "curve", curve |-> curve_id[p]])
    /\ Goto(p, AfterSend(p))
    /\ UNCHANGED <<config, remote_obtain_result, calls, results, stage,
                   remote_curve, received_size, received, exchanged>>

RecvCurve(p) ==
    /\ stage[p] = "check_params" /\ io[p] = "recv"
    /\ Take(p, "curve")
    /\ remote_curve' = [remote_curve EXCEPT ![p] = Head(chan[p]).curve]
    /\ Goto(p, AfterRecv(p))
    /\ UNCHANGED <<config, remote_obtain_result, calls, results, stage,
                   received_size, received, exchanged>>

\* Mutant of CurveAccepted: no check_consistency.
CurveAcceptedAlone(p) == curve_id[p] = SupportedCurve

\* check_consistency compares the two curves, check_equal accepts only one;
\* either throws std::invalid_argument out of init.
CurveAccepted(p) ==
    curve_id[p] = remote_curve[p] /\ curve_id[p] = SupportedCurve

\* Mutant of CheckParams: a disagreement is exchanged again.
CheckParamsAgain(p) ==
    /\ stage[p] = "check_params" /\ io[p] = "done"
    /\ Enter(p, IF CurveAccepted(p) THEN "flags" ELSE "check_params")
    /\ UNCHANGED <<config, remote_obtain_result, calls, results,
                   remote_curve, received_size, received, exchanged, chan>>

CheckParams(p) ==
    /\ stage[p] = "check_params" /\ io[p] = "done"
    /\ Enter(p, IF CurveAccepted(p) THEN "flags" ELSE "threw")
    /\ UNCHANGED <<config, remote_obtain_result, calls, results,
                   remote_curve, received_size, received, exchanged, chan>>

SendFlag(p) ==
    /\ stage[p] = "flags" /\ io[p] = "send"
    /\ Post(p, [kind |-> "flag", flag |-> obtain_result[p]])
    /\ Goto(p, AfterSend(p))
    /\ UNCHANGED <<config, remote_obtain_result, calls, results, stage,
                   remote_curve, received_size, received, exchanged>>

RecvFlag(p) ==
    /\ stage[p] = "flags" /\ io[p] = "recv"
    /\ Take(p, "flag")
    /\ remote_obtain_result' =
          [remote_obtain_result EXCEPT ![p] = Head(chan[p]).flag]
    /\ Goto(p, AfterRecv(p))
    /\ UNCHANGED <<config, calls, results, stage, remote_curve,
                   received_size, received, exchanged>>

\* The rest of init: the cipher and a fresh secret key.
FinishInit(p) ==
    /\ stage[p] = "flags" /\ io[p] = "done"
    /\ Enter(p, "idle")
    /\ UNCHANGED <<config, remote_obtain_result, calls, results,
                   remote_curve, received_size, received, exchanged, chan>>

-----------------------------------------------------------------------------
(* process and process_cardinality_only: the same messages, a different    *)
(* result.                                                                 *)

\* The caller calls; the keys are shuffled and encrypted.
Process(p) ==
    /\ stage[p] = "idle"
    /\ Len(calls[p]) < MaxCalls
    /\ \E keys \in Inputs, only \in BOOLEAN :
          \E permutation \in Shuffles(Len(keys)) :
             calls' = [calls EXCEPT ![p] = Append(@,
                         [keys |-> keys, permutation |-> permutation,
                          only_cardinality |-> only])]
    /\ Enter(p, "exchange_keys")
    /\ UNCHANGED <<config, remote_obtain_result, results, remote_curve,
                   received_size, received, exchanged, chan>>

\* Mutant of SendSize: items follow a size of 0 too.
SendSizeThenItems(p) ==
    /\ stage[p] \in Exchanges /\ io[p] = "send"
    /\ Post(p, [kind |-> "size", size |-> Len(Outgoing(p))])
    /\ Goto(p, "send_items")
    /\ UNCHANGED <<config, remote_obtain_result, calls, results, stage,
                   remote_curve, received_size, received, exchanged>>

\* Mutant of SendSize: the party announces as many as it has keys, whatever it sends.
SendSizeOfKeys(p) ==
    /\ stage[p] \in Exchanges /\ io[p] = "send"
    /\ Post(p, [kind |-> "size", size |-> Len(Current(p).keys)])
    /\ Goto(p, IF Len(Outgoing(p)) # 0 THEN "send_items" ELSE AfterSend(p))
    /\ UNCHANGED <<config, remote_obtain_result, calls, results, stage,
                   remote_curve, received_size, received, exchanged>>

SendSize(p) ==
    /\ stage[p] \in Exchanges /\ io[p] = "send"
    /\ Post(p, [kind |-> "size", size |-> Len(Outgoing(p))])
    /\ Goto(p, IF Len(Outgoing(p)) # 0 THEN "send_items" ELSE AfterSend(p))
    /\ UNCHANGED <<config, remote_obtain_result, calls, results, stage,
                   remote_curve, received_size, received, exchanged>>

SendItems(p) ==
    /\ io[p] = "send_items"
    /\ Post(p, [kind |-> ItemKind(p), items |-> Outgoing(p)])
    /\ Goto(p, AfterSend(p))
    /\ UNCHANGED <<config, remote_obtain_result, calls, results, stage,
                   remote_curve, received_size, received, exchanged>>

\* Mutant of RecvSize: items are read after a size of 0 too.
RecvSizeThenItems(p) ==
    /\ stage[p] \in Exchanges /\ io[p] = "recv"
    /\ Take(p, "size")
    /\ received_size' = [received_size EXCEPT ![p] = Head(chan[p]).size]
    /\ received' = [received EXCEPT ![p] = <<>>]
    /\ Goto(p, "recv_items")
    /\ UNCHANGED <<config, remote_obtain_result, calls, results, stage,
                   remote_curve, exchanged>>

RecvSize(p) ==
    /\ stage[p] \in Exchanges /\ io[p] = "recv"
    /\ Take(p, "size")
    /\ received_size' = [received_size EXCEPT ![p] = Head(chan[p]).size]
    /\ received' = [received EXCEPT ![p] = <<>>]
    /\ Goto(p, IF Head(chan[p]).size # 0 THEN "recv_items" ELSE AfterRecv(p))
    /\ UNCHANGED <<config, remote_obtain_result, calls, results, stage,
                   remote_curve, exchanged>>

\* recv_data asks for received_size items of the exchange's length.
RecvItems(p) ==
    /\ io[p] = "recv_items"
    /\ Take(p, ItemKind(p))
    /\ Len(Head(chan[p]).items) = received_size[p]
    /\ received' = [received EXCEPT ![p] = Head(chan[p]).items]
    /\ Goto(p, AfterRecv(p))
    /\ UNCHANGED <<config, remote_obtain_result, calls, results, stage,
                   remote_curve, received_size, exchanged>>

DoublelyEncrypt(p) ==
    /\ stage[p] = "exchange_keys" /\ io[p] = "done"
    /\ exchanged' = [exchanged EXCEPT ![p] = DoublelyEncryptKeys(p, received[p])]
    /\ received' = [received EXCEPT ![p] = <<>>]
    /\ Enter(p, "exchange_doubled")
    /\ UNCHANGED <<config, remote_obtain_result, calls, results,
                   remote_curve, received_size, chan>>

\* Mutant of Outcome: output_keys is not cleared.
OutcomeNotCleared(p) ==
    LET call == Current(p)
        self == Undo(call.permutation, received[p])
    IN
    IF call.only_cardinality
    THEN Returned(<<>>, IF obtain_result[p]
                        THEN CalculateCardinalityOnly(exchanged[p], received[p])
                        ELSE 0)
    ELSE Returned(IF obtain_result[p]
                  THEN CalculateIntersection(exchanged[p], self, call.keys,
                                             Shuffled(p))
                  ELSE Shuffled(p), 0)

\* What the caller gets.  On entry to calculate_intersection output_keys
\* still holds the shuffled input.
Outcome(p) ==
    LET call == Current(p)
        self == Undo(call.permutation, received[p])
    IN
    IF ~obtain_result[p] THEN Returned(<<>>, 0)
    ELSE IF call.only_cardinality
         THEN Returned(<<>>, CalculateCardinalityOnly(exchanged[p], received[p]))
         ELSE Returned(CalculateIntersection(exchanged[p], self, call.keys,
                                             Shuffled(p)), 0)

Finish(p) ==
    /\ stage[p] = "exchange_doubled" /\ io[p] = "done"
    /\ results' = [results EXCEPT ![p] = Append(@, Outcome(p))]
    /\ exchanged' = [exchanged EXCEPT ![p] = <<>>]
    /\ received' = [received EXCEPT ![p] = <<>>]
    /\ Enter(p, "idle")
    /\ UNCHANGED <<config, remote_obtain_result, calls, remote_curve,
                   received_size, chan>>

-----------------------------------------------------------------------------
\* What p does on its own once init or a call is under way.
Step(p) ==
    \/ SendCurve(p) \/ RecvCurve(p) \/ CheckParams(p)
    \/ SendFlag(p) \/ RecvFlag(p) \/ FinishInit(p)
    \/ SendSize(p) \/ SendItems(p) \/ RecvSize(p) \/ RecvItems(p)
    \/ DoublelyEncrypt(p) \/ Finish(p)

Next == \E p \in Party : Process(p) \/ Step(p)

Spec == Init /\ [][Next]_vars

\* A thread inside init or a call keeps running; whether the caller calls
\* again is its own choice.
FairSpec == Spec /\ \A p \in Party : WF_vars(Step(p))

\* The session is over: both threw, or both made all their calls.  With this
\* the only way to stop, a deadlock is two parties waiting for each other.
Terminated ==
    /\ \/ \A p \in Party : stage[p] = "threw"
       \/ \A p \in Party : stage[p] = "idle" /\ Len(calls[p]) = MaxCalls
    /\ UNCHANGED vars

TerminatingSpec == Init /\ [][Next \/ Terminated]_vars

-----------------------------------------------------------------------------
(* Properties.                                                             *)

\* Every variable has the type its C++ counterpart gives it.
TypeOK ==
    /\ curve_id \in [Party -> Curves]
    /\ obtain_result \in [Party -> BOOLEAN]
    /\ remote_obtain_result \in [Party -> BOOLEAN]
    /\ calls \in [Party -> Seq(Call)]
    /\ results \in [Party -> Seq([keys : Seq(Keys), count : Nat])]
    /\ stage \in [Party -> Stages]
    /\ io \in [Party -> Positions]
    /\ remote_curve \in [Party -> Curves]
    /\ received_size \in [Party -> Nat]
    /\ received \in [Party -> Seq(Point)]
    /\ exchanged \in [Party -> Seq(Point)]
    /\ chan \in [Party -> Seq(Message)]

\* The kind of message the recv_data of p is waiting for.
Expected(p) ==
    IF io[p] = "recv_items" THEN ItemKind(p)
    ELSE CASE stage[p] = "check_params" -> "curve"
           [] stage[p] = "flags" -> "flag"
           [] OTHER -> "size"

\* recv_data takes bytes, not messages: the two ends stay in step only if the
\* next message is always the one this recv_data asks for, with as many items
\* as the size before it said.  No message waits for a party that is writing.
WireSync ==
    \A p \in Party : chan[p] # <<>> =>
        /\ io[p] \notin {"send", "send_items"}
        /\ io[p] \in {"recv", "recv_items"} =>
              Head(chan[p]).kind = Expected(p)
        /\ io[p] = "recv_items" => Len(Head(chan[p]).items) = received_size[p]

\* A session or a call that ended on both sides leaves no byte behind for the
\* next user of the network object.
NothingUnread ==
    (/\ \A p \in Party : stage[p] \in {"idle", "threw"}
     /\ Len(calls["sender"]) = Len(calls["receiver"]))
    => \A p \in Party : chan[p] = <<>>

\* Positions of the keys of call n of p that the peer's call n has too.
Common(p, n) ==
    {i \in DOMAIN calls[p][n].keys :
        \E j \in DOMAIN calls[Peer(p)][n].keys :
            calls[Peer(p)][n].keys[j] = calls[p][n].keys[i]}

\* A party allowed to obtain the result gets exactly the common keys, in the
\* order of its input and once for each occurrence there, or their number; the
\* other gets nothing.  Left out: the keys when the peer's input is empty (see
\* KeysAreIntersection).
ResultCorrect ==
    \A p \in Party : \A n \in DOMAIN results[p] :
        LET result == results[p][n]
            call == calls[p][n]
        IN
        /\ n \in DOMAIN calls[p] /\ n \in DOMAIN calls[Peer(p)]
        /\ ~obtain_result[p] => result = Returned(<<>>, 0)
        /\ obtain_result[p] /\ call.only_cardinality =>
              result = Returned(<<>>, Cardinality(Common(p, n)))
        /\ (/\ obtain_result[p] /\ ~call.only_cardinality
            /\ calls[Peer(p)][n].keys # <<>>) =>
              result = Returned(Pick(call.keys, Common(p, n)), 0)

\* psi.h:100 and ecdh_psi.h:97 say of the result of process: "The intersection
\* corresponding to input keys."
KeysAreIntersection ==
    \A p \in Party : \A n \in DOMAIN results[p] :
        obtain_result[p] /\ ~calls[p][n].only_cardinality =>
            results[p][n].keys = Pick(calls[p][n].keys, Common(p, n))

\* A party that is not to obtain the result never sees its own keys under both
\* secrets, with which it could compute it.
OnlyEntitledReceive ==
    \A p \in Party : ~obtain_result[p] =>
        /\ \A i \in DOMAIN chan[p] :
              chan[p][i].kind = "digests" => chan[p][i].items = <<>>
        /\ stage[p] = "exchange_doubled" => received[p] = <<>>

\* If init throws on one side it throws on the other: no party is left in a
\* session whose peer is gone.
ThrowAgreement ==
    \A p \in Party : stage[p] = "threw" =>
        stage[Peer(p)] \in {"check_params", "threw"}

\* A call that both parties make returns on both, and init ends.
CallsReturn ==
    \A p \in Party : \A n \in 1..MaxCalls :
        (n \in DOMAIN calls[p] /\ n \in DOMAIN calls[Peer(p)])
        ~> (n \in DOMAIN results[p])

InitEnds == <>(\A p \in Party : stage[p] \notin {"check_params", "flags"})

\* The session as its users see it.
Ideal == INSTANCE PSIIdeal WITH
    MayThrow <- FALSE,
    agreed <- (curve_id["sender"] = curve_id["receiver"]
                 /\ curve_id["sender"] = SupportedCurve),
    entitled <- obtain_result,
    status <- [p \in Party |->
                 CASE stage[p] \in {"check_params", "flags"} -> "init"
                   [] stage[p] = "threw" -> "threw"
                   [] OTHER -> "open"],
    calls <- [p \in Party |-> [n \in DOMAIN calls[p] |->
                 [keys |-> calls[p][n].keys,
                  only_cardinality |-> calls[p][n].only_cardinality]]]

\* The protocol implements psi.h's promise, as long as no input is empty.
ImplementsIdeal == Ideal!Spec
=============================================================================
