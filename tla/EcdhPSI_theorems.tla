-------------------------- MODULE EcdhPSI_theorems --------------------------
(***************************************************************************)
(* Every action of EcdhPSI keeps its types and IInv, for any keys, curves, *)
(* inputs and bounds; what its calls return; and that its sessions are     *)
(* sessions of PSIIdeal.                                                   *)
(***************************************************************************)
EXTENDS EcdhPSI_inv, KeyVectors_proofs

\* There are two parties, and peers are mutual.
LEMMA Parties2 ==
    \A p \in Party : /\ Peer(p) \in Party /\ Peer(p) # p /\ Peer(Peer(p)) = p
                     /\ \A q \in Party : q = p \/ q = Peer(p)
BY DEF Party, Peer

\* What one call says about its keys and its shuffle.
LEMMA CallType ==
    ASSUME NEW call \in Call
    PROVE  /\ call.keys \in Inputs /\ call.keys \in Seq(Keys)
           /\ call.only_cardinality \in BOOLEAN
           /\ call.permutation \in Shuffles(Len(call.keys))
           /\ DOMAIN call.permutation = 1..Len(call.keys)
           /\ Permute(call.permutation, call.keys) \in Seq(Keys)
           /\ Len(Permute(call.permutation, call.keys)) = Len(call.keys)
<1>1. /\ call.keys \in Inputs /\ call.only_cardinality \in BOOLEAN
      /\ call.permutation \in Shuffles(Len(call.keys))
  BY DEF Call
<1>2. call.keys \in Seq(Keys)
  BY <1>1, InputsAssumption
<1>3. Len(call.keys) \in Nat /\ call.keys \in [1..Len(call.keys) -> Keys]
  BY <1>2, LenProperties
<1>4. /\ DOMAIN call.permutation = 1..Len(call.keys)
      /\ Permute(call.permutation, call.keys) \in [1..Len(call.keys) -> Keys]
  BY <1>1, <1>3, PermuteType
<1> QED
  BY <1>1, <1>2, <1>3, <1>4

\* A call the caller may make is a Call.
LEMMA NewCallType ==
    ASSUME NEW keys \in Inputs, NEW only \in BOOLEAN,
           NEW permutation \in Shuffles(Len(keys))
    PROVE  [keys |-> keys, permutation |-> permutation,
            only_cardinality |-> only] \in Call
BY DEF Call

\* Encryption keeps the number of items.
LEMMA EncryptType ==
    ASSUME NEW p \in Party, NEW keys \in Seq(Keys)
    PROVE  /\ EncryptKeys(p, keys) \in Seq(Point)
           /\ Len(EncryptKeys(p, keys)) = Len(keys)
           /\ DOMAIN EncryptKeys(p, keys) = DOMAIN keys
<1>1. Len(keys) \in Nat /\ DOMAIN keys = 1..Len(keys)
  BY LenProperties
<1>2. \A i \in 1..Len(keys) : [key |-> keys[i], by |-> {p}] \in Point
  BY <1>1, ElementOfSeq DEF Point
<1>3. EncryptKeys(p, keys) \in [1..Len(keys) -> Point]
  BY <1>1, <1>2 DEF EncryptKeys
<1> QED
  BY <1>1, <1>3

LEMMA DoublelyEncryptType ==
    ASSUME NEW p \in Party, NEW points \in Seq(Point)
    PROVE  /\ DoublelyEncryptKeys(p, points) \in Seq(Point)
           /\ Len(DoublelyEncryptKeys(p, points)) = Len(points)
           /\ DOMAIN DoublelyEncryptKeys(p, points) = DOMAIN points
<1>1. Len(points) \in Nat /\ DOMAIN points = 1..Len(points)
  BY LenProperties
<1>2. ASSUME NEW i \in 1..Len(points)
      PROVE  [points[i] EXCEPT !.by = @ \cup {p}] \in Point
  <2>1. points[i] \in [key : Keys, by : SUBSET Party]
    BY ElementOfSeq DEF Point
  <2>2. points[i].by \cup {p} \in SUBSET Party
    BY <2>1
  <2> QED
    BY <2>1, <2>2 DEF Point
<1>3. DoublelyEncryptKeys(p, points) \in [1..Len(points) -> Point]
  BY <1>1, <1>2 DEF DoublelyEncryptKeys
<1> QED
  BY <1>1, <1>3

-----------------------------------------------------------------------------
\* A party that is exchanging keys does so for a call.
CallUnderWay == \A p \in Party : stage[p] \in Exchanges => calls[p] # <<>>

TypeInv == TypeOK /\ CallUnderWay

\* The call a party is working on is a Call.
LEMMA CurrentType ==
    ASSUME TypeOK, NEW p \in Party, calls[p] # <<>>
    PROVE  Current(p) \in Call
BY DEF TypeOK, Current

\* What a party sends are points.
LEMMA OutgoingType ==
    ASSUME TypeInv, NEW p \in Party
    PROVE  Outgoing(p) \in Seq(Point)
<1>1. CASE stage[p] = "exchange_keys"
  <2>1. Current(p) \in Call
    BY <1>1, CurrentType DEF TypeInv, CallUnderWay, Exchanges
  <2>2. Shuffled(p) \in Seq(Keys)
    BY <2>1, CallType DEF Shuffled
  <2> QED
    BY <1>1, <2>2, EncryptType DEF Outgoing
<1>2. CASE stage[p] # "exchange_keys"
  BY <1>2 DEF Outgoing, TypeInv, TypeOK
<1> QED
  BY <1>1, <1>2

\* What a call returns is a list of keys and a number.
LEMMA OutcomeType ==
    ASSUME TypeInv, NEW p \in Party, stage[p] \in Exchanges
    PROVE  Outcome(p) \in [keys : Seq(Keys), count : Nat]
<1> DEFINE call == Current(p)
           self == Undo(call.permutation, received[p])
           remote == exchanged[p]
<1>1. call \in Call
  BY CurrentType DEF TypeInv, CallUnderWay
<1> HIDE DEF call
<1>2. /\ call.keys \in Seq(Keys)
      /\ DOMAIN call.permutation = 1..Len(call.keys)
      /\ Permute(call.permutation, call.keys) \in Seq(Keys)
  BY <1>1, CallType
<1>3. DOMAIN self = DOMAIN call.keys
  BY <1>2, LenProperties DEF Undo
<1>4. Matches(remote, self) \in SUBSET (DOMAIN call.keys)
  BY <1>3 DEF Matches
<1>5. Pick(call.keys, Matches(remote, self)) \in Seq(Keys)
  BY <1>2, <1>4, PickType
<1>6. Len(received[p]) \in Nat /\ DOMAIN received[p] = 1..Len(received[p])
  BY LenProperties DEF TypeInv, TypeOK
<1>7. Cardinality(Matches(remote, received[p])) \in Nat
  <2>1. Matches(remote, received[p]) \in SUBSET (1..Len(received[p]))
    BY <1>6 DEF Matches
  <2> QED
    BY <1>6, <2>1, PositionsFinite
<1>8. CalculateIntersection(remote, self, call.keys, Shuffled(p)) \in Seq(Keys)
  BY <1>2, <1>5 DEF CalculateIntersection, Shuffled, call
<1>9. CalculateCardinalityOnly(remote, received[p]) \in Nat
  BY <1>7 DEF CalculateCardinalityOnly
<1>10. <<>> \in Seq(Keys)
  OBVIOUS
<1> QED
  BY <1>8, <1>9, <1>10 DEF Outcome, Returned, call

\* A channel holds messages only, whatever is posted to it or taken from it.
LEMMA PostType ==
    ASSUME TypeOK, NEW p \in Party, NEW message \in Message, Post(p, message)
    PROVE  chan' \in [Party -> Seq(Message)]
BY AppendProperties, Parties2 DEF TypeOK, Post

LEMMA TakeType ==
    ASSUME TypeOK, NEW p \in Party, NEW kind, Take(p, kind)
    PROVE  /\ chan' \in [Party -> Seq(Message)]
           /\ Head(chan[p]) \in Message /\ Head(chan[p]).kind = kind
BY HeadTailProperties DEF TypeOK, Take

\* The fields of a message of each kind.
LEMMA MessageFields ==
    ASSUME NEW m \in Message
    PROVE  /\ m.kind = "curve" => m.curve \in Curves
           /\ m.kind = "flag" => m.flag \in BOOLEAN
           /\ m.kind = "size" => m.size \in Nat
           /\ m.kind \in {"points", "digests"} => m.items \in Seq(Point)
BY DEF Message

\* Entering a stage, or moving within one, keeps the control state in its type.
LEMMA EnterType ==
    ASSUME TypeOK, NEW p \in Party, NEW next \in Stages, Enter(p, next)
    PROVE  stage' \in [Party -> Stages] /\ io' \in [Party -> Positions]
BY DEF TypeOK, Enter, Goto, First, Positions

LEMMA GotoType ==
    ASSUME TypeOK, NEW p \in Party, NEW position \in Positions, Goto(p, position)
    PROVE  io' \in [Party -> Positions]
BY DEF TypeOK, Goto

LEMMA PositionsType ==
    \A p \in Party : {First(p), AfterSend(p), AfterRecv(p)} \subseteq Positions
BY DEF First, AfterSend, AfterRecv, Positions

\* Type correctness: every value the protocol stores, sends or returns has the
\* type of its C++ counterpart; in particular the shuffle of a call has as many
\* positions as its input and output_keys is always a sequence of keys.
LEMMA TypeInvStep == TypeInv /\ [Next]_vars => TypeInv'
<1> SUFFICES ASSUME TypeInv, [Next]_vars PROVE TypeInv'
  OBVIOUS
<1> USE DEF TypeInv
<1>1. CASE UNCHANGED vars
  BY <1>1 DEF vars, config, TypeOK, CallUnderWay
<1>2. ASSUME NEW p \in Party, Process(p) PROVE TypeInv'
  <2>1. PICK call \in Call : calls' = [calls EXCEPT ![p] = Append(@, call)]
    BY <1>2, NewCallType DEF Process
  <2>2. calls' \in [Party -> Seq(Call)]
    BY <2>1, AppendProperties DEF TypeOK
  <2>3. \A q \in Party : calls'[q] # <<>> \/ (q # p /\ stage'[q] = stage[q] /\ calls'[q] = calls[q])
    BY SMTT(60), <1>2, <2>1, AppendProperties DEF TypeOK, Process, Enter
  <2>4. stage' \in [Party -> Stages] /\ io' \in [Party -> Positions]
    BY <1>2, EnterType DEF Process, Stages, Exchanges
  <2> QED
    BY <1>2, <2>2, <2>3, <2>4 DEF Process, config, TypeOK, CallUnderWay
<1>3. ASSUME NEW p \in Party, SendCurve(p) PROVE TypeInv'
  <2>1. [kind |-> "curve", curve |-> curve_id[p]] \in Message
    BY DEF TypeOK, Message
  <2> QED
    BY <1>3, <2>1, PostType, GotoType, PositionsType
       DEF SendCurve, config, TypeOK, CallUnderWay
<1>4. ASSUME NEW p \in Party, RecvCurve(p) PROVE TypeInv'
  <2>1. chan' \in [Party -> Seq(Message)] /\ Head(chan[p]).curve \in Curves
    BY <1>4, TakeType, MessageFields DEF RecvCurve
  <2> QED
    BY <1>4, <2>1, GotoType, PositionsType
       DEF RecvCurve, config, TypeOK, CallUnderWay
<1>5. ASSUME NEW p \in Party, CheckParams(p) PROVE TypeInv'
  <2>1. stage' \in [Party -> Stages] /\ io' \in [Party -> Positions]
    BY <1>5, EnterType DEF CheckParams, Stages
  <2> QED
    BY <1>5, <2>1
       DEF CheckParams, Enter, config, TypeOK, CallUnderWay, Exchanges
<1>6. ASSUME NEW p \in Party, SendFlag(p) PROVE TypeInv'
  <2>1. [kind |-> "flag", flag |-> obtain_result[p]] \in Message
    BY DEF TypeOK, Message
  <2> QED
    BY <1>6, <2>1, PostType, GotoType, PositionsType
       DEF SendFlag, config, TypeOK, CallUnderWay
<1>7. ASSUME NEW p \in Party, RecvFlag(p) PROVE TypeInv'
  <2>1. chan' \in [Party -> Seq(Message)] /\ Head(chan[p]).flag \in BOOLEAN
    BY <1>7, TakeType, MessageFields DEF RecvFlag
  <2> QED
    BY <1>7, <2>1, GotoType, PositionsType
       DEF RecvFlag, config, TypeOK, CallUnderWay
<1>8. ASSUME NEW p \in Party, FinishInit(p) PROVE TypeInv'
  <2>1. stage' \in [Party -> Stages] /\ io' \in [Party -> Positions]
    BY <1>8, EnterType DEF FinishInit, Stages
  <2> QED
    BY <1>8, <2>1
       DEF FinishInit, Enter, config, TypeOK, CallUnderWay, Exchanges
<1>9. ASSUME NEW p \in Party, SendSize(p) PROVE TypeInv'
  <2>1. Len(Outgoing(p)) \in Nat
    BY OutgoingType, LenProperties
  <2>2. [kind |-> "size", size |-> Len(Outgoing(p))] \in Message
    BY <2>1 DEF Message
  <2>3. io' \in [Party -> Positions]
    BY <1>9, GotoType, PositionsType DEF SendSize, Positions
  <2> QED
    BY <1>9, <2>2, <2>3, PostType DEF SendSize, config, TypeOK, CallUnderWay
<1>10. ASSUME NEW p \in Party, SendItems(p) PROVE TypeInv'
  <2>1. [kind |-> ItemKind(p), items |-> Outgoing(p)] \in Message
    BY OutgoingType DEF Message, ItemKind
  <2> QED
    BY <1>10, <2>1, PostType, GotoType, PositionsType
       DEF SendItems, config, TypeOK, CallUnderWay
<1>11. ASSUME NEW p \in Party, RecvSize(p) PROVE TypeInv'
  <2>1. chan' \in [Party -> Seq(Message)] /\ Head(chan[p]).size \in Nat
    BY <1>11, TakeType, MessageFields DEF RecvSize
  <2>2. io' \in [Party -> Positions]
    BY <1>11, GotoType, PositionsType DEF RecvSize, Positions
  <2>3. received' \in [Party -> Seq(Point)]
    BY <1>11, EmptySeq DEF RecvSize, TypeOK
  <2> QED
    BY <1>11, <2>1, <2>2, <2>3 DEF RecvSize, config, TypeOK, CallUnderWay
<1>12. ASSUME NEW p \in Party, RecvItems(p) PROVE TypeInv'
  <2>1. chan' \in [Party -> Seq(Message)] /\ Head(chan[p]).items \in Seq(Point)
    BY <1>12, TakeType, MessageFields DEF RecvItems, ItemKind
  <2> QED
    BY <1>12, <2>1, GotoType, PositionsType
       DEF RecvItems, config, TypeOK, CallUnderWay
<1>13. ASSUME NEW p \in Party, DoublelyEncrypt(p) PROVE TypeInv'
  <2>1. DoublelyEncryptKeys(p, received[p]) \in Seq(Point)
    BY DoublelyEncryptType DEF TypeOK
  <2>2. stage' \in [Party -> Stages] /\ io' \in [Party -> Positions]
    BY <1>13, EnterType DEF DoublelyEncrypt, Stages, Exchanges
  <2>3. CallUnderWay'
    BY <1>13 DEF DoublelyEncrypt, Enter, TypeOK, CallUnderWay, Exchanges
  <2>4. received' \in [Party -> Seq(Point)] /\ exchanged' \in [Party -> Seq(Point)]
    BY <1>13, <2>1, EmptySeq DEF DoublelyEncrypt, TypeOK
  <2> QED
    BY <1>13, <2>2, <2>3, <2>4 DEF DoublelyEncrypt, config, TypeOK
<1>14. ASSUME NEW p \in Party, Finish(p) PROVE TypeInv'
  <2>1. Outcome(p) \in [keys : Seq(Keys), count : Nat]
    BY <1>14, OutcomeType DEF Finish, Exchanges
  <2>2. results' \in [Party -> Seq([keys : Seq(Keys), count : Nat])]
    BY <1>14, <2>1, AppendProperties DEF Finish, TypeOK
  <2>3. stage' \in [Party -> Stages] /\ io' \in [Party -> Positions]
    BY <1>14, EnterType DEF Finish, Stages
  <2>4. CallUnderWay'
    BY <1>14 DEF Finish, Enter, TypeOK, CallUnderWay, Exchanges
  <2>5. received' \in [Party -> Seq(Point)] /\ exchanged' \in [Party -> Seq(Point)]
    BY <1>14, EmptySeq DEF Finish, TypeOK
  <2> QED
    BY <1>14, <2>2, <2>3, <2>4, <2>5 DEF Finish, config, TypeOK
<1> QED
  BY <1>1, <1>2, <1>3, <1>4, <1>5, <1>6, <1>7, <1>8, <1>9, <1>10, <1>11,
     <1>12, <1>13, <1>14 DEF Next, Step

LEMMA TypeInvInit == Init => TypeInv
BY PositionsType, CurvesAssumption
   DEF Init, TypeInv, TypeOK, CallUnderWay, Stages, Exchanges, config

THEOREM TypeCorrect == Spec => []TypeOK
<1>1. TypeInv => TypeOK
  BY DEF TypeInv
<1> QED
  BY <1>1, TypeInvInit, TypeInvStep, PTL DEF Spec
-----------------------------------------------------------------------------
(* Lockstep.                                                               *)

LEMMA Ends == /\ Party = {S, R} /\ S # R
              /\ Peer(S) = R /\ Peer(R) = S
              /\ S = "sender" /\ R = "receiver"
              /\ First(S) = "send" /\ AfterSend(S) = "recv" /\ AfterRecv(S) = "done"
              /\ First(R) = "recv" /\ AfterSend(R) = "done" /\ AfterRecv(R) = "send"
BY DEF Party, S, R, Peer, First, AfterSend, AfterRecv

\* The invariant subsumes the one type correctness needs.
LEMMA IInvType == IInv => TypeInv
<1> SUFFICES ASSUME IInv PROVE CallUnderWay
  BY DEF IInv, TypeInv
<1>1. ASSUME NEW p \in Party, stage[p] \in Exchanges PROVE calls[p] # <<>>
  <2>1. Number(p) = Len(results[p]) + 1
    BY <1>1 DEF IInv, LocalControl
  <2>2. Len(results[p]) \in Nat
    BY LenProperties DEF IInv, TypeOK
  <2> QED
    BY <2>1, <2>2, EmptySeq DEF Number
<1> QED
  BY <1>1 DEF CallUnderWay

-----------------------------------------------------------------------------
\* A step that only sends or reads changes no clock and no result.
LEMMA IOStep ==
    ASSUME UNCHANGED <<config, calls, results, stage>>
    PROVE  /\ Level' <=> Level
           /\ \A p \in Party : /\ Clock(p)' = Clock(p)
                               /\ Ahead(p)' <=> Ahead(p)
                               /\ Number(p)' = Number(p)
           /\ Accepted' <=> Accepted
           /\ ResultCorrect' <=> ResultCorrect
BY DEF config, Level, Clock, Ahead, Number, Accepted, ResultCorrect, Common

LEMMA ResultsKept ==
    ASSUME UNCHANGED <<config, calls, results>>
    PROVE  ResultCorrect' <=> ResultCorrect
BY DEF config, ResultCorrect, Common

\* What a call sends is settled when it is made.
LEMMA ItemsKept ==
    ASSUME UNCHANGED <<config, calls>>, NEW q \in Party
    PROVE  /\ \A exchange, n : ItemsOf(q, exchange, n)' = ItemsOf(q, exchange, n)
           /\ \A n : Returns(q, n)' = Returns(q, n)
           /\ Number(q)' = Number(q)
BY DEF config, ItemsOf, Returns, OwnPoints, Number

LEMMA IOFrames ==
    ASSUME UNCHANGED <<config, calls>>, stage'[S] = stage[S], NEW q \in Party
    PROVE  /\ \A exchange, n : ItemsOf(q, exchange, n)' = ItemsOf(q, exchange, n)
           /\ \A n : Returns(q, n)' = Returns(q, n)
           /\ Items(q)' = Items(q)
           /\ Header(q)' = Header(q)
           /\ Body(q)' = Body(q)
           /\ HasBody(q)' <=> HasBody(q)
           /\ Frame(q)' = Frame(q)
BY DEF config, ItemsOf, Returns, OwnPoints, Items, Header, Body, HasBody,
       Frame, Number, ItemKind

LEMMA ClockType ==
    ASSUME IInv
    PROVE  /\ \A p \in Party : /\ Clock(p) \in Nat /\ Number(p) \in Nat
                               /\ stage[p] \in Exchanges => Number(p) >= 1
           /\ Level => ~Ahead(S) /\ ~Ahead(R)
           /\ Ahead(S) => ~Ahead(R)
<1>1. \A p \in Party : /\ Number(p) \in Nat /\ Len(results[p]) \in Nat
                       /\ stage[p] \in Exchanges => Number(p) >= 1
  BY LenProperties DEF IInv, TypeOK, LocalControl, Number
<1>2. \A p \in Party : Clock(p) \in Nat
  BY <1>1 DEF Clock
<1>3. Clock(S) \in Nat /\ Clock(R) \in Nat
  BY <1>2, Ends
<1> QED
  BY <1>1, <1>2, <1>3, Ends DEF Level, Ahead

\* Two parties on the same clock, neither of them at rest, are in the same
\* exchange of the same call.
LEMMA SameExchange ==
    ASSUME IInv, Level, io[S] # "none", io[R] # "none"
    PROVE  stage[S] = stage[R] /\ Number(S) = Number(R)
<1>1. \A p \in Party : /\ Number(p) \in Nat /\ Len(results[p]) \in Nat
                       /\ stage[p] \in Exchanges => Number(p) >= 1
                       /\ stage[p] \in {"check_params", "flags"} => Number(p) = 0
  BY LenProperties, EmptySeq DEF IInv, TypeOK, LocalControl, Number
<1>2. \A p \in {S, R} : stage[p] \in {"check_params", "flags"} \cup Exchanges
  BY Ends DEF IInv, TypeOK, LocalControl, Stages
<1> QED
  BY <1>1, <1>2, Ends DEF Level, Clock, Exchanges

\* A party sends what the invariant says it sends.
LEMMA OutgoingItems ==
    ASSUME IInv, NEW p \in Party, stage[p] \in Exchanges
    PROVE  /\ Outgoing(p) = ItemsOf(p, stage[p], Number(p))
           /\ Outgoing(p) \in Seq(Point) /\ Len(Outgoing(p)) \in Nat
<1>1. Outgoing(p) \in Seq(Point)
  BY IInvType, OutgoingType
<1>2. stage[p] = "exchange_keys" =>
         Outgoing(p) = ItemsOf(p, stage[p], Number(p))
  BY DEF Outgoing, ItemsOf, OwnPoints, Shuffled, Current, Number
<1>3. ASSUME stage[p] = "exchange_doubled"
      PROVE  Outgoing(p) = ItemsOf(p, stage[p], Number(p))
  <2>1. /\ remote_obtain_result[p] = obtain_result[Peer(p)]
        /\ exchanged[p] = Returns(Peer(p), Number(p))
    BY <1>3 DEF IInv, Knows, Exchanges
  <2> QED
    BY <1>3, <2>1 DEF Outgoing, ItemsOf
<1> QED
  BY <1>1, <1>2, <1>3, LenProperties DEF Exchanges

\* Channels of at most two messages.
LEMMA Tuples ==
    ASSUME NEW h, NEW b
    PROVE  /\ Append(<<>>, h) = <<h>> /\ Append(<<h>>, b) = <<h, b>>
           /\ <<h>> # <<>> /\ <<h, b>> # <<>>
           /\ Head(<<h>>) = h /\ Head(<<h, b>>) = h
           /\ Tail(<<h>>) = <<>> /\ Tail(<<h, b>>) = <<b>>
<1>1. Append(<<>>, h) = <<h>>
  OBVIOUS
<1>2. Append(<<h>>, b) = <<h, b>>
  <2>1. <<h>> \in Seq({h, b}) /\ Len(<<h>>) = 1 /\ <<h, b>> \in Seq({h, b})
    OBVIOUS
  <2>2. /\ Append(<<h>>, b) \in Seq({h, b}) /\ Len(Append(<<h>>, b)) = 2
        /\ Append(<<h>>, b)[1] = h /\ Append(<<h>>, b)[2] = b
    BY <2>1, AppendProperties
  <2>3. \A i \in 1..2 : Append(<<h>>, b)[i] = <<h, b>>[i]
    BY <2>2
  <2> QED
    BY <2>1, <2>2, <2>3, SeqEqual
<1>3. <<h>> # <<>> /\ <<h, b>> # <<>>
  OBVIOUS
<1>4. Head(<<h>>) = h /\ Head(<<h, b>>) = h
  OBVIOUS
<1>5. Tail(<<h>>) = <<>>
  OBVIOUS
<1>6. Tail(<<h, b>>) = <<b>>
  OBVIOUS
<1> QED
  BY <1>1, <1>2, <1>3, <1>4, <1>5, <1>6

LEMMA PostEnds ==
    ASSUME TypeOK, NEW p \in Party, NEW message, Post(p, message)
    PROVE  chan'[Peer(p)] = Append(chan[Peer(p)], message) /\ chan'[p] = chan[p]
BY Parties2 DEF TypeOK, Post

LEMMA TakeEnds ==
    ASSUME TypeOK, NEW p \in Party, NEW kind, Take(p, kind)
    PROVE  chan'[p] = Tail(chan[p]) /\ chan'[Peer(p)] = chan[Peer(p)]
BY Parties2 DEF TypeOK, Take

\* Who sends when: the sender sends first, on empty channels, and the receiver
\* answers once it has read everything.
LEMMA SenderSends ==
    ASSUME IInv, io[S] = "send"
    PROVE  /\ Unread /\ io[R] \in {"recv", "none", "done"} /\ (io[R] = "done" => Ahead(S))
           /\ chan[S] = <<>> /\ chan[R] = <<>>
BY Ends DEF IInv, Lockstep, ToReceiver, ToSender, Unread

LEMMA ReceiverSends ==
    ASSUME IInv, io[R] = "send"
    PROVE  Level /\ io[S] = "recv" /\ chan[S] = <<>> /\ chan[R] = <<>>
BY Ends, ClockType DEF IInv, Lockstep, ToReceiver, ToSender, Unread, Replied

-----------------------------------------------------------------------------
(* One lemma for each action.                                              *)

\* What a step that only sends or reads leaves to prove.
LEMMA IOStepSuffices ==
    ASSUME IInv, TypeOK', UNCHANGED <<config, calls, results, stage>>,
           NEW p \in Party, NEW position, Goto(p, position),
           io[p] # "none", position # "none",
           position \in {"send_items", "recv_items"} => stage[p] \in Exchanges,
           Lockstep', ToReceiver', ToSender',
           \A q \in Party : Announced(q)' /\ Knows(q)'
    PROVE  IInv'
<1>1. \A q \in Party : LocalControl(q)'
  BY IOStep DEF IInv, LocalControl, Goto, TypeOK
<1>2. ResultCorrect'
  BY IOStep DEF IInv
<1> QED
  BY <1>1, <1>2 DEF IInv

\* What a party has read stays read.
LEMMA KnowsKept ==
    ASSUME IInv, NEW q \in Party, HasRead(q)' => HasRead(q),
           UNCHANGED <<config, calls>>, stage'[q] = stage[q],
           remote_curve'[q] = remote_curve[q],
           remote_obtain_result'[q] = remote_obtain_result[q],
           received'[q] = received[q], exchanged'[q] = exchanged[q]
    PROVE  Knows(q)'
<1>1. /\ Number(q)' = Number(q) /\ Number(Peer(q))' = Number(Peer(q))
      /\ \A exchange, n : ItemsOf(Peer(q), exchange, n)' = ItemsOf(Peer(q), exchange, n)
      /\ \A n : Returns(Peer(q), n)' = Returns(Peer(q), n)
  BY ItemsKept, Parties2
<1>2. Knows(q)
  BY DEF IInv
<1> QED
  BY <1>1, <1>2 DEF Knows, config

\* A party that moves between writing positions reads nothing.
LEMMA HasReadKept ==
    ASSUME IInv, NEW p \in Party, NEW position, Goto(p, position),
           NEW q \in Party,
           \/ p = S /\ position # "done"
           \/ p = R /\ io[p] \in {"send", "send_items"}
    PROVE  HasRead(q)' => HasRead(q)
BY Ends DEF HasRead, Goto, IInv, TypeOK

\* The party whose turn it is to write is in the exchange the sender is in.
LEMMA WriterExchange ==
    ASSUME IInv, NEW p \in Party, io[p] \in {"send", "send_items"}
    PROVE  stage[S] = stage[p] /\ Number(S) = Number(p)
<1>1. CASE p = R
  <2>1. Level /\ io[S] # "none"
    BY <1>1, Ends DEF IInv, Lockstep
  <2> QED
    BY <1>1, <2>1, SameExchange
<1> QED
  BY <1>1, Ends

\* A party writes the header of its frame.
LEMMA HeaderSent ==
    ASSUME IInv, TypeOK', NEW p \in Party, io[p] = "send",
           UNCHANGED <<config, remote_obtain_result, calls, results, stage,
                       remote_curve, received_size, received, exchanged>>,
           Post(p, Header(p)),
           Goto(p, IF HasBody(p) THEN "send_items" ELSE AfterSend(p))
    PROVE  IInv'
<1>1. \A q \in Party : Knows(q)'
  BY HasReadKept, KnowsKept, Ends
<1>2. /\ io' = [io EXCEPT ![p] = IF HasBody(p) THEN "send_items" ELSE AfterSend(p)]
      /\ HasBody(p) => stage[p] \in Exchanges
  BY WriterExchange DEF Goto, HasBody
<1>3. CASE p = S
  <2>1. chan'[R] = <<Header(S)>> /\ chan'[S] = <<>>
    BY <1>3, SenderSends, PostEnds, Tuples, Ends DEF IInv
  <2>2. io'[S] = (IF HasBody(S) THEN "send_items" ELSE "recv") /\ io'[R] = io[R]
    BY <1>2, <1>3, Ends DEF IInv, TypeOK
  <2>3. Lockstep'
    BY <1>3, <2>2, IOStep, Ends DEF IInv, Lockstep
  <2>4. ToReceiver' /\ ToSender'
    BY <1>3, <2>1, <2>2, IOStep, IOFrames, SenderSends, ClockType, Ends
       DEF ToReceiver, ToSender, Unread, Replied, Frame
  <2>5. \A q \in Party : Announced(q)'
    BY <1>3, <2>2, IOFrames, SenderSends, Ends DEF Announced
  <2> QED
    BY <1>1, <1>2, <1>3, <2>2, <2>3, <2>4, <2>5, IOStepSuffices, Ends
<1>4. CASE p = R
  <2>1. Level
    BY <1>4, ReceiverSends
  <2>2. chan'[S] = <<Header(R)>> /\ chan'[R] = <<>>
    BY <1>4, ReceiverSends, PostEnds, Tuples, Ends DEF IInv
  <2>3. io'[R] = (IF HasBody(R) THEN "send_items" ELSE "done") /\ io'[S] = "recv"
    BY <1>2, <1>4, ReceiverSends, Ends DEF IInv, TypeOK
  <2>4. Lockstep'
    BY <2>1, <2>3, IOStep DEF Lockstep
  <2>5. ToReceiver' /\ ToSender'
    BY <2>1, <2>2, <2>3, IOStep, IOFrames, ClockType, Ends
       DEF ToReceiver, ToSender, Unread, Replied, Frame
  <2>6. \A q \in Party : Announced(q)'
    BY <2>3, IOFrames, Ends DEF Announced
  <2> QED
    BY <1>1, <1>2, <1>4, <2>3, <2>4, <2>5, <2>6, IOStepSuffices, Ends
<1> QED
  BY <1>3, <1>4, Ends

LEMMA SendCurveStep ==
    ASSUME IInv, TypeOK', NEW p \in Party, SendCurve(p)
    PROVE  IInv'
<1>1. stage[S] = "check_params"
  BY WriterExchange DEF SendCurve
<1>2. Header(p) = [kind |-> "curve", curve |-> curve_id[p]] /\ ~HasBody(p)
  BY <1>1 DEF Header, HasBody, Exchanges
<1> QED
  BY <1>2, HeaderSent DEF SendCurve

LEMMA SendFlagStep ==
    ASSUME IInv, TypeOK', NEW p \in Party, SendFlag(p)
    PROVE  IInv'
<1>1. stage[S] = "flags"
  BY WriterExchange DEF SendFlag
<1>2. Header(p) = [kind |-> "flag", flag |-> obtain_result[p]] /\ ~HasBody(p)
  BY <1>1 DEF Header, HasBody, Exchanges
<1> QED
  BY <1>2, HeaderSent DEF SendFlag

LEMMA SendSizeStep ==
    ASSUME IInv, TypeOK', NEW p \in Party, SendSize(p)
    PROVE  IInv'
<1>1. stage[S] = stage[p] /\ Number(S) = Number(p) /\ stage[p] \in Exchanges
  BY WriterExchange DEF SendSize
<1>2. Outgoing(p) = Items(p) /\ (Len(Outgoing(p)) # 0 <=> HasBody(p))
  BY <1>1, OutgoingItems DEF Items, HasBody
<1>3. Header(p) = [kind |-> "size", size |-> Len(Outgoing(p))]
  BY <1>1, <1>2 DEF Header, Exchanges
<1> QED
  BY <1>2, <1>3, HeaderSent DEF SendSize

\* The body follows; the reader may have read the header by then.
LEMMA SendItemsStep ==
    ASSUME IInv, TypeOK', NEW p \in Party, SendItems(p)
    PROVE  IInv'
<1>1. /\ UNCHANGED <<config, remote_obtain_result, calls, results, stage,
                     remote_curve, received_size, received, exchanged>>
      /\ io[p] = "send_items" /\ Goto(p, AfterSend(p))
      /\ Post(p, [kind |-> ItemKind(p), items |-> Outgoing(p)])
  BY DEF SendItems
<1>2. stage[S] = stage[p] /\ Number(S) = Number(p) /\ stage[p] \in Exchanges
  BY <1>1, WriterExchange DEF IInv, LocalControl
<1>3. Post(p, Body(p)) /\ HasBody(p)
  BY <1>1, <1>2, OutgoingItems DEF Body, Items, ItemKind, IInv, Announced
<1>4. \A q \in Party : Knows(q)'
  BY <1>1, HasReadKept, KnowsKept, Ends
<1>5. CASE p = S
  <2>1. /\ chan[S] = <<>>
        /\ \/ io[R] = "recv_items" /\ Level /\ chan[R] = <<>>
           \/ io[R] \in {"recv", "none"} /\ Level /\ chan[R] = <<Header(S)>>
           \/ io[R] = "done" /\ Ahead(S) /\ chan[R] = <<Header(S)>>
    BY <1>1, <1>5, Ends DEF IInv, Lockstep, ToReceiver, ToSender
  <2>2. /\ chan'[R] = IF io[R] = "recv_items" THEN <<Body(S)>> ELSE Frame(S)
        /\ chan'[S] = <<>>
    BY SMTT(60), <1>3, <1>5, <2>1, PostEnds, Tuples, Ends DEF IInv, Frame
  <2>3. io'[S] = "recv" /\ io'[R] = io[R]
    BY <1>1, <1>5, Ends DEF IInv, TypeOK, Goto
  <2>4. Lockstep'
    BY <1>1, <2>1, <2>3, IOStep, Ends DEF Lockstep
  <2>5. ToReceiver' /\ ToSender'
    BY <1>1, <2>1, <2>2, <2>3, IOStep, IOFrames, ClockType, Ends
       DEF ToReceiver, ToSender, Unread, Replied
  <2>6. \A q \in Party : Announced(q)'
    BY <1>1, <1>3, <1>5, <2>1, <2>3, IOFrames, Ends DEF IInv, Announced
  <2> QED
    BY <1>1, <1>4, <1>5, <2>4, <2>5, <2>6, IOStepSuffices, Ends
<1>6. CASE p = R
  <2>1. /\ chan[R] = <<>> /\ Level
        /\ \/ io[S] = "recv" /\ chan[S] = <<Header(R)>>
           \/ io[S] = "recv_items" /\ chan[S] = <<>>
    BY <1>1, <1>6, ClockType, Ends
       DEF IInv, Lockstep, ToReceiver, ToSender, Unread, Replied
  <2>2. /\ chan'[S] = IF io[S] = "recv" THEN Frame(R) ELSE <<Body(R)>>
        /\ chan'[R] = <<>>
    BY SMTT(60), <1>3, <1>6, <2>1, PostEnds, Tuples, Ends DEF IInv, Frame
  <2>3. io'[R] = "done" /\ io'[S] = io[S]
    BY <1>1, <1>6, Ends DEF IInv, TypeOK, Goto
  <2>4. Lockstep'
    BY <1>1, <2>1, <2>3, IOStep, Ends DEF Lockstep
  <2>5. ToReceiver' /\ ToSender'
    BY <1>1, <2>1, <2>2, <2>3, IOStep, IOFrames, ClockType, Ends
       DEF ToReceiver, ToSender, Unread, Replied
  <2>6. \A q \in Party : Announced(q)'
    BY <1>1, <1>3, <1>6, <2>1, <2>3, IOFrames, Ends DEF IInv, Announced
  <2> QED
    BY <1>1, <1>4, <1>6, <2>3, <2>4, <2>5, <2>6, IOStepSuffices, Ends
<1> QED
  BY <1>5, <1>6, Ends

-----------------------------------------------------------------------------
LEMMA FrameEnds ==
    ASSUME NEW q
    PROVE  /\ Frame(q) # <<>> /\ Head(Frame(q)) = Header(q)
           /\ Tail(Frame(q)) = IF HasBody(q) THEN <<Body(q)>> ELSE <<>>
<1>1. CASE HasBody(q)
  BY <1>1, Tuples DEF Frame
<1>2. CASE ~HasBody(q)
  BY <1>2, Tuples DEF Frame
<1> QED
  BY <1>1, <1>2

\* What waits for a party that reads a header is its peer's header, of the
\* exchange both are in, and the peer is in that exchange or past it.
LEMMA PendingHeader ==
    ASSUME IInv, NEW p \in Party, io[p] = "recv", chan[p] # <<>>
    PROVE  /\ Head(chan[p]) = Header(Peer(p))
           /\ stage[S] = stage[p] /\ Number(S) = Number(p)
           /\ p = R => Level /\ io[S] \in {"send_items", "recv"}
           /\ p = S => Ahead(R) \/ (Level /\ io[R] \in {"send_items", "done"})
<1>1. CASE p = S
  <2>1. chan[S] = <<Header(R)>> \/ chan[S] = Frame(R)
    BY <1>1, Ends DEF IInv, ToSender
  <2>2. Head(chan[S]) = Header(R)
    BY <2>1, FrameEnds, Tuples
  <2>3. Ahead(R) \/ (Level /\ io[R] \in {"send_items", "done"})
    BY <1>1, Ends DEF IInv, Lockstep, ToSender, Replied
  <2> QED
    BY <1>1, <2>2, <2>3, Ends
<1>2. CASE p = R
  <2>1. Level /\ io[S] \in {"send_items", "recv"}
    BY <1>2, ClockType, Ends DEF IInv, Lockstep, ToReceiver, Unread
  <2>2. stage[S] = stage[R] /\ Number(S) = Number(R)
    BY <1>2, <2>1, SameExchange
  <2>3. chan[R] = <<Header(S)>> \/ chan[R] = Frame(S)
    BY <1>2, <2>1, Ends DEF IInv, ToReceiver
  <2>4. Head(chan[R]) = Header(S)
    BY <2>3, FrameEnds, Tuples
  <2> QED
    BY <1>2, <2>1, <2>2, <2>4, Ends
<1> QED
  BY <1>1, <1>2, Ends

\* A party reads the header of its peer's frame.
LEMMA HeaderRead ==
    ASSUME IInv, TypeOK', NEW p \in Party, io[p] = "recv",
           UNCHANGED <<config, calls, results, stage>>,
           NEW kind, Take(p, kind),
           Goto(p, IF HasBody(Peer(p)) THEN "recv_items" ELSE AfterRecv(p)),
           HasBody(Peer(p)) => received_size'[p] = Len(Items(Peer(p))),
           received_size'[Peer(p)] = received_size[Peer(p)],
           \A q \in Party : Knows(q)'
    PROVE  IInv'
<1>1. /\ io' = [io EXCEPT ![p] = IF HasBody(Peer(p)) THEN "recv_items" ELSE AfterRecv(p)]
      /\ chan[p] # <<>>
  BY DEF Goto, Take
<1>2. HasBody(Peer(p)) => stage[p] \in Exchanges
  BY <1>1, PendingHeader DEF HasBody
<1>3. CASE p = S
  <2>1. /\ chan[R] = <<>>
        /\ \/ Level /\ io[R] = "send_items" /\ HasBody(R) /\ chan[S] = <<Header(R)>>
           \/ Level /\ io[R] = "done" /\ chan[S] = Frame(R)
           \/ Ahead(R) /\ io[R] \in {"recv", "none"} /\ chan[S] = Frame(R)
    BY <1>1, <1>3, ClockType, Ends
       DEF IInv, Lockstep, ToReceiver, ToSender, Unread, Replied, Announced
  <2>2. /\ chan'[S] = IF HasBody(R) /\ io[R] # "send_items" THEN <<Body(R)>> ELSE <<>>
        /\ chan'[R] = <<>>
    BY ZenonT(60), <1>3, <2>1, TakeEnds, FrameEnds, Tuples, Ends DEF IInv
  <2>3. io'[S] = (IF HasBody(R) THEN "recv_items" ELSE "done") /\ io'[R] = io[R]
    BY <1>1, <1>3, Ends DEF IInv, TypeOK
  <2>4. Lockstep'
    BY <2>1, <2>3, IOStep, Ends DEF Lockstep
  <2>5. ToReceiver' /\ ToSender'
    BY <2>1, <2>2, <2>3, IOStep, IOFrames, ClockType, Ends
       DEF ToReceiver, ToSender, Unread, Replied
  <2>6. \A q \in Party : Announced(q)'
    BY <1>3, <2>1, <2>3, IOFrames, Ends DEF IInv, Announced
  <2> QED
    BY <1>1, <1>2, <1>3, <2>4, <2>5, <2>6, IOStepSuffices, Ends
<1>4. CASE p = R
  <2>1. /\ chan[S] = <<>> /\ Level
        /\ \/ io[S] = "send_items" /\ HasBody(S) /\ chan[R] = <<Header(S)>>
           \/ io[S] = "recv" /\ chan[R] = Frame(S)
    BY <1>1, <1>4, ClockType, Ends
       DEF IInv, Lockstep, ToReceiver, ToSender, Unread, Replied, Announced
  <2>2. /\ chan'[R] = IF HasBody(S) /\ io[S] # "send_items" THEN <<Body(S)>> ELSE <<>>
        /\ chan'[S] = <<>>
    BY ZenonT(60), <1>4, <2>1, TakeEnds, FrameEnds, Tuples, Ends DEF IInv
  <2>3. io'[R] = (IF HasBody(S) THEN "recv_items" ELSE "send") /\ io'[S] = io[S]
    BY <1>1, <1>4, Ends DEF IInv, TypeOK
  <2>4. Lockstep'
    BY <2>1, <2>3, IOStep, Ends DEF Lockstep
  <2>5. ToReceiver' /\ ToSender'
    BY <2>1, <2>2, <2>3, IOStep, IOFrames, ClockType, Ends
       DEF ToReceiver, ToSender, Unread, Replied
  <2>6. \A q \in Party : Announced(q)'
    BY <1>4, <2>1, <2>3, IOFrames, Ends DEF IInv, Announced
  <2> QED
    BY <1>1, <1>2, <1>4, <2>4, <2>5, <2>6, IOStepSuffices, Ends
<1> QED
  BY <1>3, <1>4, Ends

\* Reading changes what the reader knows, not what its peer does.
LEMMA PeerKnows ==
    ASSUME IInv, NEW p \in Party, NEW position, Goto(p, position),
           UNCHANGED <<config, calls, results, stage>>,
           remote_curve'[Peer(p)] = remote_curve[Peer(p)],
           remote_obtain_result'[Peer(p)] = remote_obtain_result[Peer(p)],
           received'[Peer(p)] = received[Peer(p)],
           exchanged'[Peer(p)] = exchanged[Peer(p)]
    PROVE  Knows(Peer(p))'
<1>1. HasRead(Peer(p))' => HasRead(Peer(p))
  BY Parties2 DEF HasRead, Goto, IInv, TypeOK
<1> QED
  BY <1>1, KnowsKept, Parties2

LEMMA RecvCurveStep ==
    ASSUME IInv, TypeOK', NEW p \in Party, RecvCurve(p)
    PROVE  IInv'
<1>1. /\ stage[p] = "check_params" /\ io[p] = "recv" /\ chan[p] # <<>>
      /\ Take(p, "curve") /\ Goto(p, AfterRecv(p))
      /\ remote_curve' = [remote_curve EXCEPT ![p] = Head(chan[p]).curve]
      /\ UNCHANGED <<config, remote_obtain_result, calls, results, stage,
                     received_size, received, exchanged>>
  BY DEF RecvCurve, Take
<1>2. stage[S] = "check_params" /\ Head(chan[p]) = Header(Peer(p))
  BY <1>1, PendingHeader
<1>3. ~HasBody(Peer(p)) /\ Head(chan[p]).curve = curve_id[Peer(p)]
  BY <1>2 DEF HasBody, Header, Exchanges
<1>4. Knows(p)'
  BY <1>1, <1>3, Parties2 DEF Knows, Exchanges, IInv, TypeOK, config
<1>5. Knows(Peer(p))'
  BY <1>1, PeerKnows, Parties2 DEF IInv, TypeOK
<1> QED
  BY <1>1, <1>3, <1>4, <1>5, HeaderRead, Parties2

LEMMA RecvFlagStep ==
    ASSUME IInv, TypeOK', NEW p \in Party, RecvFlag(p)
    PROVE  IInv'
<1>1. /\ stage[p] = "flags" /\ io[p] = "recv" /\ chan[p] # <<>>
      /\ Take(p, "flag") /\ Goto(p, AfterRecv(p))
      /\ remote_obtain_result' =
            [remote_obtain_result EXCEPT ![p] = Head(chan[p]).flag]
      /\ UNCHANGED <<config, calls, results, stage, remote_curve,
                     received_size, received, exchanged>>
  BY DEF RecvFlag, Take
<1>2. stage[S] = "flags" /\ Head(chan[p]) = Header(Peer(p))
  BY <1>1, PendingHeader
<1>3. ~HasBody(Peer(p)) /\ Head(chan[p]).flag = obtain_result[Peer(p)]
  BY <1>2 DEF HasBody, Header, Exchanges
<1>4. Knows(p)'
  BY <1>1, <1>3, Parties2 DEF Knows, Exchanges, IInv, TypeOK, config
<1>5. Knows(Peer(p))'
  BY <1>1, PeerKnows, Parties2 DEF IInv, TypeOK
<1> QED
  BY <1>1, <1>3, <1>4, <1>5, HeaderRead, Parties2

\* The keys of a call under one key or both are as many as the call has.
LEMMA PointsType ==
    ASSUME IInv, NEW q \in Party, NEW n \in 1..Number(q)
    PROVE  /\ OwnPoints(q, n) \in Seq(Point) /\ Returns(q, n) \in Seq(Point)
           /\ Len(OwnPoints(q, n)) = Len(calls[q][n].keys)
           /\ Len(Returns(q, n)) = Len(calls[q][n].keys)
<1>1. calls[q][n] \in Call
  BY ElementOfSeq DEF IInv, TypeOK, Number
<1>2. /\ Permute(calls[q][n].permutation, calls[q][n].keys) \in Seq(Keys)
      /\ Len(Permute(calls[q][n].permutation, calls[q][n].keys)) = Len(calls[q][n].keys)
  BY <1>1, CallType
<1>3. OwnPoints(q, n) \in Seq(Point) /\ Len(OwnPoints(q, n)) = Len(calls[q][n].keys)
  BY <1>2, EncryptType DEF OwnPoints
<1>4. Returns(q, n) \in Seq(Point) /\ Len(Returns(q, n)) = Len(OwnPoints(q, n))
  BY <1>3, DoublelyEncryptType, Parties2 DEF Returns
<1> QED
  BY <1>3, <1>4

\* When the receiver has answered the sender in an exchange, it has made the
\* call too; and the other way round.
LEMMA CallMatched ==
    ASSUME IInv, NEW p \in Party, stage[p] \in Exchanges,
           Ahead(Peer(p)) \/ (Level /\ io[Peer(p)] # "none")
    PROVE  Number(Peer(p)) >= Number(p) /\ Number(p) \in 1..Number(Peer(p))
<1>1. /\ Number(p) \in Nat /\ Number(p) >= 1 /\ Number(Peer(p)) \in Nat
      /\ Clock(Peer(p)) = Clock(p) \/ Clock(Peer(p)) = Clock(p) + 1
  BY ClockType, Parties2, Ends DEF Level, Ahead
<1>2. Clock(p) = 2 * Number(p) \/ Clock(p) = 2 * Number(p) + 1
  BY DEF Clock, Exchanges
<1>3. CASE Ahead(Peer(p))
  BY <1>1, <1>2, <1>3, Parties2 DEF Clock, Ahead, Exchanges
<1>4. CASE Level /\ io[Peer(p)] # "none"
  <2>1. stage[Peer(p)] \notin {"idle", "threw"}
    BY <1>4, Parties2 DEF IInv, LocalControl
  <2>2. Clock(Peer(p)) = Clock(p)
    BY <1>4, Ends DEF Level
  <2>3. stage[Peer(p)] \in {"check_params", "flags"} \cup Exchanges
    BY <2>1, Parties2 DEF IInv, TypeOK, Stages
  <2> QED
    BY <1>1, <1>2, <2>2, <2>3 DEF Clock, Exchanges
<1> QED
  BY <1>1, <1>3, <1>4

LEMMA RecvSizeStep ==
    ASSUME IInv, TypeOK', NEW p \in Party, RecvSize(p)
    PROVE  IInv'
<1> DEFINE q == Peer(p)
<1>1. /\ stage[p] \in Exchanges /\ io[p] = "recv" /\ chan[p] # <<>>
      /\ Take(p, "size")
      /\ received_size' = [received_size EXCEPT ![p] = Head(chan[p]).size]
      /\ received' = [received EXCEPT ![p] = <<>>]
      /\ Goto(p, IF Head(chan[p]).size # 0 THEN "recv_items" ELSE AfterRecv(p))
      /\ UNCHANGED <<config, remote_obtain_result, calls, results, stage,
                     remote_curve, exchanged>>
  BY DEF RecvSize, Take
<1>2. /\ stage[S] = stage[p] /\ Number(S) = Number(p)
      /\ Head(chan[p]) = Header(q)
      /\ Ahead(q) \/ (Level /\ io[q] # "none")
  BY <1>1, PendingHeader, Ends
<1>3. Head(chan[p]).size = Len(Items(q)) /\ (HasBody(q) <=> Len(Items(q)) # 0)
  BY <1>1, <1>2 DEF HasBody, Header, Exchanges
<1>4. Items(q) = ItemsOf(q, stage[p], Number(p)) /\ Items(q) \in Seq(Point)
  <2>1. Number(p) \in 1..Number(q) /\ Number(p) \in 1..Number(p) /\ Peer(q) = p
    BY <1>1, <1>2, CallMatched, ClockType, Parties2
  <2>2. OwnPoints(q, Number(p)) \in Seq(Point) /\ Returns(p, Number(p)) \in Seq(Point)
    BY <2>1, PointsType, Parties2
  <2> QED
    BY <1>2, <2>1, <2>2, EmptySeq DEF Items, ItemsOf
<1>5. Len(Items(q)) = 0 => Items(q) = <<>>
  BY <1>4, EmptySeq
<1>6. HasRead(p)' => Len(Items(q)) = 0
  BY <1>1, <1>3, Ends DEF HasRead, Goto, IInv, TypeOK
<1>7. Knows(p)'
  <2>1. /\ ItemsOf(q, stage[p], Number(p))' = ItemsOf(q, stage[p], Number(p))
        /\ Number(p)' = Number(p) /\ Number(q)' = Number(q)
        /\ Returns(q, Number(p))' = Returns(q, Number(p))
    BY <1>1, IOStep, IOFrames, Parties2
  <2>2. received'[p] = <<>> /\ Knows(p)
    BY <1>1 DEF IInv, TypeOK
  <2> QED
    BY <1>1, <1>4, <1>5, <1>6, <2>1, <2>2 DEF Knows, Exchanges, config
<1>8. Knows(q)'
  BY <1>1, PeerKnows, Parties2 DEF IInv, TypeOK
<1>9. received_size'[p] = Len(Items(q)) /\ received_size'[q] = received_size[q]
  BY <1>1, <1>3, Parties2 DEF IInv, TypeOK
<1>10. Goto(p, IF HasBody(q) THEN "recv_items" ELSE AfterRecv(p))
  BY <1>1, <1>3
<1>11. \A r \in Party : Knows(r)'
  BY <1>7, <1>8, Parties2
<1> QED
  BY <1>1, <1>9, <1>10, <1>11, HeaderRead

LEMMA RecvItemsStep ==
    ASSUME IInv, TypeOK', NEW p \in Party, RecvItems(p)
    PROVE  IInv'
<1> DEFINE q == Peer(p)
<1>1. /\ io[p] = "recv_items" /\ chan[p] # <<>>
      /\ Take(p, ItemKind(p))
      /\ received' = [received EXCEPT ![p] = Head(chan[p]).items]
      /\ Goto(p, AfterRecv(p))
      /\ UNCHANGED <<config, remote_obtain_result, calls, results, stage,
                     remote_curve, received_size, exchanged>>
  BY DEF RecvItems, Take
<1>2. /\ chan[p] = <<Body(q)>> /\ chan[q] = <<>>
      /\ p = R => Level /\ io[S] = "recv"
      /\ p = S => (Level /\ io[R] = "done")
                    \/ (Ahead(R) /\ io[R] \in {"recv", "none"})
  BY <1>1, ClockType, Ends
     DEF IInv, Lockstep, ToReceiver, ToSender, Unread, Replied
<1>3. stage[S] = stage[p] /\ Number(S) = Number(p)
  BY <1>1, <1>2, SameExchange, Ends
<1>4. chan'[p] = <<>> /\ chan'[q] = <<>> /\ Head(chan[p]) = Body(q)
  BY <1>1, <1>2, TakeEnds, Tuples DEF IInv
<1>5. io'[p] = AfterRecv(p) /\ io'[q] = io[q]
  BY <1>1, Parties2 DEF Goto, IInv, TypeOK
<1>6. received'[p] = ItemsOf(q, stage[p], Number(p))
  BY <1>1, <1>3, <1>4 DEF Body, Items, IInv, TypeOK
<1>7. Knows(p)'
  <2>1. /\ ItemsOf(q, stage[p], Number(p))' = ItemsOf(q, stage[p], Number(p))
        /\ Number(p)' = Number(p) /\ Number(q)' = Number(q)
        /\ Returns(q, Number(p))' = Returns(q, Number(p))
    BY <1>1, IOStep, IOFrames, Parties2
  <2>2. Knows(p) /\ stage[p] \in Exchanges
    BY <1>1 DEF IInv, LocalControl
  <2> QED
    BY <1>1, <1>6, <2>1, <2>2 DEF Knows, Exchanges, config
<1>8. Knows(q)'
  BY <1>1, PeerKnows, Parties2 DEF IInv, TypeOK
<1>9. \A r \in Party : Knows(r)'
  BY <1>7, <1>8, Parties2
<1>10. Lockstep'
  BY <1>1, <1>2, <1>5, IOStep, Ends DEF Lockstep
<1>11. ToReceiver' /\ ToSender'
  BY <1>1, <1>2, <1>4, <1>5, IOStep, IOFrames, ClockType, Ends
     DEF ToReceiver, ToSender, Unread, Replied
<1>12. \A r \in Party : Announced(r)'
  BY <1>1, <1>2, <1>5, IOFrames, Ends DEF IInv, Announced
<1>13. io[p] # "none" /\ AfterRecv(p) \notin {"none", "send_items", "recv_items"}
  BY <1>1, Ends
<1> QED
  BY <1>1, <1>9, <1>10, <1>11, <1>12, <1>13, IOStepSuffices

-----------------------------------------------------------------------------
\* A party that has finished an exchange: its frame is read and written.
LEMMA AtDone ==
    ASSUME IInv, NEW p \in Party, io[p] = "done"
    PROVE  /\ p = S => /\ chan[S] = <<>> /\ chan[R] = <<>>
                       /\ \/ Level /\ io[R] = "done"
                          \/ Ahead(R) /\ io[R] \in {"recv", "none"}
           /\ p = R => \/ Level /\ io[S] \in {"recv", "recv_items", "done"}
                       \/ Ahead(S) /\ io[S] \in {"send", "none", "send_items", "recv"}
           /\ Ahead(Peer(p)) \/ (Level /\ io[Peer(p)] # "none")
BY ClockType, Ends DEF IInv, Lockstep, ToReceiver, ToSender

\* A party moves on to the next exchange: it is level with its peer if it was
\* behind, and one ahead if it was level.
LEMMA Advance ==
    ASSUME IInv, TypeOK', NEW p \in Party, io[p] = "done",
           UNCHANGED <<config, calls, remote_obtain_result, remote_curve,
                       received_size, chan>>,
           NEW next \in Stages, Enter(p, next), Clock(p)' = Clock(p) + 1,
           LocalControl(p)', Knows(p)', ResultCorrect',
           results'[Peer(p)] = results[Peer(p)],
           received'[Peer(p)] = received[Peer(p)],
           exchanged'[Peer(p)] = exchanged[Peer(p)]
    PROVE  IInv'
<1> DEFINE q == Peer(p)
<1>1. /\ stage'[q] = stage[q] /\ io'[q] = io[q]
      /\ io'[p] = IF next \in {"idle", "threw"} THEN "none" ELSE First(p)
  BY SMTT(60), Parties2 DEF Enter, Goto, IInv, TypeOK
<1>2. Clock(q)' = Clock(q) /\ Number(q)' = Number(q)
  BY <1>1 DEF Clock, Number
<1>3. LocalControl(q)'
  BY ZenonT(60), <1>1, <1>2, Parties2 DEF IInv, LocalControl, Accepted, config
<1>4. Knows(q)'
  <2>1. HasRead(q)' => HasRead(q)
    BY <1>1 DEF HasRead
  <2> QED
    BY <1>1, <2>1, KnowsKept, Parties2
<1>5. Clock(S) \in Nat /\ Clock(R) \in Nat
  BY ClockType, Ends
<1>6. CASE p = S
  <2>1. /\ io'[S] \in {"send", "none"} /\ io'[R] = io[R]
        /\ Clock(S)' = Clock(S) + 1 /\ Clock(R)' = Clock(R)
    BY <1>1, <1>2, <1>6, Ends
  <2>2. /\ Level => Ahead(S)'
        /\ Ahead(R) => Level'
    BY <1>5, <2>1, Ends DEF Level, Ahead
  <2>3. Lockstep'
    BY <1>6, <2>1, <2>2, AtDone DEF Lockstep
  <2>4. ToReceiver' /\ ToSender'
    BY <1>6, <2>1, AtDone DEF ToReceiver, ToSender
  <2>5. \A r \in Party : Announced(r)'
    BY <1>6, <2>1, AtDone, Ends DEF Announced
  <2> QED
    BY <1>3, <1>4, <1>6, <2>3, <2>4, <2>5, Ends DEF IInv
<1>7. CASE p = R
  <2>1. /\ io'[R] \in {"recv", "none"} /\ io'[S] = io[S] /\ stage'[S] = stage[S]
        /\ Clock(R)' = Clock(R) + 1 /\ Clock(S)' = Clock(S)
    BY <1>1, <1>2, <1>7, Ends
  <2>2. /\ Level => Ahead(R)' /\ ~Level' /\ ~Ahead(S)'
        /\ Ahead(S) => Level' /\ ~Ahead(R)' /\ ~Ahead(S)'
    BY <1>5, <2>1, Ends DEF Level, Ahead
  <2>3. Lockstep'
    BY <1>7, <2>1, <2>2, AtDone DEF Lockstep
  <2>4. ToReceiver' /\ ToSender'
    BY <1>7, <2>1, <2>2, AtDone, IOFrames, ClockType, Ends
       DEF IInv, ToReceiver, ToSender, Unread, Replied
  <2>5. \A r \in Party : Announced(r)'
    BY <1>7, <2>1, IOFrames, AtDone, Ends DEF IInv, Announced
  <2> QED
    BY <1>3, <1>4, <1>7, <2>3, <2>4, <2>5, Ends DEF IInv
<1> QED
  BY <1>6, <1>7, Ends

LEMMA CheckParamsStep ==
    ASSUME IInv, TypeOK', NEW p \in Party, CheckParams(p)
    PROVE  IInv'
<1> DEFINE next == IF CurveAccepted(p) THEN "flags" ELSE "threw"
<1>1. /\ stage[p] = "check_params" /\ io[p] = "done" /\ Enter(p, next)
      /\ UNCHANGED <<config, remote_obtain_result, calls, results,
                     remote_curve, received_size, received, exchanged, chan>>
  BY DEF CheckParams
<1>2. next \in Stages /\ stage'[p] = next
      /\ io'[p] = IF next = "threw" THEN "none" ELSE First(p)
  BY <1>1 DEF Stages, Enter, Goto, IInv, TypeOK
<1>3. CurveAccepted(p) <=> Accepted
  <2>1. remote_curve[p] = curve_id[Peer(p)]
    BY <1>1 DEF IInv, Knows, HasRead
  <2> QED
    BY <2>1, Ends DEF CurveAccepted, Accepted
<1>4. Clock(p)' = Clock(p) + 1
  BY <1>1, <1>2 DEF Clock
<1>5. LocalControl(p)'
  BY ZenonT(60), <1>1, <1>2, <1>3, Ends
     DEF IInv, LocalControl, Exchanges, Accepted, Number, config
<1>6. Knows(p)'
  BY <1>1, <1>2, Ends DEF Knows, HasRead, Exchanges
<1>7. ResultCorrect'
  BY <1>1, ResultsKept DEF IInv
<1> HIDE DEF next
<1> QED
  BY <1>1, <1>2, <1>4, <1>5, <1>6, <1>7, Advance

LEMMA FinishInitStep ==
    ASSUME IInv, TypeOK', NEW p \in Party, FinishInit(p)
    PROVE  IInv'
<1>1. /\ stage[p] = "flags" /\ io[p] = "done" /\ Enter(p, "idle")
      /\ UNCHANGED <<config, remote_obtain_result, calls, results,
                     remote_curve, received_size, received, exchanged, chan>>
  BY DEF FinishInit
<1>2. stage'[p] = "idle" /\ io'[p] = "none" /\ "idle" \in Stages
  BY <1>1 DEF Stages, Enter, Goto, IInv, TypeOK
<1>3. Number(p) = 0 /\ Number(p)' = 0
  BY <1>1, EmptySeq DEF IInv, LocalControl, Number
<1>4. Clock(p)' = Clock(p) + 1
  BY <1>1, <1>2, <1>3 DEF Clock
<1>5. LocalControl(p)'
  BY <1>1, <1>2 DEF IInv, LocalControl, Exchanges, Accepted, Number, config
<1>6. Knows(p)'
  BY <1>1, <1>2 DEF IInv, Knows, HasRead, Exchanges, config
<1>7. ResultCorrect'
  BY <1>1, ResultsKept DEF IInv
<1> QED
  BY <1>1, <1>2, <1>4, <1>5, <1>6, <1>7, Advance

LEMMA DoublelyEncryptStep ==
    ASSUME IInv, TypeOK', NEW p \in Party, DoublelyEncrypt(p)
    PROVE  IInv'
<1> DEFINE q == Peer(p)
<1>1. /\ stage[p] = "exchange_keys" /\ io[p] = "done"
      /\ Enter(p, "exchange_doubled")
      /\ exchanged' = [exchanged EXCEPT ![p] = DoublelyEncryptKeys(p, received[p])]
      /\ received' = [received EXCEPT ![p] = <<>>]
      /\ UNCHANGED <<config, remote_obtain_result, calls, results,
                     remote_curve, received_size, chan>>
  BY DEF DoublelyEncrypt
<1>2. /\ stage'[p] = "exchange_doubled" /\ io'[p] = First(p)
      /\ "exchange_doubled" \in Stages
  BY <1>1 DEF Stages, Exchanges, Enter, Goto, IInv, TypeOK
<1>3. Clock(p)' = Clock(p) + 1 /\ Number(p)' = Number(p) /\ Number(q)' = Number(q)
  BY <1>1, <1>2 DEF Clock, Number
<1>4. LocalControl(p)'
  BY <1>1, <1>2, <1>3, Ends DEF IInv, LocalControl, Exchanges, Accepted, config
<1>5. exchanged'[p] = Returns(q, Number(p))
  <2>1. received[p] = OwnPoints(q, Number(p))
    BY <1>1 DEF IInv, Knows, HasRead, Exchanges, ItemsOf
  <2> QED
    BY <1>1, <2>1, Parties2 DEF Returns, IInv, TypeOK
<1>6. Number(q) >= Number(p)
  BY <1>1, AtDone, CallMatched DEF Exchanges
<1>7. Knows(p)'
  <2>1. Returns(q, Number(p))' = Returns(q, Number(p))
    BY <1>1, <1>3, ItemsKept, Parties2
  <2>2. ~HasRead(p)'
    BY <1>2, Ends DEF HasRead
  <2>3. remote_obtain_result'[p] = obtain_result'[q]
    BY <1>1 DEF IInv, Knows, Exchanges, config
  <2> QED
    BY <1>2, <1>3, <1>5, <1>6, <2>1, <2>2, <2>3 DEF Knows
<1>8. ResultCorrect'
  BY <1>1, ResultsKept DEF IInv
<1>9. received'[q] = received[q] /\ exchanged'[q] = exchanged[q]
  BY <1>1, Parties2 DEF IInv, TypeOK
<1> QED
  BY <1>1, <1>2, <1>3, <1>4, <1>7, <1>8, <1>9, Advance

-----------------------------------------------------------------------------
\* A new call leaves the earlier ones as they are.
LEMMA CallsKept ==
    ASSUME IInv, TypeOK', NEW p \in Party, NEW call \in Call,
           calls' = [calls EXCEPT ![p] = Append(@, call)], UNCHANGED config
    PROVE  /\ Number(p)' = Number(p) + 1 /\ Number(Peer(p))' = Number(Peer(p))
           /\ \A r \in Party : \A n \in 1..Number(r) :
                 /\ n \in DOMAIN calls[r] /\ n \in DOMAIN calls'[r]
                 /\ calls'[r][n] = calls[r][n]
                 /\ OwnPoints(r, n)' = OwnPoints(r, n)
                 /\ Returns(r, n)' = Returns(r, n)
<1>1. calls'[p] = Append(calls[p], call) /\ calls'[Peer(p)] = calls[Peer(p)]
  BY Parties2 DEF IInv, TypeOK
<1>2. \A r \in Party : calls[r] \in Seq(Call)
  BY DEF IInv, TypeOK
<1>3. /\ Len(calls'[p]) = Len(calls[p]) + 1 /\ Len(calls[p]) \in Nat
      /\ \A n \in 1..Len(calls[p]) : calls'[p][n] = calls[p][n]
  BY <1>1, <1>2, AppendProperties, LenProperties
<1>4. \A r \in Party : \A n \in 1..Number(r) :
          /\ n \in DOMAIN calls[r] /\ n \in DOMAIN calls'[r]
          /\ calls'[r][n] = calls[r][n]
  <2>1. \A n \in 1..Number(p) : n \in DOMAIN calls'[p]
    BY <1>3, LenProperties DEF Number, TypeOK
  <2>2. \A r \in Party : \A n \in 1..Number(r) : n \in DOMAIN calls[r]
    BY <1>2, LenProperties DEF Number
  <2> QED
    BY <1>1, <1>3, <2>1, <2>2, Parties2 DEF Number
<1>5. \A r \in Party : \A n \in 1..Number(r) : OwnPoints(r, n)' = OwnPoints(r, n)
  BY <1>4 DEF OwnPoints
<1>6. \A r \in Party : \A n \in 1..Number(r) : Returns(r, n)' = Returns(r, n)
  BY <1>5 DEF Returns
<1> QED
  BY <1>1, <1>3, <1>4, <1>5, <1>6 DEF Number

LEMMA ProcessStep ==
    ASSUME IInv, TypeOK', NEW p \in Party, Process(p)
    PROVE  IInv'
<1> DEFINE q == Peer(p)
<1>1. PICK call \in Call : calls' = [calls EXCEPT ![p] = Append(@, call)]
  BY NewCallType DEF Process
<1>2. /\ stage[p] = "idle" /\ Enter(p, "exchange_keys")
      /\ UNCHANGED <<config, remote_obtain_result, results, remote_curve,
                     received_size, received, exchanged, chan>>
  BY DEF Process
<1>3. /\ io[p] = "none" /\ stage'[p] = "exchange_keys" /\ io'[p] = First(p)
      /\ stage'[q] = stage[q] /\ io'[q] = io[q]
      /\ calls'[q] = calls[q]
  BY <1>1, <1>2, Parties2 DEF Enter, Goto, IInv, TypeOK, LocalControl
<1>4. /\ Number(p)' = Number(p) + 1 /\ Number(q)' = Number(q)
      /\ Number(p) \in Nat /\ Number(q) \in Nat
      /\ \A r \in Party : \A n \in 1..Number(r) :
            OwnPoints(r, n)' = OwnPoints(r, n) /\ Returns(r, n)' = Returns(r, n)
  BY <1>1, <1>2, CallsKept, ClockType, Parties2
<1>5. \A r \in Party : Clock(r)' = Clock(r)
  <2>1. Clock(p)' = Clock(p)
    BY <1>2, <1>3, <1>4 DEF Clock
  <2>2. Clock(q)' = Clock(q)
    BY <1>3, <1>4 DEF Clock
  <2> QED
    BY <2>1, <2>2, Parties2
<1>6. (Level' <=> Level) /\ \A r \in Party : Ahead(r)' <=> Ahead(r)
  BY <1>5, Parties2, Ends DEF Level, Ahead
<1>7. \A r \in Party : LocalControl(r)'
  <2>1. LocalControl(p)'
    <3>1. LocalControl(p) /\ Accepted' = Accepted
      BY <1>2 DEF IInv, Accepted, config
    <3>2. io'[p] # "none" /\ io'[p] \notin {"send_items", "recv_items"}
      BY <1>3, Ends
    <3> QED
      BY <1>2, <1>3, <1>4, <3>1, <3>2 DEF LocalControl, Exchanges
  <2>2. LocalControl(q)'
    BY <1>2, <1>3, <1>4, Parties2
       DEF IInv, LocalControl, Accepted, config
  <2> QED
    BY <2>1, <2>2, Parties2
<1>8. /\ p = S => /\ io[R] \in {"recv", "none", "done"}
                  /\ io[R] = "done" => Ahead(S)
                  /\ chan[S] = <<>> /\ chan[R] = <<>>
      /\ p = R => \/ io[S] \in {"send", "none", "send_items", "recv"} /\ Level
                  \/ io[S] \in {"recv", "recv_items", "done"} /\ Ahead(R)
  BY <1>3, Ends DEF IInv, Lockstep, ToReceiver, ToSender
<1>9. ASSUME stage[q] \in Exchanges, Ahead(p) \/ Number(p) >= Number(q)
      PROVE  /\ Number(p) >= Number(q)
             /\ Returns(p, Number(q))' = Returns(p, Number(q))
             /\ \A r \in Party : ItemsOf(r, stage[q], Number(q))'
                                   = ItemsOf(r, stage[q], Number(q))
  <2>1. Number(q) \in 1..Number(p) /\ Number(q) \in 1..Number(q)
    BY <1>4, <1>9, CallMatched, ClockType, Parties2
  <2>2. \A r \in Party : /\ OwnPoints(r, Number(q))' = OwnPoints(r, Number(q))
                         /\ Returns(r, Number(q))' = Returns(r, Number(q))
    BY <1>4, <2>1, Parties2
  <2>3. obtain_result' = obtain_result
    BY <1>2 DEF config
  <2> QED
    BY <1>3, <1>4, <2>1, <2>2, <2>3, Parties2 DEF ItemsOf
<1>10. \A r \in Party : Knows(r)'
  <2>1. Knows(p)'
    BY <1>2, <1>3, Ends DEF IInv, Knows, HasRead, Exchanges, config
  <2>2. HasRead(q) => Ahead(p)
    BY <1>3, <1>8, Ends DEF HasRead
  <2>3. HasRead(q)' <=> HasRead(q)
    BY <1>3 DEF HasRead
  <2>4. Knows(q) /\ Peer(q) = p
    BY Parties2 DEF IInv
  <2>5. ASSUME stage[q] \notin Exchanges PROVE Knows(q)'
    BY <1>2, <1>3, <2>3, <2>4, <2>5 DEF Knows, Exchanges, config
  <2>6. ASSUME stage[q] \in Exchanges PROVE Knows(q)'
    <3>1. stage[q] = "exchange_doubled" =>
             /\ Number(p)' >= Number(q)'
             /\ exchanged'[q] = Returns(p, Number(q))'
      BY <1>2, <1>4, <1>9, <2>4, <2>6 DEF Knows
    <3>2. HasRead(q) => received'[q] = ItemsOf(p, stage[q], Number(q))'
      BY <1>2, <1>9, <2>2, <2>4, <2>6 DEF Knows
    <3>3. stage[q] # "check_params"
      BY <2>6 DEF Exchanges
    <3> QED
      BY <1>2, <1>3, <1>4, <2>3, <2>4, <2>6, <3>1, <3>2, <3>3 DEF Knows, config
  <2> QED
    BY <2>1, <2>5, <2>6, Parties2
<1>11. Lockstep'
  BY <1>3, <1>6, <1>8, Ends DEF Lockstep, IInv
<1>12. p = R /\ io[S] # "none" =>
          /\ Header(S)' = Header(S) /\ (HasBody(S)' <=> HasBody(S))
          /\ HasBody(S) => Body(S)' = Body(S)
  <2> SUFFICES ASSUME p = R, io[S] # "none"
               PROVE  /\ Header(S)' = Header(S) /\ (HasBody(S)' <=> HasBody(S))
                      /\ HasBody(S) => Body(S)' = Body(S)
    OBVIOUS
  <2>1. stage'[S] = stage[S] /\ q = S /\ ItemKind(S)' = ItemKind(S)
    BY <1>3, Ends DEF ItemKind
  <2>2. stage[S] \in {"check_params", "flags"} \/ Items(S)' = Items(S)
    <3>1. CASE stage[S] = "exchange_keys"
      <4>1. Number(S) \in 1..Number(S)
        BY <3>1, ClockType, Ends DEF Exchanges
      <4>2. OwnPoints(S, Number(S))' = OwnPoints(S, Number(S))
        BY <1>4, <2>1, <4>1, Ends
      <4> QED
        BY <1>4, <2>1, <3>1, <4>2 DEF Items, ItemsOf
    <3>2. CASE stage[S] = "exchange_doubled"
      <4>1. Number(p) >= Number(q)
        BY <2>1, <3>2, Parties2, Ends DEF IInv, Knows
      <4> QED
        BY <1>4, <1>9, <2>1, <3>2, <4>1, Ends DEF Items, Exchanges
    <3> QED
      BY <3>1, <3>2, Ends DEF IInv, LocalControl, TypeOK, Stages, Exchanges
  <2> QED
    BY <1>2, <2>1, <2>2 DEF Header, Body, HasBody, Exchanges, config
<1>13. p = R /\ io[S] # "none" /\ Ahead(R) =>
          /\ Header(R)' = Header(R) /\ (HasBody(R)' <=> HasBody(R))
          /\ HasBody(R) => Body(R)' = Body(R) /\ Items(R)' = Items(R)
  <2> SUFFICES ASSUME p = R, io[S] # "none", Ahead(R)
               PROVE  /\ Header(R)' = Header(R) /\ (HasBody(R)' <=> HasBody(R))
                      /\ HasBody(R) => Body(R)' = Body(R) /\ Items(R)' = Items(R)
    OBVIOUS
  <2>1. stage'[S] = stage[S] /\ q = S /\ ItemKind(S)' = ItemKind(S)
    BY <1>3, Ends DEF ItemKind
  <2>2. stage[S] \in {"check_params", "flags"} \/ Items(R)' = Items(R)
    <3>1. CASE stage[S] \in Exchanges
      BY <1>4, <1>9, <2>1, <3>1, Ends DEF Items
    <3> QED
      BY <3>1, Ends DEF IInv, LocalControl, TypeOK, Stages, Exchanges
  <2> QED
    BY <1>2, <2>1, <2>2 DEF Header, Body, HasBody, Exchanges, config
<1>14. ToReceiver' /\ ToSender'
  <2>1. CASE p = S
    BY <1>2, <1>3, <1>8, <2>1, Ends DEF ToReceiver, ToSender
  <2>2. CASE p = R
    <3>1. io'[S] = io[S] /\ io[R] = "none" /\ io'[R] = "recv"
      BY <1>3, <2>2, Ends
    <3>2. CASE io[S] \in {"send", "none", "done"}
      BY <1>2, <3>1, <3>2 DEF IInv, ToReceiver, ToSender
    <3>3. CASE io[S] \in {"send_items", "recv"} /\ Level
      <4>1. Frame(S)' = Frame(S)
        BY <1>12, <2>2, <3>3 DEF Frame
      <4> QED
        BY <1>2, <1>6, <1>12, <2>2, <3>1, <3>3, <4>1, ClockType, Ends
           DEF IInv, ToReceiver, ToSender, Unread, Replied
    <3>4. CASE io[S] \in {"recv", "recv_items"} /\ Ahead(R)
      <4>1. Frame(R)' = Frame(R)
        BY <1>13, <2>2, <3>4 DEF Frame
      <4>2. io[S] = "recv_items" => Body(R)' = Body(R)
        BY <1>13, <2>2, <3>4, Ends DEF IInv, Announced
      <4> QED
        BY <1>2, <1>6, <2>2, <3>1, <3>4, <4>1, <4>2, ClockType, Ends
           DEF IInv, ToReceiver, ToSender, Unread, Replied
    <3> QED
      BY <1>8, <2>2, <3>2, <3>3, <3>4
  <2> QED
    BY <2>1, <2>2, Ends
<1>15. \A r \in Party : Announced(r)'
  <2>1. CASE p = S
    BY <1>3, <1>8, <2>1, Ends DEF Announced
  <2>2. CASE p = R
    <3>1. io'[S] = io[S] /\ io'[R] = "recv"
      BY <1>3, <2>2, Ends
    <3>2. Announced(S) /\ received_size' = received_size
      BY <1>2, Ends DEF IInv
    <3>3. io[S] = "recv_items" => Ahead(R)
      BY <1>8, <2>2
    <3>4. Announced(S)'
      BY <1>12, <1>13, <2>2, <3>1, <3>2, <3>3, Ends DEF Announced
    <3>5. Announced(R)'
      BY <3>1 DEF Announced
    <3> QED
      BY <3>4, <3>5, Ends
  <2> QED
    BY <2>1, <2>2, Ends
<1>16. ResultCorrect'
  <2>1. ASSUME NEW r \in Party, NEW n \in DOMAIN results[r]
        PROVE  /\ n \in DOMAIN calls[r] /\ n \in DOMAIN calls[Peer(r)]
               /\ n \in DOMAIN calls'[r] /\ n \in DOMAIN calls'[Peer(r)]
               /\ calls'[r][n] = calls[r][n] /\ calls'[Peer(r)][n] = calls[Peer(r)][n]
    <3>1. n \in DOMAIN calls[r] /\ n \in DOMAIN calls[Peer(r)]
      BY DEF IInv, ResultCorrect
    <3>2. n \in 1..Number(r) /\ n \in 1..Number(Peer(r))
      BY ZenonT(60), <3>1, Parties2, LenProperties DEF IInv, TypeOK, Number
    <3> QED
      BY <1>1, <1>2, <3>1, <3>2, CallsKept, Parties2
  <2>2. \A r \in Party : \A n \in DOMAIN results[r] : Common(r, n)' = Common(r, n)
    BY <2>1 DEF Common
  <2> QED
    BY <1>2, <2>1, <2>2 DEF IInv, ResultCorrect, config
<1> QED
  BY <1>7, <1>10, <1>11, <1>14, <1>15, <1>16 DEF IInv

-----------------------------------------------------------------------------
(* What a finished call returns.                                           *)

\* A key returned to its owner is the key under both secrets, at the position
\* the owner's shuffle moved it to.
LEMMA ReturnsElement ==
    ASSUME IInv, NEW q \in Party, NEW n \in 1..Number(q)
    PROVE  LET call == calls[q][n] IN
           /\ Len(call.keys) \in Nat /\ DOMAIN call.keys = 1..Len(call.keys)
           /\ call.permutation \in Shuffles(Len(call.keys))
           /\ DOMAIN call.permutation = 1..Len(call.keys)
           /\ DOMAIN Returns(q, n) = 1..Len(call.keys)
           /\ \A i \in 1..Len(call.keys) :
                 /\ call.permutation[i] \in 1..Len(call.keys)
                 /\ Returns(q, n)[i] = [key |-> call.keys[call.permutation[i]],
                                        by |-> Party]
<1> DEFINE call == calls[q][n]
           keys == call.keys
           perm == call.permutation
           len == Len(keys)
<1>1. call \in Call
  BY ElementOfSeq DEF IInv, TypeOK, Number
<1> HIDE DEF call
<1>2. /\ len \in Nat /\ DOMAIN keys = 1..len /\ perm \in Shuffles(len)
      /\ keys \in [1..len -> Keys] /\ DOMAIN perm = 1..len
  BY <1>1, CallType, LenProperties
<1> HIDE DEF keys, perm, len
<1>3. \A i \in 1..len : perm[i] \in 1..len /\ Permute(perm, keys)[i] = keys[perm[i]]
  BY <1>2 DEF Shuffles, Bijection, Injection, Permute
<1>4. DOMAIN Permute(perm, keys) = 1..len
  BY <1>2 DEF Permute
<1>5. OwnPoints(q, n) = EncryptKeys(q, Permute(perm, keys))
  BY DEF OwnPoints, perm, keys, call
<1>6. {q} \cup {Peer(q)} = Party
  BY Parties2
<1>7. /\ DOMAIN OwnPoints(q, n) = 1..len
      /\ \A i \in 1..len : OwnPoints(q, n)[i] = [key |-> keys[perm[i]], by |-> {q}]
  BY <1>3, <1>4, <1>5 DEF EncryptKeys
<1>8. ASSUME NEW i \in 1..len
      PROVE  Returns(q, n)[i] = [key |-> keys[perm[i]], by |-> Party]
  <2>1. Returns(q, n)[i] = [OwnPoints(q, n)[i] EXCEPT !.by = @ \cup {Peer(q)}]
    BY <1>7 DEF Returns, DoublelyEncryptKeys
  <2>2. OwnPoints(q, n)[i] = [key |-> keys[perm[i]], by |-> {q}]
    BY <1>7
  <2>3. Returns(q, n)[i] = [key |-> keys[perm[i]], by |-> {q} \cup {Peer(q)}]
    BY <2>1, <2>2
  <2> QED
    BY <1>6, <2>3
<1>9. DOMAIN Returns(q, n) = 1..len
  BY <1>7 DEF Returns, DoublelyEncryptKeys
<1> QED
  BY <1>2, <1>3, <1>8, <1>9 DEF keys, perm, len, call

\* A key of one party is among the other's doubly encrypted keys exactly if
\* the other holds it.
LEMMA InReturns ==
    ASSUME IInv, NEW q \in Party, NEW n \in 1..Number(q), NEW k
    PROVE  [key |-> k, by |-> Party] \in Range(Returns(q, n))
              <=> \E j \in DOMAIN calls[q][n].keys : calls[q][n].keys[j] = k
<1> DEFINE keys == calls[q][n].keys
           perm == calls[q][n].permutation
           len == Len(keys)
<1>1. /\ len \in Nat /\ DOMAIN keys = 1..len /\ perm \in Shuffles(len)
      /\ DOMAIN Returns(q, n) = 1..len
      /\ \A i \in 1..len : /\ perm[i] \in 1..len
                           /\ Returns(q, n)[i] = [key |-> keys[perm[i]], by |-> Party]
  BY ReturnsElement
<1> HIDE DEF keys, perm, len
<1>2. ASSUME [key |-> k, by |-> Party] \in Range(Returns(q, n))
      PROVE  \E j \in DOMAIN keys : keys[j] = k
  BY <1>1, <1>2 DEF Range
<1>3. ASSUME NEW j \in DOMAIN keys, keys[j] = k
      PROVE  [key |-> k, by |-> Party] \in Range(Returns(q, n))
  <2>1. PICK i \in 1..len : perm[i] = j
    BY <1>1 DEF Shuffles, Bijection, Surjection
  <2> QED
    BY <1>1, <1>3, <2>1 DEF Range
<1> QED
  BY <1>2, <1>3 DEF keys

\* Undoing the shuffle puts every returned key at the position of the input.
LEMMA UndoneMatches ==
    ASSUME IInv, NEW p \in Party, NEW n \in 1..Number(p), n \in 1..Number(Peer(p))
    PROVE  Matches(Returns(Peer(p), n),
                   Undo(calls[p][n].permutation, Returns(p, n))) = Common(p, n)
<1> DEFINE keys == calls[p][n].keys
           perm == calls[p][n].permutation
           len == Len(keys)
           undone == Undo(perm, Returns(p, n))
<1>1. /\ len \in Nat /\ DOMAIN keys = 1..len /\ perm \in Shuffles(len)
      /\ DOMAIN perm = 1..len /\ DOMAIN Returns(p, n) = 1..len
      /\ \A i \in 1..len : /\ perm[i] \in 1..len
                           /\ Returns(p, n)[i] = [key |-> keys[perm[i]], by |-> Party]
  BY ReturnsElement
<1>2. DOMAIN undone = 1..len
  BY <1>1 DEF Undo
<1> HIDE DEF keys, perm, len
<1>3. ASSUME NEW j \in 1..len PROVE undone[j] = [key |-> keys[j], by |-> Party]
  <2>1. Undo(perm, Returns(p, n)) = [k \in 1..len |-> Returns(p, n)[Position(perm, k)]]
    BY ZenonT(60), <1>1, UndoAt
  <2>2. Position(perm, j) \in 1..len /\ perm[Position(perm, j)] = j
    BY <1>1, PositionType
  <2> QED
    BY <1>1, <2>1, <2>2
<1>4. ASSUME NEW j \in 1..len
      PROVE  undone[j] \in Range(Returns(Peer(p), n))
                <=> \E i \in DOMAIN calls[Peer(p)][n].keys :
                        calls[Peer(p)][n].keys[i] = keys[j]
  <2>1. \A k : [key |-> k, by |-> Party] \in Range(Returns(Peer(p), n))
              <=> \E i \in DOMAIN calls[Peer(p)][n].keys :
                      calls[Peer(p)][n].keys[i] = k
    <3>1. Peer(p) \in Party
      BY Parties2
    <3> QED
      BY <3>1, InReturns, Z3
  <2> QED
    BY <1>3, <2>1
<1> HIDE DEF undone
<1>5. Matches(Returns(Peer(p), n), undone)
        = {j \in 1..len : \E i \in DOMAIN calls[Peer(p)][n].keys :
                              calls[Peer(p)][n].keys[i] = keys[j]}
  BY <1>2, <1>4 DEF Matches
<1> QED
  BY <1>1, <1>5 DEF Common, keys, perm, undone

\* Shuffling moves the matches, it does not change their number.
LEMMA ShuffledMatches ==
    ASSUME IInv, NEW p \in Party, NEW n \in 1..Number(p), n \in 1..Number(Peer(p))
    PROVE  Cardinality(Matches(Returns(Peer(p), n), Returns(p, n)))
              = Cardinality(Common(p, n))
<1> DEFINE keys == calls[p][n].keys
           perm == calls[p][n].permutation
           len == Len(keys)
           moved == Matches(Returns(Peer(p), n), Returns(p, n))
           common == Common(p, n)
           f == [i \in moved |-> perm[i]]
<1>1. /\ len \in Nat /\ DOMAIN keys = 1..len /\ perm \in Shuffles(len)
      /\ DOMAIN Returns(p, n) = 1..len
      /\ \A i \in 1..len : /\ perm[i] \in 1..len
                           /\ Returns(p, n)[i] = [key |-> keys[perm[i]], by |-> Party]
  BY ReturnsElement
<1> HIDE DEF keys, perm, len
<1>2. moved \in SUBSET (1..len) /\ common \in SUBSET (1..len)
  BY <1>1 DEF Matches, Common, keys
<1>3. ASSUME NEW i \in 1..len PROVE i \in moved <=> perm[i] \in common
  <2>1. Returns(p, n)[i] \in Range(Returns(Peer(p), n))
          <=> \E j \in DOMAIN calls[Peer(p)][n].keys :
                  calls[Peer(p)][n].keys[j] = keys[perm[i]]
    BY <1>1, InReturns, Parties2
  <2>2. i \in moved <=> Returns(p, n)[i] \in Range(Returns(Peer(p), n))
    BY <1>1 DEF Matches
  <2>3. perm[i] \in common <=> \E j \in DOMAIN calls[Peer(p)][n].keys :
                  calls[Peer(p)][n].keys[j] = keys[perm[i]]
    BY <1>1 DEF Common, keys
  <2> QED
    BY <2>1, <2>2, <2>3
<1> HIDE DEF moved, common
<1>4. f \in [moved -> common]
  BY <1>2, <1>3
<1>5. \A i, j \in moved : f[i] = f[j] => i = j
  BY <1>1, <1>2 DEF Shuffles, Bijection, Injection, IsInjective
<1>6. \A j \in common : \E i \in moved : f[i] = j
  <2> TAKE j \in common
  <2>1. PICK i \in 1..len : perm[i] = j
    BY <1>1, <1>2 DEF Shuffles, Bijection, Surjection
  <2>2. i \in moved
    BY <1>3, <2>1
  <2> QED
    BY <2>1, <2>2
<1>7. f \in Bijection(moved, common)
  BY <1>4, <1>5, <1>6 DEF Bijection, Injection, IsInjective, Surjection
<1>8. ExistsBijection(moved, common)
  BY <1>7 DEF ExistsBijection
<1>9. IsFiniteSet(moved)
  BY <1>1, <1>2, PositionsFinite
<1>10. Cardinality(common) = Cardinality(moved)
  BY <1>8, <1>9, FS_Bijection
<1> QED
  BY <1>10 DEF moved, common

-----------------------------------------------------------------------------
\* If one of the two has no key, there is no common key.
LEMMA NothingCommon ==
    ASSUME IInv, NEW p \in Party, NEW n \in 1..Number(p), n \in 1..Number(Peer(p)),
           calls[p][n].keys = <<>> \/ calls[Peer(p)][n].keys = <<>>
    PROVE  Common(p, n) = {} /\ Cardinality(Common(p, n)) = 0
<1>1. Common(p, n) = {}
  BY DEF Common
<1> QED
  BY <1>1, FS_EmptySet

\* A call returns what ResultCorrect asks for.
LEMMA OutcomeCorrect ==
    ASSUME IInv, NEW p \in Party, stage[p] = "exchange_doubled", io[p] = "done"
    PROVE  LET n == Number(p)
               call == calls[p][n]
           IN
           /\ n \in 1..Number(p) /\ n \in 1..Number(Peer(p))
           /\ ~obtain_result[p] => Outcome(p) = Returned(<<>>, 0)
           /\ obtain_result[p] /\ call.only_cardinality =>
                 Outcome(p) = Returned(<<>>, Cardinality(Common(p, n)))
           /\ (/\ obtain_result[p] /\ ~call.only_cardinality
               /\ calls[Peer(p)][n].keys # <<>>) =>
                 Outcome(p) = Returned(Pick(call.keys, Common(p, n)), 0)
<1> DEFINE q == Peer(p)
           n == Number(p)
           call == calls[p][n]
           mine == Returns(p, n)
           theirs == Returns(q, n)
           self == Undo(call.permutation, mine)
<1>1. /\ q \in Party /\ Peer(q) = p
      /\ n \in Nat /\ n \in 1..Number(p) /\ n \in 1..Number(q)
  <2>1. n \in Nat /\ n >= 1 /\ Number(q) >= n /\ Number(q) \in Nat
    BY AtDone, CallMatched, ClockType, Parties2 DEF Exchanges
  <2> QED
    BY <2>1, Parties2
<1>2. exchanged[p] = theirs
  BY DEF IInv, Knows
<1>3. obtain_result[p] => received[p] = mine
  BY <1>1 DEF IInv, Knows, HasRead, ItemsOf, Exchanges
<1>4. Current(p) = call
  BY DEF Current, Number
<1>5. /\ mine \in Seq(Point) /\ Len(mine) = Len(call.keys)
      /\ theirs \in Seq(Point) /\ Len(theirs) = Len(calls[q][n].keys)
  BY <1>1, PointsType
<1>6. call \in Call /\ calls[q][n] \in Call
  BY <1>1, ElementOfSeq DEF IInv, TypeOK, Number
<1>7. call.keys \in Seq(Keys) /\ calls[q][n].keys \in Seq(Keys)
  BY <1>6, CallType
<1>8. mine = <<>> <=> call.keys = <<>>
  BY <1>5, <1>7, EmptySeq
<1>9. theirs = <<>> <=> calls[q][n].keys = <<>>
  BY <1>5, <1>7, EmptySeq
<1>10. Common(p, n) \in SUBSET (DOMAIN call.keys)
  BY DEF Common
<1>11. obtain_result[p] =>
          CalculateCardinalityOnly(exchanged[p], received[p]) = Cardinality(Common(p, n))
  <2>1. CASE mine = <<>> \/ theirs = <<>>
    BY <1>1, <1>2, <1>3, <1>8, <1>9, <2>1, NothingCommon
       DEF CalculateCardinalityOnly
  <2>2. CASE mine # <<>> /\ theirs # <<>>
    BY <1>1, <1>2, <1>3, <2>2, ShuffledMatches DEF CalculateCardinalityOnly
  <2> QED
    BY <2>1, <2>2
<1>12. ASSUME calls[q][n].keys # <<>>
       PROVE  CalculateIntersection(theirs, self, call.keys, Shuffled(p))
                 = Pick(call.keys, Common(p, n))
  <2>1. CASE call.keys = <<>>
    <3>1. Pick(call.keys, Common(p, n)) \in Seq(Keys)
          /\ Len(Pick(call.keys, Common(p, n))) = 0
      BY <1>1, <1>7, <1>10, <2>1, PickType, NothingCommon
    <3>2. Shuffled(p) \in Seq(Keys) /\ Len(Shuffled(p)) = 0
      BY <1>4, <1>6, <2>1, CallType, EmptySeq DEF Shuffled
    <3>3. Pick(call.keys, Common(p, n)) = <<>> /\ Shuffled(p) = <<>>
      BY <3>1, <3>2, EmptySeq
    <3> QED
      BY <2>1, <3>3 DEF CalculateIntersection
  <2>2. CASE call.keys # <<>>
    <3>1. Len(call.keys) \in Nat /\ Len(call.keys) # 0
      BY <1>7, <2>2, EmptySeq, LenProperties
    <3>2. DOMAIN call.permutation = 1..Len(call.keys)
      BY <1>6, CallType
    <3>3. DOMAIN self = 1..Len(call.keys)
      BY <3>2 DEF Undo
    <3>4. self # <<>>
      <4>1. 1 \in DOMAIN self
        BY <3>1, <3>3
      <4>2. DOMAIN <<>> = {}
        OBVIOUS
      <4> QED
        BY <4>1, <4>2
    <3>5. Matches(theirs, self) = Common(p, n)
      BY <1>1, UndoneMatches
    <3> QED
      BY <1>9, <1>12, <2>2, <3>4, <3>5 DEF CalculateIntersection
  <2> QED
    BY <2>1, <2>2
<1>13. call.only_cardinality \in BOOLEAN /\ obtain_result[p] \in BOOLEAN
  BY <1>6, CallType DEF IInv, TypeOK
<1> HIDE DEF call, mine, theirs
<1>14. ASSUME obtain_result[p], call.only_cardinality
       PROVE  Outcome(p) = Returned(<<>>, Cardinality(Common(p, n)))
  BY <1>4, <1>11, <1>14 DEF Outcome
<1>15. ASSUME obtain_result[p], ~call.only_cardinality, calls[q][n].keys # <<>>
       PROVE  Outcome(p) = Returned(Pick(call.keys, Common(p, n)), 0)
  BY <1>2, <1>3, <1>4, <1>12, <1>15 DEF Outcome
<1>16. ~obtain_result[p] => Outcome(p) = Returned(<<>>, 0)
  BY DEF Outcome
<1> QED
  BY <1>1, <1>14, <1>15, <1>16 DEF call

LEMMA FinishStep ==
    ASSUME IInv, TypeOK', NEW p \in Party, Finish(p)
    PROVE  IInv'
<1> DEFINE q == Peer(p)
           n == Number(p)
<1>1. /\ stage[p] = "exchange_doubled" /\ io[p] = "done" /\ Enter(p, "idle")
      /\ results' = [results EXCEPT ![p] = Append(@, Outcome(p))]
      /\ exchanged' = [exchanged EXCEPT ![p] = <<>>]
      /\ received' = [received EXCEPT ![p] = <<>>]
      /\ UNCHANGED <<config, remote_obtain_result, calls, remote_curve,
                     received_size, chan>>
  BY DEF Finish
<1>2. stage'[p] = "idle" /\ io'[p] = "none" /\ "idle" \in Stages
  BY <1>1 DEF Stages, Enter, Goto, IInv, TypeOK
<1>3. /\ received'[q] = received[q] /\ exchanged'[q] = exchanged[q]
      /\ results'[q] = results[q] /\ results'[p] = Append(results[p], Outcome(p))
  BY SMTT(60), <1>1, Parties2 DEF IInv, TypeOK
<1>4. /\ Number(p)' = n /\ Number(q)' = Number(q) /\ n \in Nat
      /\ n = Len(results[p]) + 1
  BY <1>1, ClockType DEF IInv, LocalControl, Number, Exchanges
<1>5. Outcome(p) \in [keys : Seq(Keys), count : Nat]
  BY <1>1, IInvType, OutcomeType DEF Exchanges
<1>6. /\ results[p] \in Seq([keys : Seq(Keys), count : Nat])
      /\ Len(results'[p]) = n /\ results'[p][n] = Outcome(p)
      /\ \A m \in 1..Len(results[p]) : results'[p][m] = results[p][m]
      /\ DOMAIN results[p] = 1..Len(results[p])
      /\ DOMAIN results'[p] = 1..n
  <2>1. results[p] \in Seq([keys : Seq(Keys), count : Nat])
    BY DEF IInv, TypeOK
  <2> QED
    BY <1>3, <1>4, <1>5, <2>1, AppendProperties, LenProperties
<1>7. Clock(p)' = Clock(p) + 1
  BY <1>1, <1>2, <1>4 DEF Clock
<1>8. LocalControl(p)'
  <2>1. Accepted' /\ Number(p)' = Len(results'[p])
    BY <1>1, <1>4, <1>6 DEF IInv, LocalControl, Exchanges, Accepted, config
  <2> QED
    BY <1>2, <2>1 DEF LocalControl, Exchanges
<1>9. Knows(p)'
  BY <1>1, <1>2 DEF IInv, Knows, HasRead, Exchanges, config
<1>10. ResultCorrect'
  <2> DEFINE Right(r, m, result) ==
               /\ m \in DOMAIN calls[r] /\ m \in DOMAIN calls[Peer(r)]
               /\ ~obtain_result[r] => result = Returned(<<>>, 0)
               /\ obtain_result[r] /\ calls[r][m].only_cardinality =>
                     result = Returned(<<>>, Cardinality(Common(r, m)))
               /\ (/\ obtain_result[r] /\ ~calls[r][m].only_cardinality
                   /\ calls[Peer(r)][m].keys # <<>>) =>
                     result = Returned(Pick(calls[r][m].keys, Common(r, m)), 0)
  <2>1. ResultCorrect <=> \A r \in Party : \A m \in DOMAIN results[r] :
                             Right(r, m, results[r][m])
    BY DEF ResultCorrect
  <2>2. ResultCorrect' <=> \A r \in Party : \A m \in DOMAIN results'[r] :
                              Right(r, m, results'[r][m])
    BY <1>1 DEF ResultCorrect, Common, config
  <2>3. Right(p, n, Outcome(p))
    <3>1. n \in DOMAIN calls[p] /\ n \in DOMAIN calls[q]
      <4>1. n \in 1..Number(p) /\ n \in 1..Number(q)
        BY <1>1, OutcomeCorrect
      <4>2. DOMAIN calls[p] = 1..Number(p) /\ DOMAIN calls[q] = 1..Number(q)
        BY LenProperties, Parties2 DEF IInv, TypeOK, Number
      <4> QED
        BY <4>1, <4>2
    <3> QED
      BY <1>1, <3>1, OutcomeCorrect
  <2> HIDE DEF Right
  <2>4. \A m \in DOMAIN results'[q] : Right(q, m, results'[q][m])
    BY <1>3, <2>1, Parties2 DEF IInv
  <2>5. ASSUME NEW m \in 1..n PROVE Right(p, m, results'[p][m])
    <3>1. CASE m = n
      BY <1>6, <2>3, <3>1
    <3>2. CASE m # n
      <4>1. m \in 1..Len(results[p])
        BY <1>4, <3>2
      <4> QED
        BY <1>6, <2>1, <4>1 DEF IInv
    <3> QED
      BY <3>1, <3>2
  <2> QED
    BY <1>6, <2>2, <2>4, <2>5, Parties2
<1> QED
  BY <1>1, <1>2, <1>3, <1>7, <1>8, <1>9, <1>10, Advance

-----------------------------------------------------------------------------
(* The invariant holds in every reachable state.                           *)

LEMMA IInvInit == Init => IInv
<1> SUFFICES ASSUME Init PROVE IInv
  OBVIOUS
<1>1. TypeOK
  BY TypeInvInit DEF TypeInv
<1>2. \A p \in Party : /\ stage[p] = "check_params" /\ io[p] = First(p)
                       /\ calls[p] = <<>> /\ results[p] = <<>> /\ chan[p] = <<>>
  BY DEF Init
<1>3. Len(<<>>) = 0
  BY EmptySeq
<1>4. \A p \in Party : LocalControl(p)
  <2>1. \A p \in Party : First(p) \notin {"none", "send_items", "recv_items"}
    BY Ends
  <2>2. \A p \in Party : Number(p) = 0 /\ Len(results[p]) = 0
    BY <1>2, <1>3 DEF Number
  <2>3. ASSUME NEW p \in Party PROVE LocalControl(p)
    <3>1. /\ stage[p] = "check_params" /\ calls[p] = <<>>
          /\ io[p] \notin {"none", "send_items", "recv_items"}
      BY <1>2, <2>1
    <3>2. Number(p) = Len(results[p]) + (IF stage[p] \in Exchanges THEN 1 ELSE 0)
      BY <2>2, <3>1 DEF Exchanges
    <3> QED
      BY <3>1, <3>2 DEF LocalControl, Exchanges
  <2> QED
    BY <2>3
<1>5. Level /\ Lockstep /\ Unread /\ ~Replied
  BY <1>2, Ends DEF Level, Clock, Lockstep, Unread, Replied, Ahead
<1>6. ToReceiver /\ ToSender
  BY <1>2, <1>5, Ends DEF ToReceiver, ToSender
<1>7. \A p \in Party : Announced(p) /\ Knows(p)
  BY <1>2, Ends DEF Announced, Knows, HasRead, Exchanges
<1>8. ResultCorrect
  <2>1. DOMAIN <<>> = {}
    OBVIOUS
  <2> QED
    BY <1>2, <2>1 DEF ResultCorrect
<1> QED
  BY <1>1, <1>4, <1>5, <1>6, <1>7, <1>8 DEF IInv

LEMMA IInvStep == IInv /\ [Next]_vars => IInv'
<1> SUFFICES ASSUME IInv, [Next]_vars PROVE IInv'
  OBVIOUS
<1>1. TypeOK'
  BY IInvType, TypeInvStep DEF TypeInv
<1>2. CASE UNCHANGED vars
  <2>1. UNCHANGED <<config, calls, results, stage>>
    BY <1>2 DEF vars
  <2>2. ResultCorrect'
    BY <2>1, ResultsKept DEF IInv
  <2>3. ASSUME NEW p \in Party PROVE LocalControl(p)' /\ Announced(p)' /\ Knows(p)'
    <3>1. LocalControl(p)'
      BY <1>2, <2>1, IOStep DEF vars, IInv, LocalControl
    <3>2. Announced(p)'
      BY <1>2, <2>1, IOFrames, Parties2 DEF vars, IInv, Announced
    <3>3. Knows(p)'
      BY <1>2, <2>1, KnowsKept DEF vars, HasRead
    <3> QED
      BY <3>1, <3>2, <3>3
  <2>4. Lockstep' /\ ToReceiver' /\ ToSender'
    BY <1>2, <2>1, IOStep, IOFrames, Ends
       DEF vars, IInv, Lockstep, ToReceiver, ToSender, Unread, Replied
  <2> QED
    BY <1>1, <2>2, <2>3, <2>4 DEF IInv
<1>3. ASSUME NEW p \in Party, Process(p) \/ Step(p) PROVE IInv'
  BY <1>1, <1>3, ProcessStep, SendCurveStep, RecvCurveStep, CheckParamsStep,
     SendFlagStep, RecvFlagStep, FinishInitStep, SendSizeStep, SendItemsStep,
     RecvSizeStep, RecvItemsStep, DoublelyEncryptStep, FinishStep DEF Step
<1> QED
  BY <1>2, <1>3 DEF Next

\* The two parties stay in lockstep, whatever they call with and whenever.
THEOREM InLockstep == Spec => []IInv
BY IInvInit, IInvStep, PTL DEF Spec

-----------------------------------------------------------------------------
\* Every call that returns, returns the intersection to the party entitled to
\* it, and nothing to the other.
THEOREM ResultsCorrect == Spec => []ResultCorrect
<1>1. IInv => ResultCorrect
  BY DEF IInv
<1> QED
  BY <1>1, InLockstep, PTL

LEMMA InvWireSync == IInv => WireSync
<1> SUFFICES ASSUME IInv, NEW p \in Party, chan[p] # <<>>
             PROVE  /\ io[p] \notin {"send", "send_items"}
                    /\ io[p] \in {"recv", "recv_items"} =>
                          Head(chan[p]).kind = Expected(p)
                    /\ io[p] = "recv_items" =>
                          Len(Head(chan[p]).items) = received_size[p]
  BY DEF WireSync
<1>1. io[p] \notin {"send", "send_items"}
  <2>1. io[S] \in {"send", "send_items"} => chan[S] = <<>>
    BY DEF IInv, ToSender
  <2>2. io[R] = "send_items" => io[S] \in {"recv", "recv_items"} /\ Level
    BY Ends DEF IInv, Lockstep
  <2>3. io[R] \in {"send", "send_items"} => chan[R] = <<>>
    BY <2>2, ReceiverSends, ClockType DEF IInv, ToReceiver, Unread
  <2> QED
    BY <2>1, <2>3, Ends
<1>2. ASSUME io[p] = "recv" PROVE Head(chan[p]).kind = Expected(p)
  <2>1. Head(chan[p]) = Header(Peer(p)) /\ stage[S] = stage[p]
    BY <1>2, PendingHeader
  <2>2. CASE stage[p] = "check_params"
    BY <1>2, <2>1, <2>2 DEF Header, Expected
  <2>3. CASE stage[p] = "flags"
    BY <1>2, <2>1, <2>3 DEF Header, Expected
  <2>4. CASE stage[p] \notin {"check_params", "flags"}
    BY <1>2, <2>1, <2>4 DEF Header, Expected
  <2> QED
    BY <2>2, <2>3, <2>4
<1>3. ASSUME io[p] = "recv_items"
      PROVE  Head(chan[p]).kind = Expected(p)
             /\ Len(Head(chan[p]).items) = received_size[p]
  <2>1. chan[p] = <<Body(Peer(p))>> /\ stage[S] = stage[p]
    BY <1>3, ClockType, SameExchange, Ends
       DEF IInv, Lockstep, ToReceiver, ToSender, Unread, Replied
  <2>2. Head(chan[p]) = Body(Peer(p))
    BY <2>1, Tuples
  <2>3. received_size[p] = Len(Items(Peer(p)))
    BY <1>3 DEF IInv, Announced
  <2> QED
    BY <1>3, <2>1, <2>2, <2>3 DEF Body, Expected, ItemKind
<1> QED
  BY <1>1, <1>2, <1>3

\* Every recv_data asks for the message that is next, with the length it has.
THEOREM WireInSync == Spec => []WireSync
BY InvWireSync, InLockstep, PTL

LEMMA InvNothingUnread == IInv => NothingUnread
<1> SUFFICES ASSUME IInv, \A p \in Party : stage[p] \in {"idle", "threw"},
                    Len(calls["sender"]) = Len(calls["receiver"])
             PROVE  \A p \in Party : chan[p] = <<>>
  BY DEF NothingUnread
<1>1. io[S] = "none" /\ io[R] = "none"
  BY Ends DEF IInv, LocalControl
<1> QED
  BY <1>1, Ends DEF IInv, ToReceiver, ToSender

\* Nothing is left in the network when both have ended the same calls.
THEOREM NothingLeftUnread == Spec => []NothingUnread
BY InvNothingUnread, InLockstep, PTL

LEMMA InvThrowAgreement == IInv => ThrowAgreement
<1> SUFFICES ASSUME IInv, NEW p \in Party, stage[p] = "threw"
             PROVE  stage[Peer(p)] \in {"check_params", "threw"}
  BY DEF ThrowAgreement
<1> QED
  BY Parties2 DEF IInv, LocalControl, TypeOK, Stages

\* init throws on both sides or on neither.
THEOREM ThrowsAgree == Spec => []ThrowAgreement
BY InvThrowAgreement, InLockstep, PTL

\* What a party holds of its peer's items it has read in this exchange.
HeldIsRead ==
    \A p \in Party : received[p] # <<>> => stage[p] \in Exchanges /\ HasRead(p)

LEMMA HeldIsReadStep == IInv /\ HeldIsRead /\ [Next]_vars => HeldIsRead'
<1> SUFFICES ASSUME IInv, HeldIsRead, [Next]_vars PROVE HeldIsRead'
  OBVIOUS
<1>1. TypeOK
  BY DEF IInv
<1>2. CASE UNCHANGED vars
  BY <1>2 DEF vars, HeldIsRead, HasRead
<1>3. ASSUME NEW p \in Party, Process(p) \/ CheckParams(p) \/ FinishInit(p)
      PROVE  HeldIsRead'
  <2>1. stage[p] \notin Exchanges /\ received' = received
    BY <1>3 DEF Process, CheckParams, FinishInit, Exchanges
  <2>2. \A q \in Party \ {p} : stage'[q] = stage[q] /\ io'[q] = io[q]
    BY <1>1, <1>3 DEF Process, CheckParams, FinishInit, Enter, Goto, TypeOK
  <2> QED
    BY <2>1, <2>2 DEF HeldIsRead, HasRead
<1>4. ASSUME NEW p \in Party, DoublelyEncrypt(p) \/ Finish(p) PROVE HeldIsRead'
  <2>1. received' = [received EXCEPT ![p] = <<>>]
    BY <1>4 DEF DoublelyEncrypt, Finish
  <2>2. \A q \in Party \ {p} : stage'[q] = stage[q] /\ io'[q] = io[q]
    BY <1>1, <1>4 DEF DoublelyEncrypt, Finish, Enter, Goto, TypeOK
  <2> QED
    BY <1>1, <2>1, <2>2 DEF HeldIsRead, HasRead, TypeOK
<1>5. ASSUME NEW p \in Party,
             SendCurve(p) \/ SendFlag(p) \/ SendSize(p) \/ SendItems(p)
      PROVE  HeldIsRead'
  <2>1. /\ stage' = stage /\ received' = received
        /\ io[p] \in {"send", "send_items"}
        /\ \E position \in {"send_items", AfterSend(p)} : Goto(p, position)
    BY <1>5 DEF SendCurve, SendFlag, SendSize, SendItems
  <2>2. HasRead(p) => HasRead(p)'
    BY <1>1, <2>1, Ends DEF HasRead, Goto, TypeOK
  <2>3. \A q \in Party \ {p} : io'[q] = io[q]
    BY <1>1, <2>1 DEF Goto, TypeOK
  <2> QED
    BY <2>1, <2>2, <2>3 DEF HeldIsRead, HasRead
<1>6. ASSUME NEW p \in Party, RecvCurve(p) \/ RecvFlag(p) PROVE HeldIsRead'
  <2>1. /\ stage' = stage /\ received' = received /\ Goto(p, AfterRecv(p))
        /\ stage[p] \notin Exchanges
    BY <1>6 DEF RecvCurve, RecvFlag, Exchanges
  <2>2. \A q \in Party \ {p} : io'[q] = io[q]
    BY <1>1, <2>1 DEF Goto, TypeOK
  <2> QED
    BY <2>1, <2>2 DEF HeldIsRead, HasRead
<1>7. ASSUME NEW p \in Party, RecvSize(p) PROVE HeldIsRead'
  <2>1. /\ stage' = stage /\ received' = [received EXCEPT ![p] = <<>>]
        /\ \A q \in Party \ {p} : io'[q] = io[q]
    BY <1>1, <1>7 DEF RecvSize, Goto, TypeOK
  <2> QED
    BY <1>1, <2>1 DEF HeldIsRead, HasRead, TypeOK
<1>8. ASSUME NEW p \in Party, RecvItems(p) PROVE HeldIsRead'
  <2>1. /\ stage' = stage /\ io[p] = "recv_items" /\ io'[p] = AfterRecv(p)
        /\ \A q \in Party \ {p} : io'[q] = io[q] /\ received'[q] = received[q]
    BY <1>1, <1>8 DEF RecvItems, Goto, TypeOK
  <2>2. stage[p] \in Exchanges
    BY <2>1 DEF IInv, LocalControl
  <2>3. HasRead(p)'
    BY <2>1, Ends DEF HasRead
  <2> QED
    BY <2>1, <2>2, <2>3 DEF HeldIsRead, HasRead
<1> QED
  BY <1>2, <1>3, <1>4, <1>5, <1>6, <1>7, <1>8 DEF Next, Step

\* What is on its way to a party is of its peer's frame, and those of the
\* second exchange have items only for a party that obtains the result.
LEMMA OnTheWay ==
    ASSUME IInv, NEW p \in Party, NEW i \in DOMAIN chan[p],
           chan[p][i].kind = "digests", ~obtain_result[p]
    PROVE  chan[p][i].items = <<>>
<1> DEFINE q == Peer(p)
<1>1. chan[p] \in {<<>>, <<Header(q)>>, <<Body(q)>>, <<Header(q), Body(q)>>}
  <2>1. chan[S] \in {<<>>, <<Header(R)>>, <<Body(R)>>, <<Header(R), Body(R)>>}
    BY DEF IInv, ToSender, Frame
  <2>2. chan[R] \in {<<>>, <<Header(S)>>, <<Body(S)>>, <<Header(S), Body(S)>>}
    BY DEF IInv, ToReceiver, Frame
  <2> QED
    BY <2>1, <2>2, Ends
<1>2. chan[p][i] \in {Header(q), Body(q)}
  <2> HIDE DEF q
  <2> QED
    BY <1>1
<1>3. Header(q).kind \in {"curve", "flag", "size"}
  <2>1. CASE stage[S] = "check_params"
    BY <2>1 DEF Header
  <2>2. CASE stage[S] = "flags"
    BY <2>2 DEF Header
  <2>3. CASE stage[S] \notin {"check_params", "flags"}
    BY <2>3 DEF Header
  <2> QED
    BY <2>1, <2>2, <2>3
<1>4. chan[p][i] = Body(q)
  BY <1>2, <1>3
<1>5. ItemKind(S) = "digests" /\ chan[p][i].items = Items(q)
  BY <1>4 DEF Body
<1>6. stage[S] # "exchange_keys" /\ Peer(q) = p
  BY <1>5, Parties2 DEF ItemKind
<1> QED
  BY <1>5, <1>6 DEF Items, ItemsOf

LEMMA InvOnlyEntitled == IInv /\ HeldIsRead => OnlyEntitledReceive
<1> SUFFICES ASSUME IInv, HeldIsRead, NEW p \in Party, ~obtain_result[p],
                    stage[p] = "exchange_doubled", received[p] # <<>>
             PROVE  FALSE
  BY OnTheWay DEF OnlyEntitledReceive
<1>1. received[p] = ItemsOf(Peer(p), stage[p], Number(p))
  BY DEF IInv, Knows, HeldIsRead
<1> QED
  BY <1>1, Parties2 DEF ItemsOf

\* A party that is not to obtain the result is never sent, and never holds,
\* what it would need to compute it.
THEOREM OnlyEntitled == Spec => []OnlyEntitledReceive
<1>1. Init => HeldIsRead
  BY DEF Init, HeldIsRead
<1>2. IInv /\ IInv' /\ HeldIsRead /\ [Next]_vars => HeldIsRead'
  BY HeldIsReadStep
<1> QED
  BY <1>1, <1>2, InvOnlyEntitled, InLockstep, PTL DEF Spec
-----------------------------------------------------------------------------
(* The protocol implements what psi/psi.h promises.                        *)

\* The hypothesis of what follows: no input is empty (see ecdh_empty_peer).
NoneEmpty == <<>> \notin Inputs

\* What the caller passed, without the shuffle.
Passed(call) ==
    [keys |-> call.keys, only_cardinality |-> call.only_cardinality]

\* The refinement mapping of Ideal.
AgreedBar == curve_id["sender"] = curve_id["receiver"]
               /\ curve_id["sender"] = SupportedCurve
StatusBar == [p \in Party |->
                 CASE stage[p] \in {"check_params", "flags"} -> "init"
                   [] stage[p] = "threw" -> "threw"
                   [] OTHER -> "open"]
CallsBar == [p \in Party |-> [n \in DOMAIN calls[p] |->
                 [keys |-> calls[p][n].keys,
                  only_cardinality |-> calls[p][n].only_cardinality]]]

LEMMA IdealVars ==
    Ideal!vars = <<AgreedBar, obtain_result, StatusBar, CallsBar, results>>
BY DEF Ideal!vars, AgreedBar, StatusBar, CallsBar

LEMMA IdealInit == Init => Ideal!Init
<1> SUFFICES ASSUME Init PROVE Ideal!Init
  OBVIOUS
<1>1. AgreedBar \in BOOLEAN
  BY DEF AgreedBar
<1>2. StatusBar = [p \in Party |-> "init"]
  BY DEF StatusBar, Init
<1>3. CallsBar = [p \in Party |-> <<>>]
  BY DEF CallsBar, Init
<1>4. obtain_result \in [Party -> BOOLEAN] /\ results = [p \in Party |-> <<>>]
  BY DEF Init
<1> QED
  BY <1>1, <1>2, <1>3, <1>4, Zenon DEF Ideal!Init, Ideal!Party, Party, AgreedBar, StatusBar, CallsBar

\* A step that changes no configuration, call, result or status.
LEMMA Stutters ==
    ASSUME UNCHANGED <<config, calls, results>>,
           StatusBar' = StatusBar
    PROVE  UNCHANGED Ideal!vars
<1>1. AgreedBar' = AgreedBar /\ CallsBar' = CallsBar
  BY DEF config, AgreedBar, CallsBar
<1> QED
  BY <1>1, IdealVars DEF config, AgreedBar, StatusBar, CallsBar, Ideal!vars

\* init opens the session or throws, as the two curves say.
LEMMA OpenStep ==
    ASSUME IInv, NEW p \in Party, CheckParams(p) \/ FinishInit(p)
    PROVE  Ideal!Open(p) \/ UNCHANGED Ideal!vars
<1>1. /\ UNCHANGED <<config, calls, results>>
      /\ stage[p] \in {"check_params", "flags"}
      /\ stage \in [Party -> Stages]
  BY DEF CheckParams, FinishInit, IInv, TypeOK
<1>2. CASE CheckParams(p) /\ CurveAccepted(p)
  <2>1. stage' = [stage EXCEPT ![p] = "flags"] /\ stage[p] = "check_params"
    BY <1>2 DEF CheckParams, Enter
  <2>2. StatusBar' = StatusBar
    BY <1>1, <2>1 DEF StatusBar
  <2> QED
    BY <1>1, <2>2, Stutters
<1>3. CASE CheckParams(p) /\ ~CurveAccepted(p)
  <2>1. stage' = [stage EXCEPT ![p] = "threw"] /\ stage[p] = "check_params"
    BY <1>3 DEF CheckParams, Enter
  <2>2. ~AgreedBar
    BY <1>3, <2>1, Ends DEF AgreedBar, CheckParams, CurveAccepted, IInv, Knows, HasRead
  <2>3. StatusBar' = [StatusBar EXCEPT ![p] = "threw"] /\ StatusBar[p] = "init"
    BY <1>1, <2>1 DEF StatusBar
  <2>4. AgreedBar' = AgreedBar /\ CallsBar' = CallsBar /\ results' = results
        /\ obtain_result' = obtain_result
    BY <1>1 DEF config, AgreedBar, CallsBar
  <2> QED
    BY <2>2, <2>3, <2>4 DEF Ideal!Open, AgreedBar, StatusBar, CallsBar
<1>4. CASE FinishInit(p)
  <2>1. stage' = [stage EXCEPT ![p] = "idle"] /\ stage[p] = "flags"
    BY <1>4 DEF FinishInit, Enter
  <2>2. AgreedBar
    BY <2>1, Ends DEF AgreedBar, IInv, LocalControl, Accepted
  <2>3. StatusBar' = [StatusBar EXCEPT ![p] = "open"] /\ StatusBar[p] = "init"
    BY <1>1, <2>1 DEF StatusBar
  <2>4. AgreedBar' = AgreedBar /\ CallsBar' = CallsBar /\ results' = results
        /\ obtain_result' = obtain_result
    BY <1>1 DEF config, AgreedBar, CallsBar
  <2> QED
    BY <2>2, <2>3, <2>4 DEF Ideal!Open, AgreedBar, StatusBar, CallsBar
<1> QED
  BY <1>2, <1>3, <1>4

\* A call of the caller's.
LEMMA InvokeStep ==
    ASSUME IInv, NEW p \in Party, Process(p)
    PROVE  Ideal!Invoke(p)
<1>0. PICK keys \in Inputs, only \in BOOLEAN :
        \E permutation \in Shuffles(Len(keys)) :
          calls' = [calls EXCEPT ![p] = Append(@,
                      [keys |-> keys, permutation |-> permutation,
                       only_cardinality |-> only])]
  BY DEF Process
<1>1. PICK permutation \in Shuffles(Len(keys)) :
        calls' = [calls EXCEPT ![p] = Append(@,
                    [keys |-> keys, permutation |-> permutation,
                     only_cardinality |-> only])]
  BY <1>0
<1>2. /\ stage[p] = "idle" /\ Len(calls[p]) < MaxCalls
      /\ stage' = [stage EXCEPT ![p] = "exchange_keys"]
      /\ results' = results /\ UNCHANGED config
  BY DEF Process, Enter
<1>3. /\ stage \in [Party -> Stages] /\ calls \in [Party -> Seq(Call)]
      /\ calls[p] \in Seq(Call)
  BY DEF IInv, TypeOK
<1> DEFINE call == [keys |-> keys, permutation |-> permutation,
                    only_cardinality |-> only]
           passed == [keys |-> keys, only_cardinality |-> only]
<1>4. call \in Call /\ Append(calls[p], call) \in Seq(Call)
      /\ calls'[p] = Append(calls[p], call) /\ \A q \in Party \ {p} : calls'[q] = calls[q]
  <2>1. call \in Call
    BY DEF Call
  <2> QED
    BY <1>1, <1>3, <2>1, AppendProperties
<1>5. CallsBar' = [CallsBar EXCEPT ![p] = Append(@, passed)]
  <2> DEFINE pass == [c \in Call |-> Passed(c)]
  <2>1. [n \in DOMAIN Append(calls[p], call) |-> pass[Append(calls[p], call)[n]]]
           = Append([n \in DOMAIN calls[p] |-> pass[calls[p][n]]], pass[call])
    <3>1. pass \in [Call -> [keys : Inputs, only_cardinality : BOOLEAN]]
      BY CallType DEF Passed
    <3> QED
      BY <1>3, <1>4, <3>1, MapAppend
  <2>2. pass[call] = passed
    BY <1>4 DEF Passed
  <2>3. \A s \in Seq(Call) : [n \in DOMAIN s |-> pass[s[n]]]
                              = [n \in DOMAIN s |-> [keys |-> s[n].keys,
                                        only_cardinality |-> s[n].only_cardinality]]
    BY SMTT(60), ElementOfSeq DEF Passed
  <2>4. CallsBar'[p] = Append(CallsBar[p], passed)
    <3>1. CallsBar[p] = [n \in DOMAIN calls[p] |-> pass[calls[p][n]]]
      BY <1>3, <2>3 DEF CallsBar
    <3>2. CallsBar'[p] = [n \in DOMAIN calls'[p] |-> pass[calls'[p][n]]]
      BY <1>4, <2>3 DEF CallsBar
    <3> QED
      BY <1>4, <2>1, <2>2, <3>1, <3>2
  <2>5. \A q \in Party \ {p} : CallsBar'[q] = CallsBar[q]
    BY <1>4 DEF CallsBar
  <2>6. CallsBar' = [q \in Party |-> CallsBar'[q]] /\ DOMAIN CallsBar = Party
    BY DEF CallsBar
  <2> QED
    BY <2>4, <2>5, <2>6
<1>6. StatusBar' = StatusBar /\ StatusBar[p] = "open"
  BY <1>2, <1>3 DEF StatusBar
<1>7. Len(CallsBar[p]) = Len(calls[p]) /\ Len(calls[p]) = Len(results[p])
  <2>1. Len(calls[p]) = Len(results[p])
    <3>1. Len(results[p]) \in Nat
      BY LenProperties DEF IInv, TypeOK
    <3>2. Len(calls[p]) = Len(results[p]) + (IF stage[p] \in Exchanges THEN 1 ELSE 0)
      BY DEF IInv, LocalControl, Number
    <3> QED
      BY <1>2, <3>1, <3>2 DEF Exchanges
  <2>2. DOMAIN CallsBar[p] = 1..Len(calls[p]) /\ Len(calls[p]) \in Nat
    BY <1>3, LenProperties DEF CallsBar
  <2> QED
    BY <2>1, <2>2
<1>8. passed \in Ideal!Call
  BY DEF Ideal!Call
<1>9. AgreedBar' = AgreedBar /\ obtain_result' = obtain_result
  BY <1>2 DEF AgreedBar, config
<1> HIDE DEF passed
<1>10. /\ StatusBar[p] = "open" /\ Len(CallsBar[p]) = Len(results[p])
       /\ Len(CallsBar[p]) < MaxCalls
       /\ \E c \in Ideal!Call : CallsBar' = [CallsBar EXCEPT ![p] = Append(@, c)]
       /\ UNCHANGED <<AgreedBar, obtain_result, StatusBar, results>>
  BY <1>2, <1>5, <1>6, <1>7, <1>8, <1>9
<1> QED
  BY <1>10 DEF Ideal!Invoke, AgreedBar, StatusBar, CallsBar

\* What a call returns is what psi.h lets it return.
LEMMA OutcomeIdeal ==
    ASSUME IInv, NoneEmpty, NEW p \in Party,
           stage[p] = "exchange_doubled", io[p] = "done"
    PROVE  LET n == Number(p) IN
           /\ n \in DOMAIN calls[p] /\ n \in DOMAIN calls[Peer(p)]
           /\ Outcome(p) \in Ideal!Outcomes(CallsBar[p][n], CallsBar[Peer(p)][n],
                                            obtain_result[p])
<1> DEFINE n == Number(p)
           q == Peer(p)
           call == calls[p][n]
           I == Common(p, n)
<1>1. n \in 1..Number(p) /\ n \in 1..Number(q) /\ q \in Party
  BY OutcomeCorrect, Parties2
<1>2. DOMAIN calls[p] = 1..Number(p) /\ DOMAIN calls[q] = 1..Number(q)
  BY LenProperties, Parties2 DEF IInv, TypeOK, Number
<1>3. call \in Call /\ calls[q][n] \in Call
  BY <1>1, <1>2, ElementOfSeq DEF IInv, TypeOK, Number
<1>4. /\ call.keys \in Seq(Keys) /\ calls[q][n].keys # <<>>
      /\ call.only_cardinality \in BOOLEAN
  BY <1>3, CallType DEF NoneEmpty
<1>5. /\ CallsBar[p][n].keys = call.keys
      /\ CallsBar[p][n].only_cardinality = call.only_cardinality
      /\ CallsBar[q][n].keys = calls[q][n].keys
  BY <1>1, <1>2 DEF CallsBar
<1>6. Ideal!Common(call.keys, calls[q][n].keys) = I
  BY DEF Ideal!Common, Ideal!Range, Common
<1>7. I \in SUBSET (1..Len(call.keys)) /\ Len(call.keys) \in Nat
  BY <1>4, LenProperties DEF Common
<1>8. \E pick \in Bijection(1..Cardinality(I), I) :
         Pick(call.keys, I) = [j \in 1..Cardinality(I) |-> call.keys[pick[j]]]
  <2> DEFINE pick == [i \in 1..Cardinality(I) |-> Nth(I, i)]
  <2>1. pick \in Bijection(1..Cardinality(I), I)
    BY <1>7, NthBijection
  <2>2. Pick(call.keys, I) = [j \in 1..Cardinality(I) |-> call.keys[pick[j]]]
    BY DEF Pick
  <2> QED
    BY <2>1, <2>2
<1>9. /\ ~obtain_result[p] => Outcome(p) = Returned(<<>>, 0)
      /\ obtain_result[p] /\ call.only_cardinality =>
            Outcome(p) = Returned(<<>>, Cardinality(I))
      /\ obtain_result[p] /\ ~call.only_cardinality =>
            Outcome(p) = Returned(Pick(call.keys, I), 0)
  BY <1>4, OutcomeCorrect
<1>10. obtain_result[p] \in BOOLEAN
  BY DEF IInv, TypeOK
<1> HIDE DEF n, q, call, I
<1> DEFINE keys == CallsBar[p][n].keys
           only == CallsBar[p][n].only_cardinality
           J == Ideal!Common(keys, CallsBar[q][n].keys)
<1>12. keys = call.keys /\ only = call.only_cardinality /\ J = I
  BY <1>5, <1>6
<1>13. \E pick \in Ideal!Bijection(1..Cardinality(I), I) :
         Pick(call.keys, I) = [j \in 1..Cardinality(I) |-> call.keys[pick[j]]]
  BY <1>8 DEF Ideal!Bijection, Bijection, Ideal!Injection, Injection,
              Ideal!Surjection, Surjection, Ideal!IsInjective, IsInjective
<1>14. Ideal!Outcomes(CallsBar[p][n], CallsBar[q][n], obtain_result[p])
        = IF ~obtain_result[p] THEN {Returned(<<>>, 0)}
          ELSE IF only THEN {Returned(<<>>, Cardinality(J))}
          ELSE {Returned([j \in 1..Cardinality(J) |-> keys[pick[j]]], 0) :
                   pick \in Ideal!Bijection(1..Cardinality(J), J)}
  BY Zenon DEF Ideal!Outcomes, Ideal!Returned, Returned, Ideal!Cardinality, Cardinality
<1> HIDE DEF keys, only, J
<1>15. Outcome(p) \in Ideal!Outcomes(CallsBar[p][n], CallsBar[q][n], obtain_result[p])
  <2>1. CASE ~obtain_result[p]
    BY <1>9, <1>14, <2>1
  <2>2. CASE obtain_result[p] /\ call.only_cardinality
    BY <1>9, <1>12, <1>14, <2>2
  <2>3. CASE obtain_result[p] /\ ~call.only_cardinality
    <3>1. PICK pick \in Ideal!Bijection(1..Cardinality(J), J) :
            Pick(call.keys, I) = [j \in 1..Cardinality(J) |-> keys[pick[j]]]
      BY <1>12, <1>13
    <3>2. Outcome(p) = Returned([j \in 1..Cardinality(J) |-> keys[pick[j]]], 0)
      BY <1>9, <2>3, <3>1
    <3> QED
      BY ZenonT(60), <1>12, <1>14, <2>3, <3>2
  <2> QED
    BY <2>1, <2>2, <2>3
<1> QED
  BY <1>1, <1>2, <1>15 DEF n, q

\* A call returns.
LEMMA ReturnStep ==
    ASSUME IInv, NoneEmpty, NEW p \in Party, Finish(p)
    PROVE  Ideal!Return(p)
<1> DEFINE n == Number(p)
           q == Peer(p)
<1>1. /\ stage[p] = "exchange_doubled" /\ io[p] = "done"
      /\ stage' = [stage EXCEPT ![p] = "idle"]
      /\ results' = [results EXCEPT ![p] = Append(@, Outcome(p))]
      /\ UNCHANGED <<config, calls>>
  BY DEF Finish, Enter
<1>2. /\ n \in DOMAIN calls[p] /\ n \in DOMAIN calls[q]
      /\ Outcome(p) \in Ideal!Outcomes(CallsBar[p][n], CallsBar[q][n], obtain_result[p])
  BY <1>1, OutcomeIdeal
<1>3. n = Len(results[p]) + 1
  BY <1>1 DEF IInv, LocalControl, Number, Exchanges
<1>4. DOMAIN CallsBar[p] = DOMAIN calls[p] /\ DOMAIN CallsBar[q] = DOMAIN calls[q]
  BY Parties2 DEF CallsBar
<1>5. StatusBar' = StatusBar
  BY <1>1 DEF StatusBar, IInv, TypeOK
<1>6. AgreedBar' = AgreedBar /\ CallsBar' = CallsBar /\ obtain_result' = obtain_result
  BY <1>1 DEF config, AgreedBar, CallsBar
<1>7. \A result \in [keys : Seq(Keys), count : Nat] : result # Ideal!Threw
  <2> SUFFICES ASSUME NEW result \in [keys : Seq(Keys), count : Nat]
               PROVE  result # Ideal!Threw
    OBVIOUS
  <2>1. "keys" \in DOMAIN result /\ DOMAIN Ideal!Threw = {"threw"}
    BY DEF Ideal!Threw
  <2> QED
    BY <2>1
<1>8. /\ Outcome(p) # Ideal!Threw
      /\ n \in DOMAIN results[q] => results[q][n] # Ideal!Threw
  <2>1. Outcome(p) \in [keys : Seq(Keys), count : Nat]
    BY <1>1, IInvType, OutcomeType DEF Exchanges
  <2>2. results[q] \in Seq([keys : Seq(Keys), count : Nat])
    BY Parties2 DEF IInv, TypeOK
  <2>3. n \in DOMAIN results[q] =>
           results[q][n] \in [keys : Seq(Keys), count : Nat]
    BY <2>2, ElementOfSeq, LenProperties
  <2> HIDE DEF n, q
  <2> QED
    BY <1>7, <2>1, <2>3
<1> HIDE DEF n, q
<1>9. /\ n \in DOMAIN CallsBar[p] /\ n \in DOMAIN CallsBar[q]
      /\ \E outcome \in Ideal!Outcomes(CallsBar[p][n], CallsBar[q][n], obtain_result[p])
                          \cup (IF FALSE THEN {Ideal!Threw} ELSE {}) :
            /\ n \in DOMAIN results[q] =>
                  (outcome = Ideal!Threw <=> results[q][n] = Ideal!Threw)
            /\ results' = [results EXCEPT ![p] = Append(@, outcome)]
      /\ UNCHANGED <<AgreedBar, obtain_result, StatusBar, CallsBar>>
  BY <1>1, <1>2, <1>4, <1>5, <1>6, <1>8
<1>10. q = Ideal!Peer(p)
  BY DEF q, Peer, Ideal!Peer
<1> QED
  BY <1>3, <1>9, <1>10, ZenonT(60) DEF Ideal!Return, AgreedBar, StatusBar, CallsBar

LEMMA IdealStep ==
    ASSUME IInv, NoneEmpty, [Next]_vars
    PROVE  [Ideal!Next]_(Ideal!vars)
<1>1. CASE UNCHANGED vars
  BY <1>1 DEF vars, config, Ideal!vars
<1>2. ASSUME NEW p \in Party, Process(p) PROVE Ideal!Next
  BY <1>2, InvokeStep DEF Ideal!Next, Ideal!Party, Party
<1>3. ASSUME NEW p \in Party, CheckParams(p) \/ FinishInit(p)
      PROVE  [Ideal!Next]_(Ideal!vars)
  BY <1>3, OpenStep DEF Ideal!Next, Ideal!Party, Party
<1>4. ASSUME NEW p \in Party, Finish(p) PROVE Ideal!Next
  BY <1>4, ReturnStep DEF Ideal!Next, Ideal!Party, Party
<1>5. ASSUME NEW p \in Party, DoublelyEncrypt(p) PROVE UNCHANGED Ideal!vars
  <2>1. UNCHANGED <<config, calls, results>> /\ StatusBar' = StatusBar
    BY <1>5 DEF DoublelyEncrypt, Enter, StatusBar, IInv, TypeOK
  <2> QED
    BY <2>1, Stutters
<1>6. ASSUME NEW p \in Party,
             \/ SendCurve(p) \/ RecvCurve(p) \/ SendFlag(p) \/ RecvFlag(p)
             \/ SendSize(p) \/ SendItems(p) \/ RecvSize(p) \/ RecvItems(p)
      PROVE  UNCHANGED Ideal!vars
  <2>1. UNCHANGED <<config, calls, results, stage>>
    BY <1>6 DEF SendCurve, RecvCurve, SendFlag, RecvFlag, SendSize, SendItems,
                RecvSize, RecvItems
  <2>2. StatusBar' = StatusBar
    BY <2>1 DEF StatusBar
  <2> QED
    BY <2>1, <2>2, Stutters
<1> QED
  BY <1>1, <1>2, <1>3, <1>4, <1>5, <1>6 DEF Next, Step

\* As long as no input is empty a session is one of those psi.h promises, as
\* far as safety goes.
THEOREM ImplementsPSI == NoneEmpty => (Spec => Ideal!Safety)
<1> SUFFICES ASSUME NoneEmpty PROVE Spec => Ideal!Safety
  OBVIOUS
<1>1. IInv /\ [Next]_vars => [Ideal!Next]_(Ideal!vars)
  BY IdealStep
<1> QED
  BY <1>1, IdealInit, InLockstep, PTL DEF Spec, Ideal!Safety
=============================================================================
