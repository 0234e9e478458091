---------------------------- MODULE EcdhPSI_inv ----------------------------
(***************************************************************************)
(* The inductive invariant of EcdhPSI.  The two parties go through the     *)
(* same exchanges, and at any time one is at most one exchange ahead; what *)
(* is in the channels, and what each party has read, follows from where    *)
(* the two are.                                                            *)
(***************************************************************************)
EXTENDS EcdhPSI

S == "sender"
R == "receiver"

Number(p) == Len(calls[p])

\* Exchanges completed by p since init began.  An idle party is where the
\* next call's first exchange will find it.
Clock(p) ==
    CASE stage[p] = "check_params" -> 0
      [] stage[p] \in {"flags", "threw"} -> 1
      [] stage[p] = "exchange_keys" -> 2 * Number(p)
      [] stage[p] = "exchange_doubled" -> 2 * Number(p) + 1
      [] OTHER -> 2 * Number(p) + 2

Level == Clock(S) = Clock(R)
Ahead(p) == Clock(p) = Clock(Peer(p)) + 1

Accepted ==
    curve_id[S] = curve_id[R] /\ curve_id[S] = SupportedCurve

\* Where one party alone can be.
LocalControl(p) ==
    /\ stage[p] \in {"check_params", "flags", "threw"} => calls[p] = <<>>
    /\ io[p] = "none" <=> stage[p] \in {"idle", "threw"}
    /\ io[p] \in {"send_items", "recv_items"} => stage[p] \in Exchanges
    /\ Number(p) = Len(results[p]) + (IF stage[p] \in Exchanges THEN 1 ELSE 0)
    /\ stage[p] \in {"flags", "idle"} \cup Exchanges => Accepted
    /\ stage[p] = "threw" => ~Accepted

\* Where the two can be together.
Lockstep ==
    \/ Level /\ \/ /\ io[S] \in {"send", "none", "send_items", "recv"}
                   /\ io[R] \in {"recv", "none"}
                \/ io[S] \in {"send_items", "recv"} /\ io[R] = "recv_items"
                \/ io[S] = "recv" /\ io[R] \in {"send", "send_items", "done"}
                \/ io[S] = "recv_items" /\ io[R] \in {"send_items", "done"}
                \/ io[S] = "done" /\ io[R] = "done"
    \/ /\ Ahead(R)
       /\ io[S] \in {"recv", "recv_items", "done"} /\ io[R] \in {"recv", "none"}
    \/ /\ Ahead(S)
       /\ io[S] \in {"send", "none", "send_items", "recv"} /\ io[R] = "done"

-----------------------------------------------------------------------------
\* The keys of call n of q, as q sends them and as its peer returns them.
OwnPoints(q, n) ==
    EncryptKeys(q, Permute(calls[q][n].permutation, calls[q][n].keys))

Returns(q, n) == DoublelyEncryptKeys(Peer(q), OwnPoints(q, n))

\* The items q sends in an exchange of call n.
ItemsOf(q, exchange, n) ==
    IF exchange = "exchange_keys" THEN OwnPoints(q, n)
    ELSE IF obtain_result[Peer(q)] THEN Returns(Peer(q), n)
    ELSE <<>>

\* The frame q sends in the exchange the sender is in: a header, and a body if
\* there are items.
Items(q) == ItemsOf(q, stage[S], Number(S))

Header(q) ==
    CASE stage[S] = "check_params" -> [kind |-> "curve", curve |-> curve_id[q]]
      [] stage[S] = "flags" -> [kind |-> "flag", flag |-> obtain_result[q]]
      [] OTHER -> [kind |-> "size", size |-> Len(Items(q))]

Body(q) == [kind |-> ItemKind(S), items |-> Items(q)]

HasBody(q) == stage[S] \in Exchanges /\ Len(Items(q)) # 0

Frame(q) == IF HasBody(q) THEN <<Header(q), Body(q)>> ELSE <<Header(q)>>

\* The receiver has read nothing of the sender's complete frame.
Unread == Ahead(S) \/ (Level /\ io[R] \in {"recv", "none"})

\* The receiver has sent its complete frame.
Replied == Ahead(R) \/ (Level /\ io[R] = "done")

ToReceiver ==
    chan[R] = CASE io[S] = "send_items" /\ io[R] = "recv_items" -> <<>>
                [] io[S] = "send_items" /\ io[R] # "recv_items" -> <<Header(S)>>
                [] io[S] = "recv" /\ io[R] = "recv_items" -> <<Body(S)>>
                [] io[S] = "recv" /\ Unread -> Frame(S)
                [] OTHER -> <<>>

ToSender ==
    chan[S] = CASE io[S] = "recv" /\ io[R] = "send_items" -> <<Header(R)>>
                [] io[S] = "recv" /\ Replied -> Frame(R)
                [] io[S] = "recv_items" /\ Replied -> <<Body(R)>>
                [] OTHER -> <<>>

\* Items that are being sent or read are there, in the number announced.
Announced(p) ==
    /\ io[p] = "send_items" => HasBody(p)
    /\ io[p] = "recv_items" =>
          HasBody(Peer(p)) /\ received_size[p] = Len(Items(Peer(p)))

-----------------------------------------------------------------------------
\* p has read the peer's frame of the exchange it is in.
HasRead(p) == io[p] = "done" \/ (p = R /\ io[p] \in {"send", "send_items"})

\* What p has read, in this exchange and earlier ones.
Knows(p) ==
    LET q == Peer(p) IN
    /\ stage[p] = "check_params" /\ HasRead(p) => remote_curve[p] = curve_id[q]
    /\ (stage[p] \in Exchanges \cup {"idle"} \/ (stage[p] = "flags" /\ HasRead(p)))
          => remote_obtain_result[p] = obtain_result[q]
    /\ stage[p] \in Exchanges /\ HasRead(p) =>
          received[p] = ItemsOf(q, stage[p], Number(p))
    /\ stage[p] = "exchange_doubled" =>
          Number(q) >= Number(p) /\ exchanged[p] = Returns(q, Number(p))

IInv ==
    /\ TypeOK
    /\ \A p \in Party : LocalControl(p)
    /\ Lockstep
    /\ ToReceiver
    /\ ToSender
    /\ \A p \in Party : Announced(p) /\ Knows(p)
    /\ ResultCorrect
=============================================================================
