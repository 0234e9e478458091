----------------------------- MODULE KkrtPSI_inv -----------------------------
(***************************************************************************)
(* The inductive invariant of KkrtPSI.  The messages of a session are      *)
(* numbered, those of init by 1 to 4 and those of the n-th call from 6n    *)
(* on, and where a party is settles which message it will read and write   *)
(* next.  A channel holds the messages from the one its reader waits for   *)
(* to the one its writer is at; what each of them says is a matter of the  *)
(* calls.                                                                  *)
(***************************************************************************)
EXTENDS KkrtPSI

S == "sender"
R == "receiver"

InInit == {"epsilon", "fun_num", "seed", "base_ot"}
InCall == {"sizes", "stash", "ot", "masks", "count", "keys"}

\* The n-th call of the receiver has given up, or has got past the point where
\* it could.
GaveUp(n) == n \in DOMAIN results[R] /\ results[R][n] = Threw

GotThrough(n) ==
    IF n \in DOMAIN results[R] THEN results[R][n] # Threw
    ELSE n = Number(R) /\ stage[R] \in {"ot", "masks", "count", "keys"}

-----------------------------------------------------------------------------
(* Numbers of messages.                                                    *)

HasRead(p) ==
    io[p] = "done" \/ (io[p] = "send" /\ Starts(stage[p], p) = "recv")

HasWritten(p) ==
    io[p] = "done" \/ (io[p] = "recv" /\ Starts(stage[p], p) = "send")

\* The number of the messages of an exchange of init, and of the next one.
InitId(s) ==
    CASE s = "epsilon" -> 1 [] s = "fun_num" -> 2 [] s = "seed" -> 3 [] OTHER -> 4

AfterInitId(s) ==
    CASE s = "epsilon" -> 2 [] s = "fun_num" -> 3 [] s = "seed" -> 4 [] OTHER -> 6

\* Where a session ends that throws in init.
ThrewId == IF epsilon[S] = epsilon[R] THEN 3 ELSE 2

\* The message to the sender that follows the transfers of call n, and the one
\* that follows the count.
AfterOt(n) == IF sender_obtain_result[R] THEN 6 * n + 4 ELSE 6 * n + 6

AfterCount(n) == IF modes[n] THEN 6 * n + 6 ELSE 6 * n + 5

\* The message to the receiver that follows the size.
AfterSize(n) == IF GaveUp(n) THEN 6 * n + 6 ELSE 6 * n + 3

\* The number of the message p reads next.
In(p) ==
    LET n == Number(p) IN
    CASE stage[p] \in InInit ->
            IF HasRead(p) THEN AfterInitId(stage[p]) ELSE InitId(stage[p])
      [] stage[p] = "threw" -> ThrewId
      [] stage[p] = "idle" -> 6 * n + 6
      [] stage[p] = "sizes" -> IF ~HasRead(p) THEN 6 * n
                               ELSE IF p = S THEN 6 * n + 1 ELSE 6 * n + 3
      [] stage[p] = "stash" -> IF p = S THEN 6 * n + 1 ELSE 6 * n + 3
      [] stage[p] = "ot" -> IF p = S THEN 6 * n + 2 ELSE 6 * n + 3
      [] stage[p] = "masks" -> IF p = S THEN AfterOt(n) ELSE 6 * n + 3
      [] stage[p] = "count" -> IF p = S THEN 6 * n + 4 ELSE 6 * n + 6
      [] OTHER -> IF p = S THEN 6 * n + 5 ELSE 6 * n + 6

\* The number of the message p writes next.
Out(p) ==
    LET n == Number(p) IN
    CASE stage[p] \in InInit ->
            IF HasWritten(p) THEN AfterInitId(stage[p]) ELSE InitId(stage[p])
      [] stage[p] = "threw" -> ThrewId
      [] stage[p] = "idle" -> 6 * n + 6
      [] stage[p] = "sizes" -> IF ~HasWritten(p) THEN 6 * n
                               ELSE IF p = S THEN AfterSize(n) ELSE 6 * n + 1
      [] stage[p] = "stash" -> IF p = S THEN AfterSize(n) ELSE 6 * n + 1
      [] stage[p] = "ot" -> IF p = S THEN 6 * n + 3 ELSE 6 * n + 2
      [] stage[p] = "masks" -> IF p = S THEN 6 * n + 3 ELSE AfterOt(n)
      [] stage[p] = "count" -> IF p = S THEN 6 * n + 6 ELSE 6 * n + 4
      [] OTHER -> IF p = S THEN 6 * n + 6 ELSE 6 * n + 5

-----------------------------------------------------------------------------
(* What the messages say.                                                  *)

\* The common stream after n draws.
Stream(n) == [seed |-> {1, 2}, draws |-> n]

Says(m, s, width, value) == m.is = s /\ m.width = width /\ m.value = value

\* m is message x to q, and y is the number of the one behind it.
InitCarries(q, x, m, y) ==
    LET p == Peer(q) IN
    \/ x = 1 /\ y = 2 /\ Says(m, "epsilon", Word, epsilon[p])
    \/ x = 2 /\ y = 3 /\ Says(m, "fun_num", Word, num_of_fun[p])
    \/ x = 3 /\ y = 4 /\ Says(m, "seed", Width("seed", 1), Block(p))
    \/ x = 4 /\ y = 6 /\ Says(m, "base_ot", Width("base_ot", 1), Block(p))

\* From the n-th call of the sender.
ToReceiver(n, x, m, y) ==
    \/ /\ x = 6 * n /\ y = AfterSize(n)
       /\ Says(m, "sizes", Word, Len(calls[S][n]))
    \/ /\ x = 6 * n + 3 /\ y = 6 * n + 6
       /\ \E shuffles \in [1..num_of_fun[S] -> Shuffles(Len(calls[S][n]))] :
             Says(m, "masks", Width("masks", num_of_fun[S] * Len(calls[S][n])),
                  SenderMasks(Stream(n), num_of_fun[S], calls[S][n], shuffles))

\* From the n-th call of the receiver.
ToSender(n, x, m, y) ==
    \/ /\ x = 6 * n /\ y = 6 * n + 1
       /\ Says(m, "sizes", Word, Len(calls[R][n]))
    \/ /\ x = 6 * n + 1 /\ y = 6 * n + 2 /\ GotThrough(n)
       /\ Says(m, "stash", Word, 0)
    \/ /\ x = 6 * n + 1 /\ y = 6 * n + 6 /\ GaveUp(n)
       /\ Says(m, "stash", Word, 1)
    \/ /\ x = 6 * n + 2 /\ y = AfterOt(n)
       /\ Says(m, "ot", Width("ot", NumOfBins(Len(calls[R][n]), epsilon[R])), 0)
    \/ /\ x = 6 * n + 4 /\ y = AfterCount(n) /\ n \in DOMAIN calls[S]
       /\ Says(m, "count", Word, Cardinality(Common(n)))
    \/ /\ x = 6 * n + 5 /\ y = 6 * n + 6 /\ n \in DOMAIN calls[S]
       /\ Says(m, "keys", Width("bytes", Cardinality(Common(n))),
               Pick(calls[R][n], Common(n)))

Carries(q, x, m, y) ==
    \/ InitCarries(q, x, m, y)
    \/ \E n \in DOMAIN calls[Peer(q)] :
          IF q = S THEN ToSender(n, x, m, y) ELSE ToReceiver(n, x, m, y)

\* The channel to q holds what its peer has written and q has not read.
InOrder(q) ==
    \E ids \in [1..(Len(chan[q]) + 1) -> In(q)..Out(Peer(q))] :
        /\ ids[1] = In(q)
        /\ ids[Len(chan[q]) + 1] = Out(Peer(q))
        /\ \A i, j \in 1..(Len(chan[q]) + 1) : i < j => ids[i] < ids[j]
        /\ \A i \in 1..Len(chan[q]) : Carries(q, ids[i], chan[q][i], ids[i + 1])

-----------------------------------------------------------------------------
(* The parties.                                                            *)

\* Where a party alone can be.
Control(p) ==
    /\ stage[p] \in InInit \cup {"threw"} => Number(p) = 0
    /\ stage[p] \in InCall => Number(p) > 0
    /\ Number(p) <= MaxCalls
    /\ Number(p) = Len(results[p]) + (IF stage[p] \in InCall THEN 1 ELSE 0)
    /\ IF stage[p] \in TwoWay THEN io[p] # "none"
       ELSE io[p] = Starts(stage[p], p)
    /\ stage[p] \in {"count", "keys"} => sender_obtain_result[p]
    /\ stage[p] = "keys" => ~modes[Number(p)]
    /\ common_prng[p] =
          [seed |-> IF stage[p] \in {"epsilon", "fun_num", "seed", "threw"}
                    THEN {} ELSE {1, 2},
           draws |-> IF stage[p] = "sizes" THEN Number(p) - 1 ELSE Number(p)]

\* What a party knows of the other.
Knows(p) ==
    LET n == Number(p)
        q == Peer(p)
    IN
    /\ stage[p] \notin {"epsilon", "threw"} => epsilon[p] = epsilon[q]
    /\ stage[p] \notin {"epsilon", "fun_num", "threw"} => num_of_fun[p] = num_of_fun[q]
    /\ stage[p] = "threw" => epsilon[p] # epsilon[q] \/ num_of_fun[p] # num_of_fun[q]
    /\ HasRead(p) =>
          /\ stage[p] = "epsilon" => remote[p] = epsilon[q]
          /\ stage[p] = "fun_num" => remote[p] = num_of_fun[q]
          /\ stage[p] = "seed" => remote[p] = Block(q)
          /\ stage[p] = "sizes" =>
                n \in DOMAIN calls[q] /\ remote[p] = Len(calls[q][n])
    /\ stage[p] \in {"stash", "ot", "masks"} =>
          n \in DOMAIN calls[q] /\ remote[p] = Len(calls[q][n])
    /\ stage[p] \in {"count", "keys"} => n \in DOMAIN calls[q]

\* What the sender has learnt from a call under way.
SenderKnows ==
    /\ stage[S] \in {"ot", "masks", "count", "keys"} => GotThrough(Number(S))
    /\ stage[S] = "keys" => remote[S] = Cardinality(Common(Number(S)))

\* The receiver's table, and what it has found with it.
TableOK ==
    LET keys == Current(R)
        placed == function_ids \in Placements(keys, num_of_fun[R], Bins(R))
    IN
    /\ stage[R] \notin InCall \ {"sizes"} => function_ids = <<>> /\ stash_size = 0
    /\ stage[R] = "sizes" => function_ids = <<>> /\ stash_size = 0
    /\ stage[R] = "stash" =>
          \/ stash_size = 0 /\ placed
          \/ stash_size = 1 /\ function_ids = <<>>
    /\ stage[R] \in {"ot", "masks", "count", "keys"} =>
          /\ stash_size = 0
          /\ function_ids \in [1..Len(keys) -> 1..num_of_fun[R]]
    /\ found = IF stage[R] \in {"count", "keys"} THEN Common(Number(R)) ELSE {}

\* Calls have ended alike.
Ended ==
    /\ \A p \in Party : \A n \in DOMAIN results[p] : n \in DOMAIN calls[Peer(p)]
    /\ \A n \in DOMAIN results[S] :
          IF results[S][n] = Threw THEN GaveUp(n) ELSE GotThrough(n)

\* The hypothesis of the proofs: the two configurations agree on the flag that
\* init does not compare.
FlagsAgree == \A flags \in ObtainResult : flags[S] = flags[R]

\* Each channel holds the messages between its two ends, each party knows what
\* it has been told, and finished calls have ended alike and right.
KkrtInv ==
    /\ TypeOK
    /\ sender_obtain_result[S] = sender_obtain_result[R]
    /\ \A p \in Party : Control(p) /\ Knows(p) /\ InOrder(p)
    /\ SenderKnows
    /\ TableOK
    /\ Ended
    /\ ResultCorrect
=============================================================================
