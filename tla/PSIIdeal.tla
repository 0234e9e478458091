------------------------------ MODULE PSIIdeal ------------------------------
(***************************************************************************)
(* What psi/psi.h promises, with no wire and no cryptography: two parties  *)
(* agree to open a session, each makes a sequence of calls, and the n-th   *)
(* call of one returns once the n-th call of the other has been made.  A   *)
(* party that may obtain the result gets the part of its keys the peer     *)
(* holds too, or only its size; the other gets nothing.  A scheme may give *)
(* up on a call (MayThrow), and then it does so on both sides.             *)
(***************************************************************************)
EXTENDS Integers, Sequences, FiniteSets, Functions, Parties

CONSTANTS
    Inputs,     \* the key sequences a party may call with
    MaxCalls,   \* bound on the calls of one party
    MayThrow    \* whether a call may end in an exception

VARIABLES
    agreed,     \* whether the two configurations are compatible
    entitled,   \* which parties may obtain the result
    status,     \* "init", "open" or "threw", per party
    calls,      \* per party, the calls it has made
    results     \* per party, how its finished calls ended

vars == <<agreed, entitled, status, calls, results>>

Call == [keys : Inputs, only_cardinality : BOOLEAN]

Threw == [threw |-> TRUE]

Returned(keys, count) == [keys |-> keys, count |-> count]

\* The positions of `mine` whose key the peer holds.
Common(mine, theirs) == {i \in DOMAIN mine : mine[i] \in Range(theirs)}

\* The ways a call may return when `mine` meets the peer's `theirs`: the
\* common keys come in any order, each occurrence in mine.keys once.
Outcomes(mine, theirs, obtains) ==
    LET I == Common(mine.keys, theirs.keys)
        n == Cardinality(I)
    IN
    IF ~obtains THEN {Returned(<<>>, 0)}
    ELSE IF mine.only_cardinality THEN {Returned(<<>>, n)}
    ELSE {Returned([j \in 1..n |-> mine.keys[pick[j]]], 0) :
             pick \in Bijection(1..n, I)}

Init == /\ agreed \in BOOLEAN
        /\ entitled \in [Party -> BOOLEAN]
        /\ status = [p \in Party |-> "init"]
        /\ calls = [p \in Party |-> <<>>]
        /\ results = [p \in Party |-> <<>>]

Open(p) ==
    /\ status[p] = "init"
    /\ status' = [status EXCEPT ![p] = IF agreed THEN "open" ELSE "threw"]
    /\ UNCHANGED <<agreed, entitled, calls, results>>

Invoke(p) ==
    /\ status[p] = "open"
    /\ Len(calls[p]) = Len(results[p])
    /\ Len(calls[p]) < MaxCalls
    /\ \E call \in Call : calls' = [calls EXCEPT ![p] = Append(@, call)]
    /\ UNCHANGED <<agreed, entitled, status, results>>

\* The n-th call of p ends: in an exception only if the peer's n-th call
\* does too.
Return(p) ==
    LET n == Len(results[p]) + 1
        q == Peer(p)
    IN
    /\ n \in DOMAIN calls[p]
    /\ n \in DOMAIN calls[q]
    /\ \E outcome \in Outcomes(calls[p][n], calls[q][n], entitled[p])
                        \cup (IF MayThrow THEN {Threw} ELSE {}) :
          /\ n \in DOMAIN results[q] =>
                (outcome = Threw <=> results[q][n] = Threw)
          /\ results' = [results EXCEPT ![p] = Append(@, outcome)]
    /\ UNCHANGED <<agreed, entitled, status, calls>>

Next == \E p \in Party : Open(p) \/ Invoke(p) \/ Return(p)

\* What never happens, and with it what happens in the end.
Safety == Init /\ [][Next]_vars

Spec == /\ Safety
        /\ \A p \in Party : WF_vars(Open(p)) /\ WF_vars(Return(p))
=============================================================================
