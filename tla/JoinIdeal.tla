------------------------------ MODULE JoinIdeal ------------------------------
(***************************************************************************)
(* A session of Circuit-PSI without wire or cryptography: the parties open *)
(* it, each makes a sequence of calls, and the n-th calls of the two end   *)
(* together in shares of one table.  Nothing says which shares.  The table *)
(* has a row for each of some number of bins: one for every key of the     *)
(* receiver, with a bit that tells whether the sender has the key too, the *)
(* sender's features of the key if it has, and the receiver's; the other   *)
(* rows are zero.                                                          *)
(*                                                                         *)
(* The rows are those the code makes and its tests and its example open,   *)
(* who multiply them by the bit or print them as they are.  They are not   *)
(* those of pjc.h:56, "input features corresponding to intersection keys": *)
(* the receiver's features are there for all its keys.                     *)
(***************************************************************************)
EXTENDS Integers, Sequences, FiniteSets, Functions, Parties

CONSTANTS
    Calls,      \* per party, the keys and features it may call with
    MaxCalls,   \* bound on the calls of one party
    Modulus     \* features and their shares are added modulo this

VARIABLES
    agreed,     \* whether the two configurations are the same
    status,     \* "init", "open" or "threw", per party
    calls,      \* per party, the calls it has made
    results     \* per party, how its finished calls ended

vars == <<agreed, status, calls, results>>

\* A call that gave up, and on which of the two hash tables.
Thrown == {[threw |-> table] : table \in {"stash", "hint_stash"}}

\* Two parties put their shares together: bits by exclusive or, the rest by
\* addition.
Combine(mine, theirs) ==
    [c \in DOMAIN mine |->
        [b \in DOMAIN mine[c] |->
            (mine[c][b] + theirs[c][b]) % (IF c = 1 THEN 2 ELSE Modulus)]]

SameShape(mine, theirs) ==
    /\ DOMAIN mine = DOMAIN theirs
    /\ \A c \in DOMAIN mine : DOMAIN mine[c] = DOMAIN theirs[c]

\* The features of the i-th key of a call.
FeaturesOf(call, i) == [k \in DOMAIN call.features |-> call.features[k][i]]

\* The row of the receiver's i-th key, whether the sender has the key or not.
RowOf(sender, receiver, i) ==
    LET key == receiver.keys[i]
        at == {j \in DOMAIN sender.keys : sender.keys[j] = key}
        zeros == [k \in DOMAIN sender.features |-> 0]
    IN
    <<IF at # {} THEN 1 ELSE 0>>
      \o (IF at # {} THEN FeaturesOf(sender, CHOOSE j \in at : TRUE) ELSE zeros)
      \o FeaturesOf(receiver, i)

\* The table is one that the two calls may end in.
IsJoin(table, sender, receiver) ==
    /\ DOMAIN table = 1..(1 + Len(sender.features) + Len(receiver.features))
    /\ \E bin \in Injection(DOMAIN receiver.keys, DOMAIN table[1]) :
          \A b \in DOMAIN table[1] :
             LET row == [c \in DOMAIN table |-> table[c][b]] IN
             IF b \in Range(bin)
             THEN row = RowOf(sender, receiver,
                              CHOOSE i \in DOMAIN receiver.keys : bin[i] = b)
             ELSE row = [c \in DOMAIN table |-> 0]

Init == /\ agreed \in BOOLEAN
        /\ status = [p \in Party |-> "init"]
        /\ calls = [p \in Party |-> <<>>]
        /\ results = [p \in Party |-> <<>>]

Open(p) ==
    /\ status[p] = "init"
    /\ status' = [status EXCEPT ![p] = IF agreed THEN "open" ELSE "threw"]
    /\ UNCHANGED <<agreed, calls, results>>

Invoke(p) ==
    /\ status[p] = "open"
    /\ Len(calls[p]) = Len(results[p])
    /\ Len(calls[p]) < MaxCalls
    /\ \E call \in Calls[p] : calls' = [calls EXCEPT ![p] = Append(@, call)]
    /\ UNCHANGED <<agreed, status, results>>

\* The n-th call of p gives up.
GiveUp(p) ==
    LET n == Len(results[p]) + 1
        q == Peer(p)
    IN
    /\ n \in DOMAIN calls[p] /\ n \in DOMAIN calls[q]
    /\ \E outcome \in Thrown :
          /\ n \in DOMAIN results[q] => results[q][n] = outcome
          /\ results' = [results EXCEPT ![p] = Append(@, outcome)]
    /\ UNCHANGED <<agreed, status, calls>>

\* The n-th call of p returns.  Whoever is first may get anything; with what
\* the second gets, the shares make a join.
Return(p) ==
    LET n == Len(results[p]) + 1
        q == Peer(p)
        mine == results'[p][n]
        theirs == results[q][n]
    IN
    /\ n \in DOMAIN calls[p] /\ n \in DOMAIN calls[q]
    /\ DOMAIN results'[p] = 1..n
    /\ mine \notin Thrown
    /\ results' = [results EXCEPT ![p] = Append(@, mine)]
    /\ n \in DOMAIN results[q] =>
          /\ theirs \notin Thrown
          /\ SameShape(mine.columns, theirs.columns)
          /\ IsJoin(Combine(mine.columns, theirs.columns),
                    calls["sender"][n], calls["receiver"][n])
    /\ UNCHANGED <<agreed, status, calls>>

Next == \E p \in Party : Open(p) \/ Invoke(p) \/ GiveUp(p) \/ Return(p)

\* What never happens, and with it what happens in the end.
Safety == Init /\ [][Next]_vars

\* A session opens, or throws, on both sides, and a call both have made ends.
CallEnds(p) ==
    \A n \in 1..MaxCalls :
        (\A q \in Party : n \in DOMAIN calls[q]) ~> (n \in DOMAIN results[p])

Spec == Safety /\ \A p \in Party : WF_vars(Open(p)) /\ CallEnds(p)
=============================================================================
