----------------------------- MODULE Statistics -----------------------------
(***************************************************************************)
(* The last step of the three examples: over the network the library has   *)
(* used, the two applications tell each other how many bytes they have     *)
(* sent, and each adds the two numbers up.                                 *)
(***************************************************************************)
EXTENDS Integers, Sequences, Parties

CONSTANTS
    Counts,     \* numbers of bytes the network may report
    Capacity    \* messages the network holds in one direction

VARIABLES
    step,                   \* per party, what its application is at
    communication,          \* per party, the bytes it has sent
    remote_communication,   \* per party, the bytes its peer says it has sent
    chan                    \* per party, the messages on their way to it

Steps == {"count", "send_count", "recv_count", "done"}

\* A number, not a column of shares.
Number(n) == [width |-> [unit |-> "word", number |-> 1], value |-> n]

\* Mutant of Count: both read before they write.
CountReadFirst(p) ==
    /\ step[p] = "count"
    /\ \E n \in Counts : communication' = [communication EXCEPT ![p] = n]
    /\ step' = [step EXCEPT ![p] = "recv_count"]
    /\ UNCHANGED <<remote_communication, chan>>

\* get_bytes_sent; then the sender writes first.
Count(p) ==
    /\ step[p] = "count"
    /\ \E n \in Counts : communication' = [communication EXCEPT ![p] = n]
    /\ step' = [step EXCEPT ![p] = IF First(p) = "send" THEN "send_count"
                                   ELSE "recv_count"]
    /\ UNCHANGED <<remote_communication, chan>>

\* Mutant of SendCount: the number of the peer is sent back to it.
SendCountEcho(p) ==
    /\ step[p] = "send_count"
    /\ Len(chan[Peer(p)]) < Capacity
    /\ chan' = [chan EXCEPT ![Peer(p)] = Append(@, Number(remote_communication[p]))]
    /\ step' = [step EXCEPT ![p] = IF First(p) = "send" THEN "recv_count" ELSE "done"]
    /\ UNCHANGED <<communication, remote_communication>>

SendCount(p) ==
    /\ step[p] = "send_count"
    /\ Len(chan[Peer(p)]) < Capacity
    /\ chan' = [chan EXCEPT ![Peer(p)] = Append(@, Number(communication[p]))]
    /\ step' = [step EXCEPT ![p] = IF First(p) = "send" THEN "recv_count" ELSE "done"]
    /\ UNCHANGED <<communication, remote_communication>>

RecvCount(p) ==
    /\ step[p] = "recv_count"
    /\ chan[p] # <<>> /\ Head(chan[p]).width = Number(0).width
    /\ remote_communication' = [remote_communication EXCEPT ![p] = Head(chan[p]).value]
    /\ chan' = [chan EXCEPT ![p] = Tail(@)]
    /\ step' = [step EXCEPT ![p] = IF First(p) = "send" THEN "done" ELSE "send_count"]
    /\ UNCHANGED communication

Exchange(p) == Count(p) \/ SendCount(p) \/ RecvCount(p)

\* The total the two print is the same, and is what both have sent.
TotalsAgree ==
    (\A p \in Party : step[p] = "done") =>
        \A p \in Party : remote_communication[p] = communication[Peer(p)]
=============================================================================
