---------------------------- MODULE CircuitExample ----------------------------
(***************************************************************************)
(* example/circuit_psi_example.cpp: an application that makes one call of  *)
(* process and then opens the table, column by column, over the network    *)
(* the library has used.  Both applications write all their columns before *)
(* they read one, so the network must hold a table in each direction.      *)
(***************************************************************************)
EXTENDS CircuitPSI

CONSTANT Counts     \* numbers of bytes the network may report

\* One call, and room for the columns: the bit and one feature a party.
ASSUME ExampleCallsAssumption ==
    /\ MaxCalls = 1 /\ Capacity >= 3
    /\ \A p \in Party : \A call \in Calls[p] : Len(call.features) = 1

VARIABLES
    step,           \* per party, what its application is at
    col,            \* per party, the column it writes or reads next
    recv_shares,    \* per party, the columns it has read
    communication, remote_communication

Stats == INSTANCE Statistics

opening == <<col, recv_shares>>
counting == <<communication, remote_communication>>
exampleVars == <<vars, step, opening, counting>>

ExampleInit ==
    /\ Init
    /\ step = [p \in Party |-> "library"]
    /\ col = [p \in Party |-> 1]
    /\ recv_shares = [p \in Party |-> <<>>]
    /\ communication = [p \in Party |-> 0]
    /\ remote_communication = [p \in Party |-> 0]

Shares(p) == results[p][1].columns

\* The network is the one of CircuitPSI; of the rest nothing changes.
OnlyNetwork ==
    UNCHANGED <<params, calls, results, stage, fid, io, values, common_prng, locals>>

\* init, and the call of process.
Library(p) ==
    /\ step[p] = "library"
    /\ Process(p) \/ Step(p)
    /\ UNCHANGED <<step, opening, counting>>

\* What the library throws ends the program.
LibraryReturns(p) ==
    /\ step[p] = "library"
    /\ stage[p] = "threw" \/ results[p] # <<>>
    /\ step' = [step EXCEPT ![p] =
                   IF stage[p] = "threw" \/ Threw(results[p][1]) THEN "crashed"
                   ELSE "send_shares"]
    /\ UNCHANGED <<vars, opening, counting>>

\* The next column, or on to what comes after the last.
NextColumn(p, after) ==
    IF col[p] < Len(Shares(p))
    THEN col' = [col EXCEPT ![p] = @ + 1] /\ UNCHANGED step
    ELSE col' = [col EXCEPT ![p] = 1] /\ step' = [step EXCEPT ![p] = after]

SendShares(p) ==
    /\ step[p] = "send_shares"
    /\ Post(p, Words(Len(Shares(p)[col[p]])), Shares(p)[col[p]])
    /\ NextColumn(p, "recv_shares")
    /\ OnlyNetwork
    /\ UNCHANGED <<recv_shares, counting>>

\* Mutant of RecvShares: columns are put in front.
RecvSharesReversed(p) ==
    /\ step[p] = "recv_shares"
    /\ Take(p, Words(Len(Shares(p)[col[p]])))
    /\ recv_shares' = [recv_shares EXCEPT ![p] = <<Head(chan[p]).value>> \o @]
    /\ NextColumn(p, "count")
    /\ OnlyNetwork
    /\ UNCHANGED counting

RecvShares(p) ==
    /\ step[p] = "recv_shares"
    /\ Take(p, Words(Len(Shares(p)[col[p]])))
    /\ recv_shares' = [recv_shares EXCEPT ![p] = Append(@, Head(chan[p]).value)]
    /\ NextColumn(p, "count")
    /\ OnlyNetwork
    /\ UNCHANGED counting

ExchangeCounts(p) ==
    /\ Stats!Exchange(p)
    /\ OnlyNetwork
    /\ UNCHANGED opening

ExampleStep(p) ==
    \/ Library(p) \/ LibraryReturns(p) \/ SendShares(p) \/ RecvShares(p)
    \/ ExchangeCounts(p)

ExampleTerminated ==
    /\ \/ \A p \in Party : step[p] = "done"
       \/ \A p \in Party : step[p] = "crashed"
    /\ UNCHANGED exampleVars

ExampleNext == (\E p \in Party : ExampleStep(p)) \/ ExampleTerminated

\* The applications, and the library inside them, keep running.
ExampleSpec ==
    /\ ExampleInit /\ [][ExampleNext]_exampleVars
    /\ \A p \in Party : WF_exampleVars(ExampleStep(p))

-----------------------------------------------------------------------------
(* Properties.                                                             *)

TotalsAgree == Stats!TotalsAgree

\* The table of a party, once it has all columns of the peer.
Opened(p) == Ideal!Combine(recv_shares[p], Shares(p))

\* Both parties open the same table, and it is the join of their data.
OpenedIsJoin ==
    \A p \in Party : step[p] \in Stats!Steps =>
        /\ Ideal!IsJoin(Opened(p), calls["sender"][1], calls["receiver"][1])
        /\ \A q \in Party : step[q] \in Stats!Steps => Opened(q) = Opened(p)

\* Both examples come to their end, or both end in an exception.
ExampleEnds ==
    <>(\/ \A p \in Party : step[p] = "done"
       \/ \A p \in Party : step[p] = "crashed")
=============================================================================
