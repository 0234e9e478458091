------------------------------ MODULE Parties ------------------------------
(***************************************************************************)
(* The two ends of a PSI session.  `is_sender` of the configuration picks  *)
(* the end: the party configured with TRUE is "sender".  Every exchange of *)
(* the library is ordered by that flag, see First.                         *)
(***************************************************************************)

Party == {"sender", "receiver"}

Peer(p) == IF p = "sender" THEN "receiver" ELSE "sender"

\* The half of an exchange a party starts with: the sender writes its frame
\* and then reads, the receiver reads and then writes.
First(p) == IF p = "sender" THEN "send" ELSE "recv"

\* What follows once a party's frame is written, or once it has been read.
AfterSend(p) == IF p = "sender" THEN "recv" ELSE "done"

AfterRecv(p) == IF p = "sender" THEN "done" ELSE "send"
=============================================================================
