----------------------------- MODULE MCWorkspace -----------------------------
(* An instance of Workspace for TLC: tickets t1 and t2 are one in directory   *)
(* and branch, t3 has its own.                                               *)
EXTENDS Workspace

CONSTANTS e1, e2, e3, t1, t2, t3, k1, k2

Codes == [t \in Ticket |-> IF t = t3 THEN k2 ELSE k1]

Tickets == [e \in Exec |-> IF e = e1 THEN t1 ELSE IF e = e2 THEN t2 ELSE t3]

\* e2 continues the ticket of e1
SameTicket == [e \in Exec |-> IF e = e3 THEN t3 ELSE t1]

=============================================================================
