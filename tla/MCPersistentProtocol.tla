----------------------- MODULE MCPersistentProtocol ------------------------
(* Instances of PersistentProtocol for TLC: what the peers send.           *)
EXTENDS PersistentProtocol

\* The client's first message is two units long, the others one.
Length(p, i) == IF p = Client /\ i = 1 THEN 2 ELSE 1

\* The client sends two messages, the server one.
Uneven(p) == IF p = Client THEN 2 ELSE 1
=============================================================================
