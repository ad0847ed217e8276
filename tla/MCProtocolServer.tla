-------------------------- MODULE MCProtocolServer --------------------------
(* Small instances of ProtocolServer.  Two connections of device d1 (the    *)
(* agent's persistent one and a short-lived SendAction one) and one of d2.  *)
EXTENDS ProtocolServer

CONSTANTS c1, c2, c3, d1, d2, m1

MCConns   == {c1, c2, c3}
MCDevices == {d1, d2}
MCMaxLogins == [c \in MCConns |-> 2]
MCDevOf   == [c \in MCConns |-> IF c = c3 THEN d2 ELSE d1]
MCMsgs    == {m1}
MCTo      == [m \in MCMsgs |-> d1]

\* One device, two connections.
MCConns2   == {c1, c2}
MCDevices1 == {d1}
MCDevOf2   == [c \in MCConns2 |-> d1]
MCMaxLogins2 == [c \in MCConns2 |-> 2]
=============================================================================
