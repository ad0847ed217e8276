--------------------------- MODULE MCCommandQueue ---------------------------
(* One device with two connections: c1 the agent's persistent connection,   *)
(* c2 a reconnect or a short-lived one; and one command.                    *)
EXTENDS CommandQueue, TLC

CONSTANTS c1, c2, d1, m1, r1, r2

MCConns   == {c1, c2}
MCDevices == {d1}
MCDevOf   == [c \in MCConns |-> d1]
MCMsgs    == {m1}
MCTo      == [m \in MCMsgs |-> d1]
MCRetriers == {r1, r2}
MCOneRetrier == {r1}
MCThreads1 == MCMsgs \union MCOneRetrier
MCThreads == MCMsgs \union MCRetriers

\* c2 logs in twice, as the console does.
MCOneLogin == [c \in MCConns |-> 1]
MCMaxLogins == [c \in MCConns |-> IF c = c2 THEN 2 ELSE 1]

Symmetry == Permutations(Fds) \union Permutations(MCRetriers)
=============================================================================
