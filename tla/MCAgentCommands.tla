-------------------------- MODULE MCAgentCommands ---------------------------
(* Two domains, one foreign line, every sort of command the handlers tell    *)
(* apart.                                                                    *)
EXTENDS AgentCommands

CONSTANTS d1, d2, f1

Cmd(n, k, a, s) == [name |-> n, kind |-> k, arg |-> a, ds |-> s]

\* Every way to block and unblock.
BlockCommands ==
    {Cmd("block_website", "", "rules", {d1, d2}), Cmd("block_website", "once", "rules", {d1}),
     Cmd("block_website", "", "remove", {})}

\* One command of each other sort that the dispatcher and the handlers tell apart.
OtherCommands ==
    {Cmd("backup_auto", "", a, {}) : a \in {"on", "off", "unset", "missing"}}
    \union {Cmd("backup_auto", "once", "off", {}), Cmd("backup_auto", "agent", "off", {}),
            Cmd("block_website", "", "unknown action", {}), Cmd("restore", "", "missing", {}),
            Cmd("restore", "", "file", {}),
            Cmd("restore", "", "malformed", {}), Cmd("get_logs", "", "lines", {}),
            Cmd("get_logs", "stream", "lines", {}), Cmd("unknown", "", "missing", {})}

AllCommands == BlockCommands \union OtherCommands
=============================================================================
