--------------------------- MODULE AgentCommands ----------------------------
(***************************************************************************)
(* Commands in the agent: the receive loop of the connection manager, the  *)
(* dispatcher and the handlers (agent/internal/command), with the hosts    *)
(* file that block_website rewrites, the flag of the backup scheduler, the *)
(* download of a restore, and the life of the process (agent/main.go).     *)
(*                                                                         *)
(* The receive loop handles one command after the other; on SIGTERM the    *)
(* main goroutine cleans up while the loop goes on, and then the process   *)
(* ends wherever the loop is.  A panic of a handler ends the process too.  *)
(***************************************************************************)
EXTENDS HostsFile, AgentStart

CONSTANTS
    Commands,    \* commands that reach the agent: [name, kind, arg, ds]
    MaxCommands  \* bound on the commands received

ASSUME CommandsAssumption ==
    /\ Callers = {"loop", "main"}
    /\ \A c \in Commands : DOMAIN c = {"name", "kind", "arg", "ds"} /\ c.ds \subseteq Domains
    /\ MaxCommands \in Nat

VARIABLES
    received,   \* number of commands received
    loop,       \* the receive loop: "recv", "block" (in the hosts manager), "download"
    active,     \* Manager.active: stream commands with their stop function
    auto,       \* backupState.enabled
    file,       \* the destination of a restore, "unread" until a restore names it
    block,      \* history: what the last block_website command asked for
    order       \* history: what the backup_auto commands of this process asked for

cmdVars == <<loop, active, auto, file, block, order>>
vars    == <<hostVars, startVars, received, cmdVars>>

Names == {"backup_auto", "block_website", "restore", "get_logs"}

CommandsTypeOK ==
    /\ HostsTypeOK /\ StartTypeOK
    /\ received \in 0..MaxCommands
    /\ loop \in {"recv", "block", "download"}
    /\ active \in [Names -> {"none", "stop", "nil"}]
    /\ auto \in BOOLEAN /\ order \in BOOLEAN
    /\ file \in {"unread", "absent", "empty", "user", "version"}
    /\ block \in SUBSET Domains

Init ==
    /\ HostsInit /\ StartInit
    /\ received = 0
    /\ loop = "recv"
    /\ active = [n \in Names |-> "none"]
    /\ auto = TRUE /\ order = TRUE
    /\ file = "unread"
    /\ block = {}

-----------------------------------------------------------------------------
(* The process.                                                            *)

Exit ==
    /\ ProcessEnds
    /\ Stop
    /\ UNCHANGED <<tokenFile, idFile, cached, issued>>
    /\ loop' = "recv"
    /\ active' = [n \in Names |-> "none"]
    /\ auto' = TRUE /\ order' = TRUE

\* Killed, or the machine goes down.
Killed ==
    /\ Alive
    /\ Exit
    /\ UNCHANGED <<received, file, block>>

\* SIGTERM: main goes on to its deferred function.
shutdown_signal ==
    /\ proc = "up"
    /\ proc' = "signalled"
    /\ UNCHANGED <<hostVars, received, cmdVars>>
    /\ UNCHANGED <<retries, link, me, token, tokenFile, idFile, cached, issued>>

\* The deferred function takes the manager's mutex for IsEnabled and gives it
\* back; SetEnabled(false) is called if blocking was on then.
IsEnabled ==
    /\ proc = "signalled" /\ mutex = Nobody
    /\ proc' = "stopping"
    /\ calls' = [calls EXCEPT !["main"] = IF enabled THEN <<[m |-> "disable"]>> ELSE <<>>]
    /\ UNCHANGED <<hosts, enabled, domains, mutex, stage, content, written, lost, failed>>
    /\ UNCHANGED <<retries, link, me, token, tokenFile, idFile, cached, issued>>
    /\ UNCHANGED <<received, cmdVars>>

\* The cleanup is done: main returns, whatever the receive loop is doing.
main_returns ==
    /\ proc = "stopping" /\ calls["main"] = <<>>
    /\ Exit
    /\ UNCHANGED <<received, file, block>>

-----------------------------------------------------------------------------
(* The dispatcher.                                                         *)
DefaultKind(n) == IF n = "backup_auto" THEN "stream" ELSE "once"

resolveKind(c) == IF c.kind # "" THEN c.kind ELSE DefaultKind(c.name)

\* DecodeArg accepts the argument, or there is none ("missing").
Decodes(c) == c.arg # "malformed"

\* The type assertion at the head of a handler: a missing argument is a nil.
Typed(c) == c.arg \notin {"missing", "malformed"}

Received(c) ==
    /\ Alive /\ link = "up" /\ loop = "recv"
    /\ received < MaxCommands
    /\ received' = received + 1

\* Unknown command, malformed argument, a kind that is neither once nor
\* stream, or an argument the handler refuses.
dispatch_refused(c) ==
    /\ Received(c)
    /\ \/ c.name \notin Names
       \/ ~Decodes(c)
       \/ resolveKind(c) \notin {"once", "stream"}
       \/ resolveKind(c) = "once" /\ c.name # "get_logs" /\ ~Typed(c)
       \/ resolveKind(c) = "once" /\ c.name = "block_website" /\ c.arg = "unknown action"
    /\ UNCHANGED <<hostVars, startVars, cmdVars>>

\* Mutant: a command without the field switches the backup on.
SetBackup_default_on(old, arg) == arg \in {"unset", "on"}

\* An argument of backup_auto is "on", "off" or "unset" (no "enabled" field).
SetBackup(old, arg) == IF arg = "unset" THEN old ELSE arg = "on"

Ordered(c) == order' = IF c.arg \in {"on", "off"} THEN c.arg = "on" ELSE order

backup_once(c) ==
    /\ Received(c)
    /\ c.name = "backup_auto" /\ resolveKind(c) = "once" /\ Typed(c)
    /\ auto' = SetBackup(auto, c.arg)
    /\ Ordered(c)
    /\ UNCHANGED <<hostVars, startVars, loop, active, file, block>>

\* Dispatch of a stream command: a running one of that name is stopped (and
\* its stop function turns the backup off), then the new one starts, or fails
\* to.
backup_stream(c) ==
    /\ Received(c)
    /\ c.name = "backup_auto" /\ resolveKind(c) = "stream" /\ Decodes(c)
    /\ LET stopped == active["backup_auto"] = "stop"
           old == auto /\ ~stopped
       IN  /\ auto' = IF Typed(c) THEN SetBackup(old, c.arg) ELSE old
           /\ active' = [active EXCEPT !["backup_auto"] = IF Typed(c) THEN "stop" ELSE "none"]
    /\ IF Typed(c) THEN Ordered(c) ELSE UNCHANGED order
    /\ UNCHANGED <<hostVars, startVars, loop, file, block>>

\* A once command sent as a stream: Start returns a nil stop function, which
\* the next one of that name calls.
other_stream(c) ==
    /\ Received(c)
    /\ c.name \in Names \ {"backup_auto"} /\ resolveKind(c) = "stream" /\ Decodes(c)
    /\ \/ /\ active[c.name] = "none"
          /\ active' = [active EXCEPT ![c.name] = "nil"]
          /\ UNCHANGED <<hostVars, startVars, loop, auto, file, block, order>>
       \/ /\ active[c.name] = "nil"
          /\ Exit
          /\ UNCHANGED <<file, block>>

\* get_logs: when the backend cannot be reached, the error branch reads the
\* answer that is not there.
get_logs_once(c) ==
    /\ Received(c)
    /\ c.name = "get_logs" /\ resolveKind(c) = "once" /\ Decodes(c)
    /\ \/ UNCHANGED <<hostVars, startVars, cmdVars>>
       \/ Exit /\ UNCHANGED <<file, block>>

-----------------------------------------------------------------------------
(* block_website.  An argument is "remove", "status off" (sync or apply    *)
(* with a disabled status), "unknown action", or "rules": sync or apply,   *)
(* the enabled rules naming the domains ds.                                *)

Unblocks(c) == c.arg \in {"remove", "status off"}

BlockCalls(c) ==
    IF Unblocks(c) THEN <<[m |-> "disable"]>>
    ELSE <<[m |-> "set", ds |-> c.ds], [m |-> "enable"]>>

block_once(c) ==
    /\ Received(c)
    /\ c.name = "block_website" /\ resolveKind(c) = "once" /\ Typed(c)
    /\ c.arg # "unknown action"
    /\ calls' = [calls EXCEPT !["loop"] = BlockCalls(c)]
    /\ block' = IF Unblocks(c) THEN {} ELSE c.ds
    /\ failed' = FALSE
    /\ loop' = "block"
    /\ UNCHANGED <<hosts, enabled, domains, mutex, stage, content, written, lost,
                   startVars, active, auto, file, order>>

HandleOnce_returns ==
    /\ Alive /\ loop = "block" /\ calls["loop"] = <<>>
    /\ loop' = "recv"
    /\ UNCHANGED <<hostVars, startVars, received, active, auto, file, block, order>>

-----------------------------------------------------------------------------
(* restore.                                                                *)

\* PrepareDownload finds the stored file of the version, or not.
PrepareDownload == {"session", "error"}

\* What the destination is when a first restore names it.
Existing == IF file = "unread" THEN {"absent", "user"} ELSE {file}

\* InitDownload, on a connection that logs in.
restore_once(c) ==
    /\ Received(c)
    /\ c.name = "restore" /\ resolveKind(c) = "once" /\ Typed(c)
    /\ \E answer \in PrepareDownload :
          loop' = IF answer = "session" THEN "download" ELSE "recv"
    /\ file' \in Existing
    /\ UNCHANGED <<hostVars, startVars, active, auto, block, order>>

\* The device of a connection that has sent no MSG_LOGIN.
NoDevice == "no device"

\* The frames a device gets for a download that finds its file.
handleBackupDownloadStart == <<"meta", "chunk", "done">>

\* A sub-command that needs a token of the device is refused without one.
handleSubCommand(device, frames) == IF device = NoDevice THEN <<"ack 401">> ELSE frames

\* Mutant: the destination is opened with O_TRUNC.
DownloadFile_truncates ==
    /\ Alive /\ loop = "download"
    /\ loop' = "recv"
    /\ LET frames == handleSubCommand(NoDevice, handleBackupDownloadStart)
       IN  file' = IF frames[Len(frames)] = "done" THEN "version" ELSE "empty"
    /\ UNCHANGED <<hostVars, startVars, received, active, auto, block, order>>

\* DownloadFile opens the destination without O_TRUNC, connects, sends
\* backup_download_start without a MSG_LOGIN, and writes the chunks it gets.
DownloadFile ==
    /\ Alive /\ loop = "download"
    /\ loop' = "recv"
    /\ LET frames == handleSubCommand(NoDevice, handleBackupDownloadStart)
           opened == IF file = "absent" THEN "empty" ELSE file
       IN  file' = IF frames[Len(frames)] = "done" THEN "version" ELSE opened
    /\ UNCHANGED <<hostVars, startVars, received, active, auto, block, order>>

-----------------------------------------------------------------------------
HostsStep(p) ==
    /\ Alive
    /\ Method(p)
    /\ UNCHANGED <<startVars, received, cmdVars>>

Dispatch(c) ==
    \/ dispatch_refused(c) \/ backup_once(c) \/ backup_stream(c) \/ other_stream(c)
    \/ get_logs_once(c) \/ block_once(c) \/ restore_once(c)

Environment ==
    \/ \E l \in Foreign : ForeignAppend(l) /\ UNCHANGED <<startVars, received, cmdVars>>
    \/ Starting /\ UNCHANGED <<hostVars, received, cmdVars>>
    \/ link_lost /\ UNCHANGED <<hostVars, received, cmdVars>>
    \/ Killed \/ shutdown_signal

Handler == HandleOnce_returns \/ DownloadFile

Next ==
    \/ Environment
    \/ IsEnabled \/ main_returns
    \/ \E c \in Commands : Dispatch(c)
    \/ \E p \in Callers : HostsStep(p)
    \/ Handler

Spec == Init /\ [][Next]_vars

\* The goroutines of the agent run; nobody owes a command or a signal.
FairSpec ==
    /\ Spec
    /\ \A p \in Callers : WF_vars(HostsStep(p))
    /\ WF_vars(Handler)
    /\ WF_vars(IsEnabled)
    /\ WF_vars(main_returns)

-----------------------------------------------------------------------------
(* The lines that other programs keep in the hosts file survive every        *)
(* command, every failing one and every end of the process, in their order,  *)
(* also after a write that was cut short: except the lines that one did not  *)
(* reach, a line added while a method is between its read and its write, and *)
(* a line added behind the section that a cut-off write has left open, which *)
(* the next command takes for one of that section.                           *)
ForeignLinesKept ==
    stage # "truncated" => Subsequence(hosts, Foreign \ lost) = Subsequence(written, Foreign \ lost)

Count(lines, x) == Cardinality({i \in DOMAIN lines : lines[i] = x})

(* After a block_website command that met no error, the file blocks exactly  *)
(* the domains of that command, in one section: whatever sections a killed   *)
(* process left behind, whole or cut off, and whatever was blocked before.   *)
BlockingAsOrdered ==
    ~failed /\ proc = "up" /\ loop = "recv" =>
        /\ Blocked(hosts) = block
        /\ Count(hosts, Start) = Count(hosts, End)
        /\ Count(hosts, Start) = IF block = {} THEN 0 ELSE 1

(* Once an admin has switched automatic backup off it stays off until one    *)
(* switches it on, although every backup_auto command stops and replaces the *)
(* running stream, with or without an "enabled" field of its own.            *)
BackupOffStaysOff == auto => order

(* A restore that does not get the version leaves the file it was to replace  *)
(* as it is: DownloadFile opens the destination before it knows whether the   *)
(* backend will send anything.                                                *)
RestoreKeepsFile == [][file = "user" => file' \in {"user", "version"}]_vars

(* A shutdown comes to an end, although the cleanup needs, twice, the mutex  *)
(* that the receive loop holds while it writes the file.                     *)
ShutdownEnds == proc \in {"signalled", "stopping"} ~> ~Alive

=============================================================================
