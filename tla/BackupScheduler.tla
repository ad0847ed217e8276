-------------------------- MODULE BackupScheduler ---------------------------
(***************************************************************************)
(* The automatic backup, agent/internal/service/service.go: the consumer   *)
(* of the monitor's events, scheduleBackup with its cool-down and its set  *)
(* of paths in flight, and the goroutine of a backup: waitForStableFile    *)
(* and backupFile.  The upload itself is BackupUpload's; here it takes a   *)
(* version when it starts and succeeds or fails.                           *)
(***************************************************************************)
EXTENDS WindowsMonitor

CONSTANTS
    Jobs,           \* goroutines of backups that can be alive at once
    backupCooldown,
    fileSettlePolls, \* looks at a file within fileSettleMaxWait
    MaxBusy         \* bound on versions and faults unless backup was switched off at once

ASSUME SchedulerAssumption ==
    /\ Jobs \subseteq Nat /\ IsFiniteSet(Jobs)
    /\ backupCooldown \in Nat /\ fileSettlePolls \in Nat /\ MaxBusy \in Nat

VARIABLES
    enabled,     \* backupState.enabled
    inFlight,    \* backupState.inFlight
    recent,      \* recent[p]: seconds of cool-down left for p
    job,         \* job[j]: a goroutine of scheduleBackup
    backup       \* backup[p]: the version last uploaded; last_backup_at is set with it

schedVars == <<enabled, inFlight, recent, job, backup>>
vars == <<monitorVars, schedVars>>

-----------------------------------------------------------------------------
NoJob == [stage |-> "none", path |-> None, polls |-> 0, read |-> 0]
Job(p) == [NoJob EXCEPT !.stage = "settle", !.path = p, !.polls = fileSettlePolls]

SchedulerTypeOK ==
    /\ MonitorTypeOK
    /\ enabled \in BOOLEAN
    /\ inFlight \in SUBSET Paths
    /\ recent \in [Paths -> 0..backupCooldown]
    /\ job \in [Jobs -> [stage : {"none", "settle", "ready", "upload", "stored", "ended"}, path : Paths \union {None},
                         polls : 0..fileSettlePolls, read : 0..MaxOps]]
    /\ backup \in [Paths -> 0..MaxOps]

Init ==
    /\ MonitorInit
    /\ enabled = TRUE
    /\ inFlight = {} /\ recent = [p \in Paths |-> 0]
    /\ job = [j \in Jobs |-> NoJob]
    /\ backup = [p \in Paths |-> 0]

-----------------------------------------------------------------------------
\* A backup_auto command.
SetBackupEnabled ==
    /\ ops + faults <= MaxBusy
    /\ enabled' = ~enabled
    /\ UNCHANGED <<monitorVars, inFlight, recent, job, backup>>

\* A second passes.
Tick ==
    /\ \/ \E p \in Paths : recent[p] > 0
       \/ \E t \in Targets : renameQueue[t] # <<>> \/ shaken[t] > 0
    /\ MonitorAges
    /\ recent' = [p \in Paths |-> IF recent[p] = 0 THEN 0 ELSE recent[p] - 1]
    /\ UNCHANGED <<enabled, inFlight, job, backup>>

-----------------------------------------------------------------------------
Free == {j \in Jobs : job[j].stage = "none"}

\* The goroutine that a go statement starts.
NewJob == CHOOSE j \in Free : TRUE

Refused(p) == ~enabled \/ recent[p] > 0 \/ p \in inFlight

\* Mutant: a path in flight is not refused.
scheduleBackup_busy(p) ==
    IF ~enabled \/ recent[p] > 0
    THEN missed' = missed \union {p} /\ UNCHANGED <<inFlight, job>>
    ELSE /\ Free # {}
         /\ inFlight' = inFlight \union {p}
         /\ job' = [job EXCEPT ![NewJob] = Job(p)]
         /\ UNCHANGED missed

scheduleBackup(p) ==
    IF Refused(p)
    THEN missed' = missed \union {p} /\ UNCHANGED <<inFlight, job>>
    ELSE /\ Free # {}
         /\ inFlight' = inFlight \union {p}
         /\ job' = [job EXCEPT ![NewJob] = Job(p)]
         /\ UNCHANGED missed

\* Mutant: renames and moves are only logged.
Scheduled_in_place == {"create", "modify"}

\* The actions the consumer schedules a backup for; delete and move_out are only
\* logged.
Scheduled == {"create", "modify", "rename", "move"}

\* The consumer takes an event.  (When every watcher has ended the channel is
\* closed and the consumer ends; nothing is sent any more then.)
consume ==
    /\ out # <<>>
    /\ out' = Tail(out)
    /\ LET e == Head(out)
       IN  IF e.action \in Scheduled THEN scheduleBackup(e.path) ELSE UNCHANGED <<inFlight, job, missed>>
    /\ UNCHANGED <<envVars, records, watcher, retryCount, renameQueue, row, shaken, unrecorded, silent,
                   enabled, recent, backup>>

-----------------------------------------------------------------------------
(* The goroutine of a backup.                                              *)
Set(j, new) ==
    /\ job' = [job EXCEPT ![j] = new]
    /\ UNCHANGED <<monitorVars, enabled, inFlight, recent, backup>>

\* The goroutine gives up on p, whose change is then in no backup.
GivesUp(j) ==
    /\ job' = [job EXCEPT ![j].stage = "ended"]
    /\ missed' = missed \union {job[j].path}
    /\ UNCHANGED <<envVars, monVars, shaken, unrecorded, silent,
                   enabled, inFlight, recent, backup>>

\* Mutant: the wait has no deadline.
poll_for_ever(j) ==
    /\ job[j].stage = "settle" /\ job[j].polls > 0
    /\ disk[job[j].path] # Directory
    /\ Set(j, job[j])

\* One look of waitForStableFile before the deadline.  The first look learns
\* the size; when two later ones in a row have found it the same (a write need
\* not change it) the file is ready if it opens.  A directory, or an error other
\* than a missing file, ends the wait.
poll(j) ==
    LET g == job[j]
        v == disk[g.path]
    IN  /\ g.stage = "settle" /\ g.polls > 0
        /\ \/ v # Directory /\ Set(j, [g EXCEPT !.polls = @ - 1])
           \/ GivesUp(j)
           \/ v > Absent /\ g.polls <= fileSettlePolls - 2 /\ Set(j, [g EXCEPT !.stage = "ready"])

\* Past the deadline the file only has to open.
deadline(j) ==
    /\ job[j].stage = "settle" /\ job[j].polls = 0
    /\ \/ disk[job[j].path] # Absent /\ Set(j, [job[j] EXCEPT !.stage = "ready"])
       \/ GivesUp(j)

\* backupFile up to the answer of InitUpload: no file, no token, or no session
\* ends it.
backupFile(j) ==
    LET p == job[j].path
    IN  /\ job[j].stage = "ready"
        /\ \/ GivesUp(j)
           \/ /\ disk[p] > Absent
              /\ job' = [job EXCEPT ![j].stage = "upload", ![j].read = disk[p]]
              /\ missed' = missed \ {p}
              /\ UNCHANGED <<envVars, monVars, shaken, unrecorded, silent,
                             enabled, inFlight, recent, backup>>

\* UploadFile has sent everything: last_backup_at is set.
upload_done(j) ==
    LET p == job[j].path
    IN  /\ job[j].stage = "upload"
        /\ job' = [job EXCEPT ![j].stage = "stored"]
        /\ backup' = [backup EXCEPT ![p] = job[j].read]
        /\ UNCHANGED <<monitorVars, enabled, inFlight, recent>>

upload_fails(j) == job[j].stage = "upload" /\ GivesUp(j)

\* The deferred function: the path leaves inFlight and the cool-down starts,
\* after a failure too.
deferred(j) ==
    LET p == job[j].path
    IN  /\ job[j].stage \in {"stored", "ended"}
        /\ inFlight' = inFlight \ {p}
        /\ recent' = [recent EXCEPT ![p] = backupCooldown]
        /\ job' = [job EXCEPT ![j] = NoJob]
        /\ UNCHANGED <<monitorVars, enabled, backup>>

Goroutine(j) ==
    poll(j) \/ deadline(j) \/ backupFile(j) \/ upload_done(j) \/ upload_fails(j) \/ deferred(j)

-----------------------------------------------------------------------------
BackupIdle == ~enabled /\ inFlight = {} /\ \A p \in Paths : recent[p] = 0 /\ backup[p] = 0

Next ==
    \/ MonitorNext /\ UNCHANGED schedVars /\ (ops' + faults' > MaxBusy => BackupIdle)
    \/ SetBackupEnabled \/ Tick \/ consume
    \/ \E j \in Jobs : Goroutine(j)

Spec == Init /\ [][Next]_vars

FairSpec ==
    /\ Spec
    /\ \A j \in Jobs : WF_vars(Goroutine(j))

-----------------------------------------------------------------------------
Quiescent == Drained /\ out = <<>> /\ \A j \in Jobs : job[j].stage = "none"

(* When everything has come to rest, the last upload of an existing file is    *)
(* its present version, unless its last change was given up for a reason the   *)
(* code has: the file was there at the start or came with a directory moved    *)
(* here, its records were lost or unseen, the channel was full, backup was     *)
(* switched off, the cool-down ran, a backup of the same path was in flight    *)
(* that had read the file before, or the backup failed.                        *)
LastChangeBackedUp ==
    Quiescent =>
        \A p \in Monitored \ missed : disk[p] > Absent => backup[p] = disk[p]

(* A goroutine of scheduleBackup comes to its end, and with it its path leaves *)
(* inFlight, even if the file never settles or vanishes.                       *)
BackupsEnd == \A p \in Paths : p \in inFlight ~> p \notin inFlight

Stored == {job[j].path : j \in {k \in Jobs : job[k].stage = "stored"}}

Serial == INSTANCE SerialBackup
    WITH Versions <- 1..MaxOps, busy <- inFlight \ Stored, ending <- inFlight \intersect Stored,
         stored <- backup

(* The scheduler implements SerialBackup: whatever events arrive while a path   *)
(* is backed up, its backups do not overlap.                                    *)
OneBackupAtATime == Serial!Spec
=============================================================================
