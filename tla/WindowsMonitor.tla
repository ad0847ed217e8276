--------------------------- MODULE WindowsMonitor ---------------------------
(***************************************************************************)
(* The Windows file monitor, agent/internal/monitor/file_monitor.go: a     *)
(* goroutine per watched directory reads change records, pairs the two     *)
(* halves of a rename, persists a row per path and sends events on one     *)
(* bounded channel.  Files, their changes and the records of the kernel    *)
(* are the environment.                                                    *)
(*                                                                         *)
(* Time is kept as ages: a rename waits with its age in seconds, up to one *)
(* more than renamePairTTL.                                                *)
(***************************************************************************)
EXTENDS Integers, Sequences, FiniteSets, FiniteSetsExt

CONSTANTS
    Paths,          \* full paths
    Dir,            \* Dir[p]: filepath.Dir(p)
    Below,          \* Below[p]: the paths below p, for a directory p
    Targets,        \* watched directories
    Watched,        \* Watched[t]: paths below t (the watch is recursive)
    renamePairTTL,
    eventQueueSize,
    maxRetries,     \* consecutive read errors that stop a watcher
    MaxOps,         \* bound on versions: the first is of the files at the start, then
                    \* each change of the file system makes one
    MaxFaults,      \* bound on lost records, database errors and read errors
    None

Actions == {"create", "modify", "delete", "rename", "move", "move_out"}

ASSUME MonitorAssumption ==
    /\ IsFiniteSet(Paths) /\ None \notin Paths \union Actions
    /\ Watched \in [Targets -> SUBSET Paths] /\ Below \in [Paths -> SUBSET Paths]
    /\ renamePairTTL \in Nat /\ eventQueueSize \in Nat \ {0} /\ maxRetries \in Nat \ {0}
    /\ MaxOps \in Nat \ {0} /\ MaxFaults \in Nat

VARIABLES
    disk,        \* disk[p]: version of the file p, Absent or Directory
    ops,         \* the latest version
    records,     \* records[t]: what the kernel has for t's next reads
    watcher,     \* watcher[t]: the goroutine streamDirectory
    retryCount,
    renameQueue, \* renameQueue[t]: old names waiting for their new one, with ages
    row,         \* row[p]: last_action of the MonitoredFile of p
    out,         \* the channel of events
    faults,
    shaken,      \* history: after lost records, seconds that t must yet go without
                 \* queueing an old name for its pairs to be right again
    unrecorded,  \* history: some record or row was lost
    silent,      \* history: paths that existed at the start, or came or went with the
                 \* directory above them, and have had no record since
    missed       \* history: paths with a change no backup will contain

envVars == <<disk, ops, faults>>
monVars == <<records, watcher, retryCount, renameQueue, row, out>>
hisVars == <<shaken, unrecorded, silent, missed>>
monitorVars == <<envVars, monVars, hisVars>>

-----------------------------------------------------------------------------
Absent    == 0
Directory == -1

Event   == [action : Actions, path : Paths, old : Paths \union {None}]
Record  == [action : {"added", "removed", "modified", "renamedOld", "renamedNew", "none"},
            path : Paths \union {None}, from : Paths \union {None}]

MonitorTypeOK ==
    /\ disk \in [Paths -> {Absent, Directory} \union (1..MaxOps)]
    /\ ops \in 1..MaxOps /\ faults \in 0..MaxFaults
    /\ \A t \in Targets :
          /\ records[t] \in Seq(Record)
          /\ renameQueue[t] \in Seq([path : Paths, age : 0..(renamePairTTL + 1)])
    /\ watcher \in [Targets -> {"running", "stopped"}]
    /\ retryCount \in [Targets -> 0..maxRetries]
    /\ row \in [Paths -> Actions \union {None}]
    /\ out \in Seq(Event) /\ Len(out) <= eventQueueSize
    /\ shaken \in [Targets -> 0..(renamePairTTL + 1)]
    /\ unrecorded \in BOOLEAN
    /\ silent \in SUBSET Paths /\ missed \in SUBSET Paths

\* Only directories have something below them.
IsTree(d) == \A p \in Paths : \A r \in Below[p] : d[r] # Absent => d[p] = Directory

\* The first start: the directories hold what they hold, and nothing has a row.
MonitorInit ==
    /\ disk \in [Paths -> {Absent, Directory, 1}] /\ IsTree(disk)
    /\ ops = 1 /\ faults = 0
    /\ records = [t \in Targets |-> <<>>]
    /\ watcher = [t \in Targets |-> "running"]
    /\ retryCount = [t \in Targets |-> 0]
    /\ renameQueue = [t \in Targets |-> <<>>]
    /\ row = [p \in Paths |-> None]
    /\ out = <<>>
    /\ shaken = [t \in Targets |-> 0]
    /\ unrecorded = FALSE
    /\ silent = {p \in Paths : disk[p] # Absent} /\ missed = silent

-----------------------------------------------------------------------------
(* The file system, and the records ReadDirectoryChangesW has of it.        *)

\* from is what the kernel knows and the record does not say: the old name of
\* a renamedNew.
Rec(a, p, q) == [action |-> a, path |-> p, from |-> q]

\* A read that returns nothing.
NoBytes == Rec("none", None, None)

\* The paths that some target watches.
Monitored == UNION {Watched[t] : t \in Targets}

PathsOf(rs) == {rs[i].path : i \in DOMAIN rs} \ {None}

\* A change of the touched paths, of which seen[t] are t's records, reaches the
\* targets that still watch; if none of a path does, nobody sees it.  What else
\* the change moves has no records.
Changes(seen, touched) ==
    /\ IsTree(disk')
    /\ ops < MaxOps
    /\ ops' = ops + 1
    /\ records' = [t \in Targets |-> IF watcher[t] = "running"
                                     THEN records[t] \o seen[t] ELSE records[t]]
    /\ LET unseen == {p \in touched \intersect Monitored :
                          \A t \in Targets : p \in Watched[t] => watcher[t] = "stopped"}
           moved  == {p \in Paths \ touched : disk'[p] # disk[p]}
       IN  /\ unrecorded' = (unrecorded \/ unseen # {})
           /\ silent' = (silent \ touched) \union moved
           /\ missed' = missed \union unseen \union moved
    /\ UNCHANGED <<faults, watcher, retryCount, renameQueue, row, out, shaken>>

\* Creating a file or a directory, writing a file, removing either.
Change(p, a) ==
    /\ \/ a = "added" /\ disk[p] = Absent /\ disk' \in {[disk EXCEPT ![p] = k] : k \in {Directory, ops + 1}}
       \/ a = "modified" /\ disk[p] > Absent /\ disk' = [disk EXCEPT ![p] = ops + 1]
       \/ a = "removed" /\ disk[p] # Absent /\ disk' = [disk EXCEPT ![p] = Absent]
    /\ Changes([t \in Targets |-> IF p \in Watched[t] THEN <<Rec(a, p, None)>> ELSE <<>>], {p})

\* A rename or a move.  What is below a directory goes with it, without records
\* of its own: nothing is left below p, and below q is what has arrived (Paths
\* need not name all that p held).  A target that watches one end only sees a
\* removal or a creation.
Rename(p, q) ==
    /\ disk[p] # Absent /\ disk[q] = Absent /\ p # q /\ q \notin Below[p]
    /\ \E arrived \in [Below[q] -> {Absent, Directory, ops + 1}] :
          disk' = [r \in Paths |-> IF r = q THEN disk[p]
                                   ELSE IF r \in {p} \union Below[p] THEN Absent
                                   ELSE IF r \in Below[q] THEN arrived[r] ELSE disk[r]]
    /\ LET seen == [t \in Targets |->
                  CASE {p, q} \subseteq Watched[t] -> <<Rec("renamedOld", p, None), Rec("renamedNew", q, p)>>
                    [] p \in Watched[t] /\ q \notin Watched[t] -> <<Rec("removed", p, None)>>
                    [] p \notin Watched[t] /\ q \in Watched[t] -> <<Rec("added", q, None)>>
                    [] OTHER -> <<>>]
       IN  Changes(seen, {p, q})

\* The kernel's buffer overflows: what it holds is lost, and the read that
\* would have returned it returns no bytes.
overflow(t) ==
    /\ faults < MaxFaults /\ watcher[t] = "running"
    /\ faults' = faults + 1
    /\ \E k \in 0..(Len(records[t]) - 1) :
          /\ records' = [records EXCEPT ![t] = Append(SubSeq(@, 1, k), NoBytes)]
          /\ missed' = missed \union PathsOf(SubSeq(records[t], k + 1, Len(records[t])))
    /\ unrecorded' = TRUE
    /\ UNCHANGED <<disk, ops, watcher, retryCount, renameQueue, row, out, shaken, silent>>

Capped(n) == IF n > renamePairTTL THEN n ELSE n + 1

\* A second passes; BackupScheduler says what else ages.
MonitorAges ==
    /\ renameQueue' = [t \in Targets |->
          [i \in DOMAIN renameQueue[t] |-> [renameQueue[t][i] EXCEPT !.age = Capped(@)]]]
    /\ shaken' = [t \in Targets |-> IF shaken[t] = 0 THEN 0 ELSE shaken[t] - 1]
    /\ UNCHANGED <<envVars, records, watcher, retryCount, row, out, unrecorded, silent, missed>>

-----------------------------------------------------------------------------
(* The goroutine of a target.                                              *)

Evt(a, p, q) == [action |-> a, path |-> p, old |-> q]

\* Mutant: a waiting rename never expires.
Expired_never(q) == 0

\* flushExpiredRenames: ages fall along the queue, so the expired old names are
\* a prefix of it.
Expired(q) == Cardinality({i \in DOMAIN q : q[i].age > renamePairTTL})

flushed(q) == [i \in 1..Expired(q) |-> Evt("move_out", q[i].path, q[i].path)]

kept(q) == SubSeq(q, Expired(q) + 1, Len(q))

\* dispatchAction for every record but the halves of a rename.  (Records of
\* streams and unknown ones count as modified.)
PlainEvent(r) ==
    Evt(CASE r.action = "added" -> "create" [] r.action = "removed" -> "delete"
          [] r.action = "modified" -> "modify", r.path, None)

\* A new name takes the oldest old name that waits.
RenameEvent(r, q) ==
    IF q = <<>> THEN Evt("create", r.path, None)
    ELSE Evt(IF Dir[Head(q).path] = Dir[r.path] THEN "rename" ELSE "move", r.path, Head(q).path)

\* Mutant: the row of the old name is not updated.
RowOf_new_only(p, evts) ==
    LET S == {i \in DOMAIN evts : evts[i].path = p}
    IN  IF S = {} THEN row[p] ELSE evts[Max(S)].action

\* persistMonitoredFile and persistOldPath for events in order; change_pending
\* is shouldMarkPending of the last action.
RowOf(p, evts) ==
    LET S == {i \in DOMAIN evts : p \in {evts[i].path, evts[i].old}}
    IN  IF S = {} THEN row[p]
        ELSE IF evts[Max(S)].path = p THEN evts[Max(S)].action ELSE "move_out"

ChangePending(p) == row[p] \in {"create", "modify", "rename", "move"}

Smaller(a, b) == IF a < b THEN a ELSE b

\* Mutant: the send waits for room instead of dropping.
Fits_all(evts) == Len(evts)

\* How many of the events are in the channel after the sends.
Fits(evts) == Smaller(Len(evts), eventQueueSize)

\* emitEvent for events in order: the row first, which the database may refuse;
\* then the channel, which takes what fits.
emitEvent(evts) ==
    LET all == out \o evts
        n   == Fits(all)
    IN  /\ \/ /\ row' = [p \in Paths |-> RowOf(p, evts)]
              /\ UNCHANGED <<faults, unrecorded>>
           \/ /\ evts # <<>> /\ faults < MaxFaults
              /\ faults' = faults + 1
              /\ unrecorded' = TRUE
              /\ UNCHANGED row
        /\ out' = SubSeq(all, 1, n)
        /\ missed' = missed \union {all[i].path : i \in (n + 1)..Len(all)}

\* One record: flushExpiredRenames, then dispatchAction.
dispatchAction(t) ==
    /\ watcher[t] = "running"
    /\ records[t] # <<>> /\ Head(records[t]) # NoBytes
    /\ LET r == Head(records[t])
           q == kept(renameQueue[t])
       IN  CASE r.action = "renamedOld" ->
                  /\ emitEvent(flushed(renameQueue[t]))
                  /\ renameQueue' = [renameQueue EXCEPT ![t] = Append(q, [path |-> r.path, age |-> 0])]
             [] r.action = "renamedNew" ->
                  /\ emitEvent(Append(flushed(renameQueue[t]), RenameEvent(r, q)))
                  /\ renameQueue' = [renameQueue EXCEPT ![t] = IF q = <<>> THEN q ELSE Tail(q)]
             [] OTHER ->
                  /\ emitEvent(Append(flushed(renameQueue[t]), PlainEvent(r)))
                  /\ renameQueue' = [renameQueue EXCEPT ![t] = q]
    /\ records' = [records EXCEPT ![t] = Tail(@)]
    /\ retryCount' = [retryCount EXCEPT ![t] = 0]
    /\ shaken' = [shaken EXCEPT ![t] = IF @ > 0 /\ Head(records[t]).action = "renamedOld"
                                       THEN renamePairTTL + 1 ELSE @]
    /\ UNCHANGED <<disk, ops, watcher, silent>>

\* bytesRead is 0: the loop goes on.
read_nothing(t) ==
    /\ watcher[t] = "running"
    /\ records[t] # <<>> /\ Head(records[t]) = NoBytes
    /\ records' = [records EXCEPT ![t] = Tail(@)]
    /\ retryCount' = [retryCount EXCEPT ![t] = 0]
    /\ shaken' = [shaken EXCEPT ![t] = renamePairTTL + 1]
    /\ UNCHANGED <<envVars, watcher, renameQueue, row, out, unrecorded, silent, missed>>

\* ReadDirectoryChanges fails: the goroutine sleeps and tries again, and ends
\* after maxRetries failures in a row or on a terminal error.
read_fails(t) ==
    /\ watcher[t] = "running"
    /\ faults < MaxFaults
    /\ faults' = faults + 1
    /\ retryCount' = [retryCount EXCEPT ![t] = @ + 1]
    /\ \E terminal \in BOOLEAN :
          IF terminal \/ retryCount[t] + 1 >= maxRetries
          THEN /\ watcher' = [watcher EXCEPT ![t] = "stopped"]
               /\ records' = [records EXCEPT ![t] = <<>>]
               /\ unrecorded' = (unrecorded \/ records[t] # <<>> \/ renameQueue[t] # <<>>)
               /\ missed' = missed \union PathsOf(records[t])
          ELSE UNCHANGED <<watcher, records, unrecorded, missed>>
    /\ UNCHANGED <<disk, ops, renameQueue, row, out, shaken, silent>>

MonitorNext ==
    \/ \E p \in Paths : \/ \E a \in {"added", "modified", "removed"} : Change(p, a)
                        \/ \E q \in Paths : Rename(p, q)
    \/ \E t \in Targets : overflow(t) \/ dispatchAction(t) \/ read_nothing(t) \/ read_fails(t)

-----------------------------------------------------------------------------
Drained == \A t \in Targets : records[t] = <<>>

(* A rename event joins the two names of one rename.  Records the kernel lost *)
(* can leave an old name without its new one, and from then on each new name  *)
(* is joined with an older rename's old name; but once a watcher has queued   *)
(* no old name for renamePairTTL, its pairs are right again.                  *)
RenamesPairRight ==
    \A t \in Targets :
        LET q == kept(renameQueue[t])
        IN  (/\ records[t] # <<>> /\ Head(records[t]).action = "renamedNew"
             /\ shaken[t] = 0 /\ q # <<>>) => Head(q).path = Head(records[t]).from

(* When every record has been read and none lost, a path's row has            *)
(* change_pending exactly if the path exists, however the goroutines of       *)
(* directories inside each other interleave.  Of a file that was there at the *)
(* start, or moved with a directory above it, this holds from its next record *)
(* on.                                                                        *)
RowsFollowDisk ==
    Drained /\ ~unrecorded =>
        \A p \in Monitored \ silent : ChangePending(p) <=> disk[p] # Absent

=============================================================================
