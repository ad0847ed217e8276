---------------------------- MODULE FileTreeSync ----------------------------
(***************************************************************************)
(* The file tree that the backend keeps of an agent's monitored directory. *)
(* The agent's inotify monitor (monitor/file_monitor_linux.go) records     *)
(* every event in the local table of MonitoredFile rows; the sync loop     *)
(* (service/filetree_sync.go) reports rows to the backend, whose           *)
(* FileTreeService and repository keep soft-deletable items.               *)
(*                                                                         *)
(* One device.  A path is the sequence of its segments below the monitored *)
(* root <<>>.  Time is the number of events handled so far: only the order *)
(* of last_event_at and last_backup_at matters to the code.                *)
(***************************************************************************)
EXTENDS Naturals, Sequences, Functions, FiniteSets, Subsequence

CONSTANTS
    Paths,      \* paths below the root
    Dirs,       \* the ones that are directories when they exist
    Limit,      \* rows per sync (256)
    MaxOps,     \* bound on what the user does to the disk
    MaxWire,    \* sync frames that fit in the connection
    MaxFaults   \* bound on failures: stat, send, a missing token, either database

Parent(p) == SubSeq(p, 1, Len(p) - 1)
Above(p)  == {SubSeq(p, 1, n) : n \in 1..(Len(p) - 1)}

ASSUME TreeAssumption ==
    /\ Dirs \subseteq Paths
    /\ \A p \in Paths : p \in Seq(Range(p)) /\ Len(p) > 0 /\ Above(p) \subseteq Dirs
    /\ IsFiniteSet(Paths)
    /\ Limit \in Nat \ {0} /\ MaxWire \in Nat \ {0} /\ MaxOps \in Nat
    /\ MaxFaults \in Nat

VARIABLES
    ops,        \* number of changes made to the disk
    present,    \* the paths that exist on the disk
    removed,    \* history: paths that have been removed or renamed away
    missed,     \* history: paths with a change that caused no event or no row
    watches,    \* kernel: directories with an inotify watch
    events,     \* inotify queue of <<action, path>>
    watchedDir, \* FileMonitor.watchedDir
    clock,      \* events handled so far
    rows,       \* MonitoredFile: path -> row
    sync,       \* where syncFileTreeOnce is
    batch,      \* the rows its query returned
    changes,    \* the changes it has built
    made,       \* number of uniqueIDs made so far
    unstored,   \* history: ids that could not be stored in their row
    wire,       \* filetree_sync frames between agent and backend
    items,      \* backend: ids of Item rows, soft-deleted ones included
    live,       \* backend: ids with deleted_at NULL
    dropped,    \* history: a frame was not applied completely
    skipped,    \* history: paths whose stat() failed in a sync
    byPath,     \* history: paths deleted by the fallback of a failed delete
    faults      \* number of failures so far

diskVars == <<ops, present, removed, missed>>
monVars  == <<watchedDir, clock>>
syncVars == <<sync, batch, changes, skipped, made, unstored>>
treeVars == <<items, live, dropped, byPath>>
vars == <<diskVars, watches, events, monVars, rows, syncVars, wire, treeVars, faults>>

-----------------------------------------------------------------------------
Actions == {"create", "modify", "delete", "move_out"}
Gone    == {"delete", "move_out"}

\* item and backup are 0 while the column is empty.
Row == [action : Actions, at : Nat, backup : Nat, pending : BOOLEAN, item : Nat]
NoRow == [action |-> "none"]
Selected == [path : Paths, row : Row]

\* Ids: <<p, 0>> is deterministicID of the segments p, which the backend gives
\* to folders; <<p, n>>, n > 0, is the uniqueID an agent made for a row.
Ids == Paths \X Nat
FolderId(p) == <<p, 0>>

\* One more failure of the environment.
Fault == faults < MaxFaults /\ faults' = faults + 1

Change == [id : Ids, isDir : BOOLEAN, deleted : BOOLEAN]
NoChange == [id |-> <<>>]

TypeOK ==
    /\ ops \in 0..MaxOps
    /\ present \subseteq Paths /\ removed \subseteq Paths /\ missed \subseteq Paths
    /\ watches \subseteq Dirs /\ watchedDir \subseteq Dirs
    /\ events \in Seq(Actions \X Paths)
    /\ clock \in Nat
    /\ rows \in [Paths -> Row \union {NoRow}]
    /\ sync \in {"idle", "build", "clear"}
    /\ batch \in Seq(Selected) /\ Len(batch) <= Limit
    /\ changes \in Seq(Change \union {NoChange}) /\ Len(changes) <= Len(batch)
    /\ made \in Nat /\ unstored \subseteq Ids
    /\ wire \in Seq(Seq(Change) \ {<<>>}) /\ Len(wire) <= MaxWire
    /\ items \subseteq Ids /\ live \subseteq items
    /\ dropped \in BOOLEAN
    /\ skipped \subseteq Paths /\ byPath \subseteq Paths
    /\ faults \in 0..MaxFaults

Init ==
    /\ ops = 0 /\ present = {} /\ removed = {} /\ missed = {}
    /\ watches = {} /\ watchedDir = {}
    /\ events = <<>>
    /\ clock = 0
    /\ rows = [p \in Paths |-> NoRow]
    /\ sync = "idle" /\ batch = <<>> /\ changes = <<>>
    /\ wire = <<>>
    /\ items = {} /\ live = {} /\ dropped = FALSE
    /\ skipped = {} /\ byPath = {} /\ faults = 0
    /\ made = 0 /\ unstored = {}

-----------------------------------------------------------------------------
(* The user and the kernel.  A change is seen by the monitor if the parent *)
(* directory has a watch; the root always has.                             *)
Seen(p) == Parent(p) = <<>> \/ Parent(p) \in watches

Below(p) == {q \in Paths : p \in Above(q)}

\* A change of p that leaves the paths in after; other paths that vanish with
\* p cause no event of their own.
DiskOp(action, p, after) ==
    /\ ops < MaxOps
    /\ ops' = ops + 1
    /\ present' = after
    /\ removed' = removed \union (present \ after)
    /\ missed' = missed \union ((present \ after) \ {p}) \union (IF Seen(p) THEN {} ELSE {p})
    /\ events' = IF Seen(p) THEN Append(events, <<action, p>>) ELSE events
    /\ UNCHANGED <<monVars, rows, syncVars, wire, treeVars, faults>>

Make(p) ==
    /\ p \notin present /\ Above(p) \subseteq present
    /\ DiskOp("create", p, present \union {p})
    /\ UNCHANGED watches

Write(p) ==
    /\ p \in present \ Dirs
    /\ DiskOp("modify", p, present)
    /\ UNCHANGED watches

\* The kernel drops the watch of a removed directory.
Unlink(p) ==
    /\ p \in present /\ Below(p) \intersect present = {}
    /\ DiskOp("delete", p, present \ {p})
    /\ watches' = watches \ {p}

\* Renamed to a place outside the root, with everything below it.
MoveAway(p) ==
    /\ p \in present
    /\ DiskOp("move_out", p, present \ ({p} \union Below(p)))
    /\ watches' = watches \ ({p} \union Below(p))

-----------------------------------------------------------------------------
(* The monitor.                                                            *)
shouldMarkPending(action) == action \notin Gone

\* Mutant: a new event starts a new row.
persistMonitoredFile_fresh(p, action) ==
    rows' = [rows EXCEPT ![p] =
        [action |-> action, at |-> clock + 1, backup |-> 0,
         pending |-> shouldMarkPending(action), item |-> 0]]

\* Upsert by path; item_id and last_backup_at of an existing row stay.
persistMonitoredFile(p, action) ==
    rows' = [rows EXCEPT ![p] =
        [action |-> action, at |-> clock + 1,
         backup |-> IF rows[p] = NoRow THEN 0 ELSE rows[p].backup,
         pending |-> shouldMarkPending(action),
         item |-> IF rows[p] = NoRow THEN 0 ELSE rows[p].item]]

\* WalkDir from p; addWatch skips a directory that watchedDir already has.
watchRecursive(p) ==
    LET found == ({p} \union Below(p)) \intersect present \intersect Dirs
    IN  /\ watches' = watches \union (found \ watchedDir)
        /\ watchedDir' = watchedDir \union found

removeWatch(p) ==
    /\ watches' = watches \ ({p} \intersect watchedDir)
    /\ watchedDir' = watchedDir \ {p}

\* A row that the database refuses is only logged.
persist_fails(p) ==
    /\ Fault
    /\ missed' = missed \union {p}
    /\ UNCHANGED rows

handleEvent ==
    /\ events # <<>>
    /\ LET action == Head(events)[1]
           p      == Head(events)[2]
       IN  /\ \/ persistMonitoredFile(p, action) /\ UNCHANGED <<missed, faults>>
              \/ persist_fails(p)
           /\ \/ action = "create" /\ watchRecursive(p)
              \/ action = "modify" /\ UNCHANGED <<watches, watchedDir>>
              \/ action \in Gone /\ removeWatch(p)
    /\ events' = Tail(events)
    /\ clock' = clock + 1
    /\ UNCHANGED <<ops, present, removed, syncVars, wire, treeVars>>

\* The end of backupFile: UPDATE ... SET last_backup_at = now WHERE path = p.
backed_up(p) ==
    /\ p \notin Dirs /\ rows[p] # NoRow
    /\ rows[p].backup # clock
    /\ rows' = [rows EXCEPT ![p].backup = clock]
    /\ UNCHANGED <<diskVars, watches, events, monVars, syncVars, wire, treeVars, faults>>

-----------------------------------------------------------------------------
(* syncFileTreeOnce.                                                       *)
\* Mutant: deletions are selected by change_pending and backup time only.
NeedsSync_no_deletes(p) ==
    /\ rows[p] # NoRow
    /\ rows[p].pending \/ (rows[p].action \notin Gone /\ rows[p].backup < rows[p].at)

NeedsSync(p) ==
    /\ rows[p] # NoRow
    /\ rows[p].pending \/ rows[p].backup < rows[p].at \/ rows[p].action \in Gone

\* ORDER BY last_event_at ASC LIMIT Limit: the oldest rows, in an order that
\* the times allow.
Oldest(found) ==
    LET size == IF Cardinality(found) < Limit THEN Cardinality(found) ELSE Limit
    IN  {q \in [1..size -> found] :
            /\ \A i, j \in 1..size : i < j => q[i] # q[j] /\ rows[q[i]].at <= rows[q[j]].at
            /\ \A p \in found \ Range(q), i \in 1..size : rows[q[i]].at <= rows[p].at}

sync_query ==
    LET found == {p \in Paths : NeedsSync(p)}
    IN  /\ sync = "idle"
        /\ found # {}
        /\ \E taken \in Oldest(found) :
              batch' = [i \in DOMAIN taken |-> [path |-> taken[i], row |-> rows[taken[i]]]]
        /\ changes' = <<>>
        /\ sync' = "build"
        /\ UNCHANGED <<diskVars, watches, events, monVars, rows, skipped, made, unstored, wire,
                       treeVars, faults>>

\* Mutant: a directory is reported under the backend's own id of the folder.
ItemIDFor_folders(r) ==
    IF r.path \in Dirs THEN 0
    ELSE IF r.row.item # 0 THEN r.row.item ELSE made + 1

\* The row's item_id, or a uniqueID: no other call, not even for the same row,
\* has made it, since it depends on the time of the call.
ItemIDFor(r) == IF r.row.item # 0 THEN r.row.item ELSE made + 1

\* A new id is stored in the row; if that fails it is used all the same.
store_item_id(r) ==
    \/ /\ r.row.item # 0
       /\ UNCHANGED <<rows, made, unstored, faults>>
    \/ /\ r.row.item = 0
       /\ made' = made + 1
       /\ rows' = [rows EXCEPT ![r.path].item = ItemIDFor(r)]
       /\ UNCHANGED <<unstored, faults>>
    \/ /\ r.row.item = 0
       /\ Fault
       /\ made' = made + 1
       /\ unstored' = unstored \union {<<r.path, ItemIDFor(r)>>}
       /\ UNCHANGED rows

\* One turn of the loop: stat, item id, change.  The row is the one the query
\* read, the stat is of now.
sync_build ==
    /\ sync = "build"
    /\ Len(changes) < Len(batch)
    /\ LET r == batch[Len(changes) + 1]
           here == r.path \in present
       IN  /\ store_item_id(r)
           /\ changes' = Append(changes,
                 [id |-> <<r.path, ItemIDFor(r)>>,
                  isDir |-> here /\ r.path \in Dirs,
                  deleted |-> ~here /\ r.row.action \in Gone])
    /\ UNCHANGED <<diskVars, watches, events, monVars, sync, batch, skipped, wire, treeVars>>

\* stat() fails, not because the file is missing: the row is passed over.
stat_fails ==
    /\ Fault
    /\ sync = "build"
    /\ Len(changes) < Len(batch)
    /\ changes' = Append(changes, NoChange)
    /\ skipped' = skipped \union {batch[Len(changes) + 1].path}
    /\ UNCHANGED <<diskVars, watches, events, monVars, rows, sync, batch, made, unstored, wire, treeVars>>

Built == sync = "build" /\ Len(changes) = Len(batch)

\* Mutant: a row that was passed over is sent as an empty change.
Frame_unfiltered == changes

Frame == Subsequence(changes, Range(changes) \ {NoChange})

\* Send returned nil.
sync_send ==
    /\ Built
    /\ Frame # <<>>
    /\ Len(wire) < MaxWire
    /\ wire' = Append(wire, Frame)
    /\ sync' = "clear"
    /\ UNCHANGED <<diskVars, watches, events, monVars, rows, batch, changes, skipped, made, unstored,
                   treeVars, faults>>

\* syncFileTreeOnce returns and its locals are gone.
sync_return ==
    /\ sync' = "idle" /\ batch' = <<>> /\ changes' = <<>>
    /\ UNCHANGED <<skipped, made, unstored>>

\* Send failed, or there is nothing to send: the rows stay as they are until
\* the next tick.
sync_fails ==
    /\ Built
    /\ \/ Frame = <<>> /\ UNCHANGED faults
       \/ Frame # <<>> /\ Fault
    /\ sync_return
    /\ UNCHANGED <<diskVars, watches, events, monVars, rows, wire, treeVars>>

InBatch(p) == \E r \in Range(batch) : r.path = p

\* Mutant: change_pending is cleared in every row.
sync_clear_all ==
    /\ sync = "clear"
    /\ rows' = [p \in Paths |-> IF rows[p] # NoRow
                                THEN [rows[p] EXCEPT !.pending = FALSE] ELSE rows[p]]
    /\ sync_return
    /\ UNCHANGED <<diskVars, watches, events, monVars, wire, treeVars, faults>>

\* change_pending is cleared in every row of the query, reported or not.  The
\* database may refuse: the rows are selected again.
sync_clear ==
    /\ sync = "clear"
    /\ \/ /\ rows' = [p \in Paths |-> IF InBatch(p) THEN [rows[p] EXCEPT !.pending = FALSE]
                                      ELSE rows[p]]
          /\ UNCHANGED faults
       \/ Fault /\ UNCHANGED rows
    /\ sync_return
    /\ UNCHANGED <<diskVars, watches, events, monVars, wire, treeVars>>

-----------------------------------------------------------------------------
(* The backend: handleFileTreeSync runs ApplyChanges on the frame, change  *)
(* by change and with no transaction around them.                          *)
HeadChange == Head(Head(wire))

\* The rest of the frame is still to be applied.
NextChange ==
    wire' = IF Len(Head(wire)) = 1 THEN Tail(wire)
            ELSE <<Tail(Head(wire))>> \o Tail(wire)

agentUnchanged == UNCHANGED <<diskVars, watches, events, monVars, rows, syncVars>>

\* UpsertItem leaves deleted_at of an existing row alone.
UpsertItems(ids) ==
    /\ items' = items \union ids
    /\ live' = live \union (ids \ items)

\* The folders above, then the folder (under its own id) or the file.
upsertPath ==
    /\ wire # <<>> /\ ~HeadChange.deleted
    /\ LET p == HeadChange.id[1]
       IN  UpsertItems({FolderId(q) : q \in Above(p)}
                       \union {IF HeadChange.isDir THEN FolderId(p) ELSE HeadChange.id})
    /\ NextChange
    /\ UNCHANGED <<dropped, byPath, faults>> /\ agentUnchanged

\* An id that is not listed is no error.
DeleteItem ==
    /\ wire # <<>> /\ HeadChange.deleted
    /\ live' = live \ {HeadChange.id}
    /\ NextChange
    /\ UNCHANGED <<items, dropped, byPath, faults>> /\ agentUnchanged

\* DeleteItem fails in the database: the folder of that path goes, or without
\* one a file with that path.
DeleteItemByLogicalPath ==
    /\ Fault
    /\ wire # <<>> /\ HeadChange.deleted
    /\ LET p == HeadChange.id[1]
           files == {id \in live : id[1] = p}
       IN  /\ \/ FolderId(p) \in live /\ live' = live \ {FolderId(p)}
              \/ FolderId(p) \notin live /\ files = {} /\ UNCHANGED live
              \/ FolderId(p) \notin live /\ \E id \in files : live' = live \ {id}
           /\ byPath' = byPath \union {p}
    /\ NextChange
    /\ UNCHANGED <<items, dropped>> /\ agentUnchanged

\* The device is not authorized or a statement fails: the rest of the frame is
\* lost.  An upsert may have written the first n folders of its path.
ApplyChanges_fails(n) ==
    /\ Fault
    /\ wire # <<>>
    /\ IF HeadChange.deleted THEN n = 0 /\ UNCHANGED <<items, live>>
       ELSE /\ n < Len(HeadChange.id[1])
            /\ UpsertItems({FolderId(q) : q \in {x \in Above(HeadChange.id[1]) : Len(x) <= n}})
    /\ wire' = Tail(wire)
    /\ dropped' = TRUE
    /\ UNCHANGED byPath /\ agentUnchanged

-----------------------------------------------------------------------------
User == \E p \in Paths : Make(p) \/ Write(p) \/ Unlink(p) \/ MoveAway(p)

ApplyChanges == upsertPath \/ DeleteItem

handleFileTreeSync ==
    \/ ApplyChanges
    \/ DeleteItemByLogicalPath
    \/ \E p \in Paths : ApplyChanges_fails(Len(p) - 1)

Sync == sync_query \/ sync_build \/ stat_fails \/ sync_send \/ sync_fails \/ sync_clear

Next ==
    \/ User
    \/ handleEvent
    \/ \E p \in Paths : backed_up(p)
    \/ Sync
    \/ handleFileTreeSync

Spec == Init /\ [][Next]_vars

\* The monitor's goroutine and the sync ticker run, and the backend reads its
\* socket.
FairSpec == Spec /\ WF_vars(handleEvent) /\ WF_vars(Sync) /\ WF_vars(handleFileTreeSync)

-----------------------------------------------------------------------------
FileIdsOf(p) == {id \in live : id[1] = p /\ id[2] > 0}

(* Every item that the backend lists hangs in a complete chain of listed     *)
(* folders, so that a browser of the tree can reach it, whatever frames are   *)
(* lost or applied in part and whatever directories come and go; except under *)
(* a folder that the fallback of a failed delete took away.                   *)
NoOrphans ==
    \A id \in live : \A q \in Above(id[1]) \ byPath : FolderId(q) \in live

(* The backend lists at most one file per path, although the agent makes up   *)
(* the ids and repeats its reports: apart from ids that could not be stored   *)
(* in their row, however often and in whatever parts frames are applied.      *)
OneItemPerFile ==
    \A p \in Paths : Cardinality(FileIdsOf(p) \ unstored) <= 1

(* A file that was never removed and that the sync loop no longer selects is   *)
(* known to the backend: clearing change_pending after a sync never covers a   *)
(* file that was not in the frame, however events, backups and the steps of    *)
(* the sync interleave.  (Unless a sync failed to stat the file.)              *)
SyncedReachedBackend ==
    \A p \in Paths \ (Dirs \union removed \union skipped) :
        /\ rows[p] # NoRow /\ ~NeedsSync(p)
        /\ sync = "idle" /\ wire = <<>> /\ ~dropped
        => FileIdsOf(p) # {}

\* The query's LIMIT leaves room for p: not enough older rows need a sync.
WithinLimit(p) ==
    rows[p] # NoRow =>
        Cardinality({q \in Paths : NeedsSync(q) /\ rows[q].at < rows[p].at}) < Limit

(* A file that is gone for good is no longer listed in the end, provided no   *)
(* change of it escaped the monitor, its id was stored, and fewer than Limit  *)
(* rows that are selected for ever (directories, deleted files) are older     *)
(* than its own: although frames can be refused or lost, the file can vanish  *)
(* between the query, the stat and its event, and stale frames arrive late.   *)
DeletedIsDelisted ==
    \A p \in Paths :
        <>[](p \notin present /\ p \notin missed /\ WithinLimit(p))
            => <>[](FileIdsOf(p) \subseteq unstored)

-----------------------------------------------------------------------------
(* filetree_sync.go: after Send the rows are "synced (tree state up-to-date)". *)
(* A file that the frame just applied reports as existing should be listed.    *)
ReportedIsListed ==
    \A c \in Range(changes) \ {NoChange} :
        sync = "clear" /\ wire = <<>> /\ ~dropped /\ ~c.deleted /\ ~c.isDir
        => c.id \in live

=============================================================================
