# Formal models of sagiri-guard

sagiri-guard consists of a backend, agents on the monitored machines and an
admin console. They talk over a small binary TCP protocol that is implemented in
C (`network/*.c`) and wrapped for Go (`network/*.go`). This directory holds TLA+
models of the parts whose correctness depends on order, failure or concurrency,
TLC configurations that check them on small instances, and TLAPS proofs.

Paths below are relative to the repository root.

## 1. Inventory

| Part | State it keeps | Operations | What is hard | Modelled in |
|---|---|---|---|---|
| Connection layer (`network/tcp_server.c`, `protocol_server.c`, `tcp_core.c`, `server.go`) | descriptors, one thread per connection, the list `g_devices` | accept, receive loop, login, clean-up, push to a device | threads share descriptor numbers that the kernel reuses; look-up and write are two steps; each socket is closed twice | `ProtocolServer` |
| Hub and controller (`backend/app/socket/hub.go`, `controllers/protocol_{controller,router,auth}.go`) | `Hub.byID`, `deviceTokens` | Register, Unregister, IsOnline, Send, token on login, removal on disconnect | a second table that must agree with the C registry; several connections use one device id | `ProtocolServer` |
| Wire framing (`network/protocol_message.c`, `client.go`) | none | send and receive frames | header and payload are two sends without a lock | as single steps |
| Command queue (`controllers/protocol_admin.go`, `retryPendingCommands`, `repo/agent_command_repo.go`) | table `agent_commands` | insert, send, mark, retry on login | races of an insert with a login, several writers of one row, crash between send and mark | `CommandQueue` |
| Backup upload (`agent/internal/backup`, `controllers/protocol_backup.go`, `services/backup_service.go`) | sessions, `.part` and final files, version rows | init, chunk, done, finalize | frames are dropped silently, offsets have 32 bits, names a resolution of one second, crashes between rename and insert | `BackupUpload`, `VersionHistory` |
| Download and restore (same files) | session, destination file | init, start, chunks | authorization of the transfer connection, the destination is opened first | `AgentCommands` |
| File tree, agent (`monitor/file_monitor_linux.go`, `service/filetree_sync.go`) | inotify watches, table of `MonitoredFile` | events, watches, periodic sync | rows are read, reported and cleared in separate steps while events arrive | `FileTreeSync` |
| File tree, backend (`services/filetree_service.go`, `repo/filetree_repo.go`) | items, soft-deleted ones included | upsert, delete | a batch is not a transaction; ids of folders are made in two places | `FileTreeSync` |
| Windows monitor (`monitor/file_monitor.go`) | a queue of half renames per directory, rows, a bounded channel | read records, pair renames, expire, persist, emit | a timeout against a late record, lost records, directories watched twice, moved directories | `WindowsMonitor` |
| Backup scheduler (`service/service.go`) | `enabled`, `inFlight`, `recent` | consume events, schedule, wait for a stable file, upload | events in the cool-down or during a backup are dropped; goroutines of one path must not overlap | `BackupScheduler`, `SerialBackup` |
| Website blocking (`firewall/hosts.go`) | domains, flag, a section of the hosts file | SetDomains, SetEnabled | the file is shared and truncated in place; kill between truncation and flush | `HostsFile` |
| Agent: connection manager, dispatcher, handlers (`connection/`, `command/`) | the connection, table of running streams | connect, receive, dispatch | a stream command replaces a running one; shutdown during a command | `AgentCommands` |
| Agent: start and login (`agent/main.go`, `internal/auth`, `internal/state`) | token file, `device.id`, device id in memory | load or prompt, register, 401 and second login, connect | the id has four sources, read at different times, and the backend keeps tokens of earlier ones | `AgentStart` |
| Admin console (`cmd/webui/ui`) | screens, one session, a receive loop, a file tree, a form | keys, requests, replies | requests run in goroutines; replies carry no request; an unbuffered channel; one page of a listing | `AdminConsole` |
| Users, JWT, devices, agent logs, content types, block rules, configuration | single tables or none | CRUD, parsing | nothing concurrent of their own | not modelled |

How they interact: agents keep one persistent connection (connection manager)
and open short-lived ones for single actions (`protocolclient.SendAction`) and
uploads. All of them log in with the same device id, so all of them enter the
registry, the hub and the token cache of the backend, and all of them remove
something when they end. The admin console sends `admin_send_command`; the
backend stores the command and pushes it through `Hub.Send`; the agent's receive
loop dispatches it. Monitor events cause backups (uploads) and rows that the sync
loop reports as `filetree_sync`.

The properties that make each part correct are the ones of section 4; the places
where they could fail are listed as hazards in `PROJECT.json`.

## 2. Modules

`CommandQueue` extends `ProtocolServer`; `BackupScheduler` extends
`WindowsMonitor`; `AgentCommands` extends `HostsFile` and `AgentStart`. Each pair
or triple runs as one specification. `BackupScheduler` instantiates the abstract
`SerialBackup`, `BackupUpload` the abstract `VersionHistory`. `MC...` modules hold the small instances, `..._proofs` the theorems.

### ProtocolServer

A worker thread is named by the connection it was created for. `pc` says where
it is: `loop` (before `recv`), `recv` (blocked on the socket that `client_fd`
named when it entered), `token` and `register` (inside `HandleMessage` for a
login), `remove`, `unregister`, `untoken` (clean-up: `registry_remove_fd`,
`Hub.Unregister`, deletion of the token), `close1`, `close2` (the two closes).
One action is one critical section or one system call. `registry`, `hub` and
`tokens` are the three tables. `latest` and `pushed` are history variables.

A frame of a client of this repository carries a device id only if it is a
`MSG_LOGIN`. `MaxLogins[c]` bounds the logins of a connection: an agent's client
sends one, the console two on one client (`cmd/webui/ui/login.go:137`,
`root.go:91`), and each enters the registry and the hub again. The sub-command
`login` (`handleLogin`) is used by connections in `AuthConns`.

`Hub.Send` is a look-up in the registry, a write, and on failure a look-up in the
hub and another write. A write reaches whatever connection the descriptor names
at that moment. Towards a peer that has closed it may succeed or fail.

`accept()` returns any number that is closed (`FreeFds`), also one whose last
worker is between its two closes; the second close then ends the new connection's
socket, and a third worker can get the number that the second one still uses.
The history variable `crossed` has the descriptors to which this has happened.
Workers that share a number may read one socket, and then each may take part of
the other's frame and fail. What holds in spite of this is stated for the
descriptors that are not in `crossed`; what fails is the finding of `ServerGhost`.

### CommandQueue

Adds the table, one admin handler per command and the retry goroutines
(`Retriers`; `who[r]` is the device that goroutine `r` works for), one per login,
repeated logins included. Each handler step is a database statement, a question
to `IsOnline`, or a step of `Hub.Send`, so handlers interleave with each other and
with all worker steps. `Register` of `ProtocolServer` becomes `login_registered`,
which also starts the goroutine. A crash clears everything except the table and
the history. The database is assumed not to fail: errors of `UpdateStatus` and
`MarkSent` are ignored by the code, and a failing `ListByDevice` would simply end
the retry of that login. The rows that `ListByDevice` returns are a `Subsequence`
of the table, in table order; `FileTreeSync` and `HostsFile` use the same operator
for the changes that a frame contains and for the foreign lines of a file. It is a
recursive function, so that `Subsequence_proofs` can say what it returns.

### BackupUpload, VersionHistory

One device, several uploads. The content of a stored file is a sequence of pieces
`<<upload, chunk>>`, with `Hole` for what was never written. The agent computes the
offset of a chunk in a `uint32` (`backup.go:119`): `Place(i)` is where chunk `i` is
written, which starts again at the front after `Wrap` chunks. Frames of an upload
arrive in order; the connection may break at any time, the backend may crash, the
token may disappear at any time (`HandleDisconnect` of another connection), chunks
may fail on the disk, the rename, the query for the number or the insert may fail.
Finalizing is three steps (`finalizing`): the rename, `number_version` (the query
for the highest number, kept in `nextVer`) and `record_version` (the insert). The
mutex of the service is held over all three, and only that makes the number still
right when the row is inserted. `lost` records the uploads that lost a frame, the
rename or the row on the backend's side.

`VersionHistory` is what somebody who restores a file relies on: per path a
sequence of versions that only grows at its end, each entered once and after its
file is in place. The mapping reads the rows of a path in the order of their
numbers (`HistoryOf`) and takes the names that have a final file.

### FileTreeSync

A path is a sequence of segments below the monitored root. The user makes,
writes, removes and renames away; a change causes an inotify event if the parent
directory has a watch at that time (`missed` records the others). `handleEvent`
persists the row, which may fail (`persist_fails`), and maintains watches. The
sync loop queries rows (with the limit), builds the changes one row at a time with
a `stat` of that moment, sends the frame and clears `change_pending` in all rows of
the query. The backend applies a frame change by change. Ids are pairs: `<<p, 0>>`
is the backend's `deterministicID` of a folder, `<<p, n>>` the `n`-th `uniqueID` the
agent made. The agent stores the id it made in the row before it sends it; if that
fails, it only logs the error and sends the id all the same, and the next sync
makes another (`unstored` has those ids). Failures (stat, send, missing token,
database on either side) are counted and bounded by `MaxFaults`. A failed
`DeleteItem` falls back to `DeleteItemByLogicalPath`, which may remove a folder
instead.

Not in this module: renames that stay inside the root (the Linux monitor sees
them as a rename and a create), the initial scan, restarts of the agent.

### WindowsMonitor, BackupScheduler, SerialBackup

`disk` and `ops` are the file system: a file's content is the number of the change
that wrote it. The monitor starts over any tree of files (version 1) of which it
has no rows. A rename moves everything `Below` the path with it, but the kernel
reports the renamed path only; `silent` has the paths that were there at the start
or came or went with a directory above them and have had no record since. A change appends records to `records[t]` of every watched directory
`t` whose goroutine still runs; the kernel may lose the records it holds
(`overflow`), a read may fail (`read_fails`, which stops the goroutine after
`maxRetries` failures or a terminal error). `dispatchAction` is one record of the
read loop: expired halves of renames become `move_out`, then the record is
dispatched; `emitEvent` stores the row, which may fail, and puts the event into
the channel if it has room. Time is kept as ages that `Tick` advances.

`consume` is the goroutine that ranges over the channel, `scheduleBackup` its call
with the checks of `enabled`, `recent` and `inFlight` under one mutex. A backup is
a goroutine of its own: `poll` and `deadline` (`waitForStableFile`), `backupFile`
up to the session, `upload_done` or `upload_fails`, and the deferred function,
which releases the path and starts the cool-down. `SetBackupEnabled` is the
`backup_auto` command. `missed` collects the paths whose last change is given up,
for whichever reason the code has, the files without a record among them.
`Monitored` are the paths below some watched
directory; nothing is claimed about the others.

`SerialBackup` says what this promises per path: a backup starts only when the
last has ended, and stores at most one version. The mapping takes `inFlight`,
split by whether the goroutine of the path has stored its version, and `backup`.

### HostsFile, AgentStart, AgentCommands

The hosts file is a sequence of lines: markers, foreign lines, blocked domains. A
method of `HostsManager` holds the mutex over four steps (read, copy, truncate,
flush) because other programs append to the file and the process can end in
between; `flush_fails` and `ProcessEnds` leave any prefix. `lost` (the foreign
lines that the code cannot keep: cut off, added between a read and its write, or
added behind a section without an end marker) and `failed` are history.

`AgentStart` follows `main` from the token to the connection: `tokenFile` and
`idFile` survive, `me` and `token` do not. A token is named by the device id it was
issued for; `issued` has the ids that a login was given a token for, `cached` those
whose token the backend still holds in `deviceTokens`. `device_register` is
accepted for any id with a cached token, as `protocol_router.go:88` checks nothing
else; an entry can disappear at any time (`token_dropped`) but need not, since
the connection of a login sends no `MSG_LOGIN`. osquery may give no UUID at any
time, and where there is no host name either, the id is one of `RandomIds`.

`AgentCommands` is the receive loop with the dispatcher and each handler, SIGTERM
with its deferred cleanup, kills and panics. The signal and `IsEnabled`, which
waits for the mutex of the hosts manager, are two steps. `active` is the table of running
streams. A restore goes from `PrepareDownload` to `DownloadFile`, which never gets
further than a 401, as described in section 6. A lost link stays lost, as
`receiveLoop` does not reconnect.

### AdminConsole

`RootModel.Update` handles one message of `inbox` at a time (`login_Update`,
`dashboard_Update`, `detail_Update`); commands returned by it wait in the bag
`cmds` and run in any order; replies of a connection are queued in order;
`receiveLoop` (`loop`) hands each message to one of `waiters`. `cur`, `parentMap`
and `shown` are the file tree of the detail screen, `form` the command form. A login
is two commands in a row in one goroutine: connect and `MSG_LOGIN` with the start
of the receive loop, then the login request; each can fail by itself. The backend
answers a listing with its first page, which is all of a directory or, if that is
larger, any `PageSize` of its nodes (`Listing` is the set of possible pages). A
reply carries, as knowledge of the model only, the device and directory it was
asked for. `astray` records that a key was pressed before the last listing had
arrived, or that a listing failed.

## 3. Bounds, fairness, symmetry

* `ServerGhost`: two connections of one device and one of another on two
  descriptors, the fewest for a number that two workers use. `ServerAuthorized`:
  two connections of one device; tokens are accepted or refused.
* `QueueSafety`: one command, two connections of one device, of which one logs in
  twice, on two descriptors, with two retry goroutines; no crash (the crash is in
  `QueueLiveness` and in the theorems). Descriptors and goroutines are
  interchangeable, hence the symmetry. `QueueLiveness`: one command, two
  connections on one descriptor, one goroutine, one crash, a connection that also
  uses `handleLogin`, without symmetry. Weak fairness of the accept thread, each
  worker, the retry goroutines and the admin handler: they are threads and
  goroutines that block only in `accept` and `recv`. Clients have no fairness; they
  may idle for ever. Tokens are accepted in both: a refused one changes `tokens`
  only, which no guard and none of these properties reads.
* `Upload`: two uploads of the same file, two clock values (so names may or may not
  collide), one crash. With `Wrap = 1` the upload of two chunks exceeds the offset
  and the one of a single chunk does not. Weak fairness of the agent's loop and of
  the backend's handlers.
* `Tree`: a directory and a file in it, five changes by the user, one failure
  anywhere, one frame under way, and one row per sync (`Limit = 1`), so that a
  directory's row, which is selected for ever, can starve the file's. Weak
  fairness of the monitor goroutine, the sync ticker and the backend. That
  failures are finitely many is an assumption of the liveness property.
* `Agent`: two domains, one foreign line, one command of every sort the dispatcher
  and the handlers tell apart, two of them received (`MaxCommands = 2`: one that
  leaves something behind and one that meets it), any number of starts,
  `MaxRetries = 2`. `RandomIds` is empty: a machine without UUID and host name is
  covered by the theorem. Weak fairness of the callers of the hosts manager, the
  handlers, `IsEnabled` and the end of `main`: goroutines whose steps are local file
  operations. Nobody owes a command or a signal.
* `Scheduler`: a file in a directory that is watched on its own as well, and
  another directory with a file in it; two changes after the start (`MaxOps = 3`
  counts version 1, what was there at the start), one fault, at most two of these
  three while a backup is possible (`MaxBusy`), a channel of one event (so
  that it is full), a cool-down and a rename expiry of one second, three looks at a
  file (the fewest after which it can be stable), two goroutines. Weak fairness of
  each backup goroutine: it sleeps with a deadline, and its sends return, since a
  broken connection fails them; this presumes a peer that answers, as the code
  sets no socket timeout.
* `Console`: two logins (so two connections), five events (keys that matter, logins
  and broken connections), two devices, two directories in a root that shows one
  node per page and a third inside one of them, forms with one and two fields.
  Weak fairness of the receive loop, the command goroutines and `Update`; nobody
  owes a key.
* `CHECK_DEADLOCK FALSE` everywhere: the numbers of connections, commands, uploads,
  changes and keys are finite, after which the system is idle.

## 4. Runs

| Run | Result | What it shows |
|---|---|---|
| `ServerGhost` | violated | `OnlineHasConnection`: after a double close has hit a new connection, a device stays in the registry although no connection of it is left |
| `ServerAuthorized` | violated | `LoginAuthorizesActions`: the login of a connection does not authorize its next frame if another connection of the device ends in between |
| `QueueSafety` | passes | `NoStrandedCommand`: no lost wake-up between insert and login. `OnlineOnlyIfServed`: registry and hub name only descriptors of workers that serve the device. `LatestLoginOnline`: an older connection's end cannot take the newer one's entry. `OwnSocketUntilClosed`: a worker loses its socket only to its own close. All four with accepts between two closes, for the descriptors they did not hit |
| `QueueLiveness` | passes | `QueueIsDurable`: a row becomes "sent" only by a successful write and never disappears, through a crash. `QueuedIsEventuallyPushed`: a queued command is written once its device has a lasting connection. `DepartedGoesOffline`: when all clients of a device have left, the backend reports it offline for good |
| `QueueSent` | violated | `SentReachedAgent`: commands pushed on a short-lived connection are marked sent and discarded |
| `Upload` | passes | `RecordedFilesExist`, `VersionNumbersDense`, `UploadEnds`. `UndisturbedIsIntact`: an undisturbed upload is stored as sent exactly if its offsets do not wrap. `StoreKeepsHistory`: refinement of `VersionHistory` |
| `UploadCollision` | violated | `VersionsKeepTheirFile`: two files of one base name in one second share their stored file |
| `Tree` | passes | `NoOrphans`: listed items have their folders listed. `OneItemPerFile`: a file is listed under one id. `SyncedReachedBackend`: a file whose row is no longer selected is listed. `DeletedIsDelisted`: a file removed for good disappears if the limit lets its row be selected |
| `TreeRecreated` | violated | `ReportedIsListed`: a file that is deleted and made again stays hidden |
| `Agent` | passes | `RunsUnderIssuedId`: the agent runs under an id, and with a token, that a login was given. `ForeignLinesKept`: foreign lines of the hosts file stay, in their order, through failing commands and kills. `BlockingAsOrdered`: the file blocks what the last command asked for, in one section. `BackupOffStaysOff`. `RestoreKeepsFile`: a failing restore leaves the user's file alone. `ShutdownEnds` |
| `Scheduler` | passes | `RenamesPairRight`: the halves of a rename are joined rightly, and again rightly some time after lost records. `RowsFollowDisk`: rows agree with the disk although nested directories are read by two goroutines, for paths that have had a record. `LastChangeBackedUp`: at rest the last change is backed up unless it had no record or was given up for a known reason. `BackupsEnd`. `OneBackupAtATime`: refinement of `SerialBackup` |
| `Console` | passes | `NeverDeaf`: a waiter for the next message survives every change of screens. `ListingIsCurrent`: the tree shows a page of the directory it says, and all of it if it fits. `ParentsAreTrue`: the way up leads through the true parents. `RepliesAreTaken`: no wait cycle over the channel |

The five violated properties are what a comment of the code says of it; the
findings in `PROJECT.json` quote the comments. Every property of a passing run has
a mutant (an operator with the comment "Mutant" before the definition it
changes) that breaks it.

Limits of the passing properties, stated in them:

* `OnlineOnlyIfServed`, `LatestLoginOnline`, `OwnSocketUntilClosed` and
  `NoStrandedCommand` leave out the descriptors that `accept()` took between two
  closes, whose entries are indeed wrong (`ServerGhost`).
* `UndisturbedIsIntact` speaks of uploads that lost nothing on the backend's side;
  an upload that lost a chunk for want of a token is recorded like any other,
  because nobody tells the agent.
* `NoOrphans` excludes what lies under a folder removed by the fallback of a failed
  delete; `OneItemPerFile` the ids that were sent without having been stored;
  `SyncedReachedBackend` paths whose `stat` failed, since their rows are cleared
  without having been reported, and frames applied in part; `DeletedIsDelisted`
  changes that caused no event, unstored ids, and rows that older rows keep out
  of the limit for ever.
* `ForeignLinesKept` excludes single lines: those that a write cut short did not
  reach, those added between a read and its write, and those added behind a
  section without its end marker. It goes on for all others.
* `BlockingAsOrdered` speaks of a process that is up and of commands without
  errors; `BackupOffStaysOff` of one process.
* `LastChangeBackedUp` excludes what the code drops by design: switched off,
  cool-down, in flight, full channel, failed backup, no record.
* `ListingIsCurrent` and `ParentsAreTrue` exclude keys pressed ahead of a listing;
  `RepliesAreTaken` speaks of the connection the receive loop reads.

## 5. Proofs

`ProtocolServer_proofs`, for every number of connections, descriptors, devices,
threads and messages (assumption `ConstantsAssumption`):

* `TypeCorrect`: `Spec => []TypeOK`. `TypeOK` alone is not inductive: a worker indexes
  `fdTable` by `fd`, `registry` by `last`, `peer` by `src`. `Pointers` says that these
  are real values exactly where they are used; `TypeInv` is the conjunction.
* `NoGhosts` (`[]OnlineOnlyIfServed`), `LatestLoginWins` (`[]LatestLoginOnline`),
  `OwnClosesOnly` (`[]OwnSocketUntilClosed`) and `StrayWritesAreUnlisted`
  (`StrayWriteIsUnlisted`: in the gap between look-up and write of `Hub.Send`, a frame
  reaches another device's connection only after registry and hub have dropped
  the entry). Nothing is assumed of the time between the two closes.

The last four rest on one inductive invariant `IInv`, shown in `InvInit` and
`InvStep`. It speaks of each descriptor outside `crossed` by itself and adds to
`TypeInv`: `OwnSocketUntilClosed` (a worker that has not closed owns the table entry
of its descriptor), `HeldFd` (an open descriptor belongs to such a worker),
`OwnDevice` (`last` is the device of the worker's own connection, since it reads
only its own socket) and `LatestLogin` (`latest` names a worker that logged that
device in). Together they make descriptors of workers that still have one
distinct, and that is why comparing descriptors in `registry_remove_fd` and
`Hub.Unregister` identifies the connection. Workers of a descriptor in `crossed` may
do anything to the tables, but only under their own number.

`CommandQueue_proofs`, for any number of commands, connections, logins,
descriptors, devices, retry goroutines and crashes. Every step of the queue is a
step or a stutter of `ProtocolServer`, or the crash, so its `IInv` carries over and
only the crash is new (`TablesSurviveCrashes`).

* `QueueTypeCorrect` (`[]QueueTypeOK`) and `QueueDurable` (`QueueIsDurable`) need
  `Calls`: the thread that waits for `Hub.Send` waits for the very command that it
  will mark.
* `NothingStranded` (`[]NoStrandedCommand`). The property speaks of the moment when
  both actors are done, so the invariant has to say who is responsible before
  that. `Waiting`: while a connection is the latest login of its device and reads
  (`Live`), a command never written is in somebody's hands (`InHand`): the login
  has not started its goroutine yet, or a goroutine of the device that cannot fail
  any more (`Fresh`) has not listed the rows yet or has the command on its list
  (`Carries`), or the admin handler has not looked the device up or holds the
  connection's own descriptor. `Queued` says that a row is in the table before its
  handler asks anything, `SentIsPushed` that only written rows are marked.

`BackupUpload_proofs`, for any uploads, paths, chunk counts, widths of the offset,
clock values and crashes (`UploadAssumption`): `UploadTypeCorrect`,
`VersionsHaveFiles` (`RecordedFilesExist`), `VersionsAreDense`
(`VersionNumbersDense`) and `UndisturbedUploadsIntact` (`UndisturbedIsIntact`).
`Sessions` says that a session's name is chosen once and that only the holder of
the mutex is finalizing; `Numbered` that the number it has read is still the next
one when it inserts the row, which is why density needs the mutex; `RecordedOnce`
that an upload has one row; `PartOwned` that each `.part` file belongs to a session
of that name. `Content` says that the file of an undisturbed upload whose offsets
do not wrap holds exactly the chunks handled so far, `FilesShort` that no file is
ever longer than the offset can count, so that a larger upload cannot be stored as
sent. `StoreIsAHistory` (`StoreKeepsHistory`) is the refinement of `VersionHistory`: the rename maps to
`Save`, the insert to `Record`, everything else to a stutter. It needs, besides the
invariant, that two rows of a path never have the same number
(`DistinctVersions`), so that the row at each place of the history is determined
and an insert leaves the earlier places alone.

`FileTreeSync_proofs`, for any finite tree of paths, any limit and any number of
faults: `TreeTypeCorrect`, `ItemsHaveFolders` (`NoOrphans`), `FilesListedOnce`
(`OneItemPerFile`) and `ClearedReachedBackend` (`SyncedReachedBackend`). The ids
an agent reports are never folder ids (`IdsOfFiles`), so only the fallback of a
failed delete removes a folder (`FoldersStay`). All copies of a file's id (row,
batch, frame, backend) agree except the unstored ones (`OneId`, `BatchCopy`),
because only the sync makes ids and works on a copy that stays current in that
field. No copy says of a file
never removed that it is gone (`Truthful`), and every row of a query is in its
frame or was skipped (`BuiltFromBatch`), so that a cleared row is at the backend
or on its way (`Delivered`).

`BackupScheduler_proofs`, for any paths, watched directories, goroutines and
bounds (`MonitorAssumption`, `SchedulerAssumption`):

* `BackupsAreSerial`: `Spec => OneBackupAtATime`, that is, the scheduler implements
  `SerialBackup`. The invariant has two parts. `Ownership`: a goroutine has its
  path in `inFlight` from its start to its deferred function, and no other
  goroutine has that path; so a path can only start when nobody has it, and the
  deferred function releases its own path only. `EventsAreTyped`: the event that
  started the goroutine named a path, which is carried from the kernel's records
  through the rename queues and the channel. One lemma per kind of step maps it to
  `Start`, `Store`, `End` or a stutter.
* `SchedulerTypeCorrect`: `[]SchedulerTypeOK`, from `TypeInv`, which adds that a
  watcher that runs has failed fewer than `maxRetries` times and that one that has
  ended has no records left. The next three rest on `TypeInv` and are independent
  of each other.
* `PairsAreRight`: `[]RenamesPairRight`. `PairInv` says of every watcher: an old name
  in its buffer is followed by its own new name or by a lost read; when it is not
  shaken, all waiting old names have expired except the one whose new name is the
  next record, or the next record is a lost read; when it is shaken for `s` more
  seconds, whatever waits will have expired by then.
* `LastChangesBackedUp`: `[]LastChangeBackedUp`. `NothingForgotten`: an existing
  file whose change had a record and was not given up has it in some buffer or an event in
  the channel, or a goroutine that has not read it yet or has read its present
  version, or its backup is right and no upload under way will replace it.
* `RowsAreRight`: `[]RowsFollowDisk`. `RowsInv`, while nothing is lost: at most one
  old name waits, and exactly for the next record (`Exact`); the last record of a
  path in any buffer agrees with the disk (`LastSays`); a path without a record
  has the right row, unless it is `silent`. `RenameDisk` says what a moved directory
  takes with it. The second part makes the order of overlapping directories
  irrelevant: an outdated row can only be written while a later record of the
  same path waits in the same buffer.

`AgentCommands_proofs`, for any commands, domains, foreign lines and starts:

* `AgentRunsAsLoggedIn`: `Spec => []RunsUnderIssuedId`. The invariant `Identity`
  adds what is on disk, what the backend still holds and what `BootstrapDevice`
  starts from.
* `OffStaysOff`: `Spec => []BackupOffStaysOff`. `RestoreIsHarmless`:
  `Spec => RestoreKeepsFile`. `AgentTypeCorrect`: `[]CommandsTypeOK`.
* `ForeignLinesSurvive` (`[]ForeignLinesKept`) and `FileBlocksAsOrdered`
  (`[]BlockingAsOrdered`), for hosts files of any length. `Text` says of the file
  and of the copy in memory: a blocked domain is inside a section
  (`BlocksMarked`), also after a write cut short, and the foreign lines that are not
  lost stand outside of sections (`Holds`); so `removeBlockSection` leaves all of
  these and no blocked line (`SectionRemoved`, `SubsequenceSkip`). `Orders`
  says what a running block_website command has done and still has to do.

`AdminConsole_proofs`, for any devices, directories, forms, logins and keys.
`ConsoleAssumption` says that directories have an owner and a parent on the same
device, that every form has a field and there is a command to choose, and that
the ids of directories are neither `UP`, which the ".." row has, nor the markers
for the root and for no entry.

* `ConsoleTypeCorrect` (`[]TypeOK`). `TypeInv` adds what each message and request
  carries (`Wire`, `Goroutines`), that every connection belongs to a submitted login
  (`OwnLogin` counts the connections made and the goroutines that may still make
  one, so there are never more than logins), and that before the first connection
  nothing but logins is under way (`Unconnected`), so a reply always has a
  connection to come from.
* `ConsoleIsNeverDeaf` (`[]NeverDeaf`) is inductive with `TypeInv`: a `WaitForMsg` that
  ends leaves a message of the server, which is never dropped without a new
  `WaitForMsg`, on whichever screen it is handled.
* `ListingsAreCurrent` (`[]ListingIsCurrent`) and `WayUpIsTrue` (`[]ParentsAreTrue`).
  Neither is inductive: a reply that arrives later can spoil the rows, and a step
  up needs the entry of the next directory. `TreeInv` says that whatever is under
  way between a request and its `fileLoadedMsg` (`UnderWay`) is about the directory
  the screen is in, that a page of it is shown when nothing is (`ShowsCurrent`; a
  reply carries a page by `PageOfChildren` and `ShownOfListing`), and that `ParentMap`
  has the whole way up to the root (`WayUp`). Sending, receiving and handing over
  move a listing from one place to the next; losing one sets `astray`.

Some of these facts are inductions over data: what a query or
`removeBlockSection` returns for a sequence of any length. The library's induction
theorems take an operator, which the provers cannot instantiate; here the
induction is over a set of indices (`InductionUpTo` in `Subsequence_proofs`), which
follows from the least element of a set of naturals.

Only model-checked: the seven liveness properties `QueuedIsEventuallyPushed`,
`DepartedGoesOffline`, `UploadEnds`, `DeletedIsDelisted`, `ShutdownEnds`, `BackupsEnd`
and `RepliesAreTaken` (the prover has no fairness and no ENABLED), and the five
violated properties. Every invariant and every safety property of the passing
runs has a theorem; `StrayWriteIsUnlisted` has a theorem and no run.

## 6. Observations

Made while modelling, besides the five findings:

* A restore never gets a byte: `DownloadFile` sends `backup_download_start` on a
  connection that has not logged in, so the backend answers 401
  (`handleSubCommand`).
* The console sends its commands with kind "agent", which `Dispatch` neither runs
  nor reports.
* A once command sent as a stream stores a nil stop function; the second one of
  that name makes the agent panic. `get_logs` panics when the backend cannot be
  reached.
* A block_website command handled between the cleanup of a shutdown and the end of
  `main` leaves its blocks in the hosts file, and so does a kill; a restarted
  agent does not know of them until the next command.
* The agent never reconnects: `receiveLoop` retries the broken connection.
* The flag of `backup_auto` is not persisted: a restarted agent backs up again.
* In the console a second login after a wrong password replaces the client while
  the receive loop still reads the first one, and after a lost connection no loop
  is started again. A listing is capped at 30 nodes by the backend while the
  console never asks for a second page.
* The agent can run under one id with the token of another: started as its host
  name, then with a UUID, then without osquery, it finds the host name's entry
  still in `deviceTokens`, and `device_register` compares nothing else.
* A file larger than 4 GiB is uploaded over itself, since the offset wraps, and is
  recorded as a version (`UndisturbedIsIntact` says that every such version is
  damaged).
* A file whose `item_id` could not be stored is listed twice after the next sync.
* Rows of directories and of deleted files are selected by every sync for ever; 256
  of them keep all younger rows out of the query.
* A line added to the hosts file behind a section that a kill has cut off is
  dropped by the next command.
* A file that is there when the Windows monitor first starts, or is moved with the
  directory it is in, has no row and no backup until its next change.

## 7. Not modelled

* The bytes of a frame, and the two sends of one frame by two threads at once:
  every writer of a socket is one step here.
* The download's chunks after an accepted start, which the code cannot reach.
* The Linux monitor's initial scan and renames within the root, and `Close` and
  the set-up of the Windows monitor.
* Starting and stopping the TCP server.
* Users, JWT, devices, agent logs, content types, block rules (plain CRUD on
  single tables), configuration, logging, osquery and privileges (input and
  output at start-up; their outcomes are free choices in the models),
  `network/network.c.old` (not compiled).

## 8. Plan

The theorems cover the safety properties. What would extend the models: the two
sends of a frame (`network/protocol_message.c`) as separate steps of
`ProtocolServer`, the initial scan and renames of the Linux monitor in
`FileTreeSync`, and a restart of the agent there, each of which would need its
invariants again.
