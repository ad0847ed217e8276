---------------------------- MODULE BackupUpload ----------------------------
(***************************************************************************)
(* Uploading a file version from an agent to the backend: InitUpload and   *)
(* UploadFile of agent/internal/backup/backup.go with the end of           *)
(* backupFile (service/service.go); handleBackupInitUpload,                *)
(* handleFileChunk and handleFileDone of the controller; BackupService and *)
(* the version table of the backend.                                       *)
(*                                                                         *)
(* One device.  A file is a number of chunks; the content of a stored file *)
(* says for each place which chunk <<u, i>> of which upload is there.  An  *)
(* upload sends, on a connection of its own, frame 0 (MSG_LOGIN), its      *)
(* chunks, and MSG_FILE_DONE; frames arrive in order, or the connection    *)
(* breaks and the rest is lost.  The offset of a chunk is a 32-bit number  *)
(* on both sides: it is counted modulo Wrap, the chunks in 2^32 bytes.     *)
(***************************************************************************)
EXTENDS Naturals, Sequences, FiniteSets

CONSTANTS
    Uploads,    \* uploads, one session each
    Paths,      \* logical paths
    Bases,      \* base names of paths
    PathOf,     \* PathOf[u]: the file that upload u backs up
    BaseOf,     \* BaseOf[p]: filepath.Base(p)
    Chunks,     \* Chunks[u]: size of the file of upload u, in chunks
    Wrap,       \* chunks in 2^32 bytes: 8192 of 512 KiB
    MaxSecond,  \* bound on the clock
    MaxCrashes, \* bound on backend crashes
    Hole, Absent, NoName, Nobody

\* Stored names: the second of the upload and the base name of its path.
Names == (0..MaxSecond) \X Bases

ASSUME UploadAssumption ==
    /\ PathOf \in [Uploads -> Paths]
    /\ BaseOf \in [Paths -> Bases]
    /\ Chunks \in [Uploads -> Nat \ {0}]
    /\ Wrap \in Nat \ {0} /\ MaxSecond \in Nat /\ MaxCrashes \in Nat
    /\ Nobody \notin Uploads /\ NoName \notin Names

VARIABLES
    clock,      \* seconds
    crashes,    \* number of backend crashes
    authorized, \* deviceTokens has a token for the device
    agent,      \* where the agent is with an upload
    sent,       \* frames the agent has written to the upload's connection
    handled,    \* frames the backend has handled
    link,       \* the upload's connection
    session,    \* BackupService.sessions: status of the upload's session
    name,       \* its FinalPath; TempPath is the same with .part
    bytesDone,  \* its BytesDone
    active,     \* controller.activeUpload
    lock,       \* holder of BackupService.mu inside FinalizeUpload
    finalizing, \* where the done frame's goroutine is in FinalizeUpload
    nextVer,    \* FinalizeUpload's local nextVer, 0 when it has none
    part,       \* the .part files: name -> content
    stored,     \* the final files: name -> content
    versions,   \* the table of BackupFileVersion rows
    lost        \* history: uploads that lost a frame on the backend's side (no
                \* token, disk error), their rename or their row

agentVars == <<agent, sent>>
svcVars   == <<session, name, bytesDone, active, lock, finalizing, nextVer>>
diskVars  == <<part, stored, versions>>
vars == <<clock, crashes, authorized, agentVars, handled, link, svcVars, diskVars, lost>>

-----------------------------------------------------------------------------
\* Frames of an upload: 0 is MSG_LOGIN, 1..Chunks[u] the chunks, Done(u) the
\* MSG_FILE_DONE.  (MSG_FILE_META is ignored by the backend.)
Done(u) == Chunks[u] + 1

\* What a name can have on the disk: a chunk of an upload at each place.
Pieces == (Uploads \X (Nat \ {0})) \union {Hole}
Files  == Seq(Pieces) \union {Absent}

Row == [upload : Uploads, path : Paths, version : Nat, name : Names, size : Nat]

TypeOK ==
    /\ clock \in 0..MaxSecond /\ crashes \in 0..MaxCrashes
    /\ authorized \in BOOLEAN
    /\ agent \in [Uploads -> {"idle", "opened", "sending", "success", "failed"}]
    /\ sent \in [Uploads -> Nat] /\ handled \in [Uploads -> Nat]
    /\ \A u \in Uploads : sent[u] \in 0..(Done(u) + 1) /\ handled[u] \in 0..sent[u]
    /\ link \in [Uploads -> {"none", "up", "down"}]
    /\ session \in [Uploads -> {"none", "active", "completed"}]
    /\ name \in [Uploads -> Names \union {NoName}]
    /\ bytesDone \in [Uploads -> Nat]
    /\ active \in SUBSET Uploads
    /\ lock \in Uploads \union {Nobody}
    /\ finalizing \in [Uploads -> {"no", "renamed", "numbered"}]
    /\ nextVer \in [Uploads -> Nat]
    /\ part \in [Names -> Files] /\ stored \in [Names -> Files]
    /\ versions \in SUBSET Row
    /\ lost \in SUBSET Uploads

Init ==
    /\ clock = 0 /\ crashes = 0
    /\ authorized = FALSE
    /\ agent = [u \in Uploads |-> "idle"]
    /\ sent = [u \in Uploads |-> 0]
    /\ handled = [u \in Uploads |-> 0]
    /\ link = [u \in Uploads |-> "none"]
    /\ session = [u \in Uploads |-> "none"]
    /\ name = [u \in Uploads |-> NoName]
    /\ bytesDone = [u \in Uploads |-> 0]
    /\ active = {}
    /\ lock = Nobody
    /\ finalizing = [u \in Uploads |-> "no"]
    /\ nextVer = [u \in Uploads |-> 0]
    /\ part = [n \in Names |-> Absent]
    /\ stored = [n \in Names |-> Absent]
    /\ versions = {}
    /\ lost = {}

-----------------------------------------------------------------------------
(* Environment.                                                            *)
Tick ==
    /\ clock < MaxSecond
    /\ clock' = clock + 1
    /\ UNCHANGED <<crashes, authorized, agentVars, handled, link, svcVars, diskVars, lost>>

\* HandleDisconnect of some connection of the device, and a login of one: the
\* device's token goes and comes independently of this upload.
TokenDeleted ==
    /\ authorized
    /\ authorized' = FALSE
    /\ UNCHANGED <<clock, crashes, agentVars, handled, link, svcVars, diskVars, lost>>

LinkBreaks(u) ==
    /\ link[u] = "up"
    /\ link' = [link EXCEPT ![u] = "down"]
    /\ UNCHANGED <<clock, crashes, authorized, agentVars, handled, svcVars, diskVars, lost>>

\* The backend process dies and restarts: files and the table survive.
Crash ==
    /\ crashes < MaxCrashes
    /\ crashes' = crashes + 1
    /\ authorized' = FALSE
    /\ link' = [u \in Uploads |-> IF link[u] = "up" THEN "down" ELSE link[u]]
    /\ session' = [u \in Uploads |-> "none"]
    /\ active' = {}
    /\ lock' = Nobody
    /\ finalizing' = [u \in Uploads |-> "no"]
    /\ nextVer' = [u \in Uploads |-> 0]
    /\ UNCHANGED <<clock, agentVars, handled, name, bytesDone, diskVars, lost>>

-----------------------------------------------------------------------------
(* The backend.                                                            *)
StoredName(u) == <<clock, BaseOf[PathOf[u]]>>

Smaller(a, b) == IF a < b THEN a ELSE b

\* PrepareUpload: an existing .part file of that name is taken over, its size
\* becomes the offset of the session.
PrepareUpload(u, n) ==
    LET old == part[n]
        size == IF old = Absent THEN 0 ELSE Len(old)
    IN  /\ part' = IF old = Absent THEN [part EXCEPT ![n] = <<>>] ELSE part
        /\ session' = [session EXCEPT ![u] = "active"]
        /\ name' = [name EXCEPT ![u] = n]
        /\ bytesDone' = [bytesDone EXCEPT ![u] = Smaller(size, Chunks[u])]

\* Seek(offset) and Write on a file: a gap before the offset becomes a hole.
WriteAt(s, i, v) ==
    [k \in 1..(IF Len(s) < i THEN i ELSE Len(s)) |->
        CASE k = i      -> v
          [] k <= Len(s) /\ k # i -> s[k]
          [] OTHER      -> Hole]

\* The next frame of an upload's connection.  ValidateSession and Advance need
\* the service's mutex.
Arrives(u, i) ==
    /\ link[u] = "up"
    /\ handled[u] = i /\ handled[u] < sent[u]
    /\ lock = Nobody
    /\ handled' = [handled EXCEPT ![u] = i + 1]

handleMsgLogin(u) ==
    /\ Arrives(u, 0)
    /\ authorized' = TRUE
    /\ UNCHANGED <<clock, crashes, agentVars, link, svcVars, diskVars, lost>>

\* A chunk or a done frame is dropped without an answer: no token, no tracked
\* session, or (a chunk) the .part file cannot be opened or written.
frame_dropped(u, i) ==
    /\ i > 0 /\ Arrives(u, i)
    /\ i = Done(u) => ~authorized \/ u \notin active
    /\ lost' = lost \union {u}
    /\ UNCHANGED <<clock, crashes, authorized, agentVars, link, svcVars, diskVars>>

\* The place of chunk i of any file: offset is a uint32 and wraps around.
Place(i) == ((i - 1) % Wrap) + 1

handleFileChunk(u, i) ==
    /\ i \in 1..Chunks[u] /\ Arrives(u, i)
    /\ authorized /\ u \in active
    /\ part[name[u]] # Absent
    /\ part' = [part EXCEPT ![name[u]] = WriteAt(@, Place(i), <<u, i>>)]
    /\ bytesDone' = [bytesDone EXCEPT ![u] = @ + 1]
    /\ UNCHANGED <<clock, crashes, authorized, agentVars, link, session, name, active, lock,
                   finalizing, nextVer, stored, versions, lost>>

\* Mutant: a broken connection finalizes its upload.
handleFileDone_on_close(u) ==
    /\ link[u] = "down" /\ lock = Nobody
    /\ authorized /\ u \in active
    /\ session' = [session EXCEPT ![u] = "completed"]
    /\ bytesDone' = [bytesDone EXCEPT ![u] = Chunks[u]]
    /\ part[name[u]] # Absent
    /\ stored' = [stored EXCEPT ![name[u]] = part[name[u]]]
    /\ part' = [part EXCEPT ![name[u]] = Absent]
    /\ lock' = u
    /\ finalizing' = [finalizing EXCEPT ![u] = "renamed"]
    /\ UNCHANGED <<clock, crashes, authorized, agentVars, handled, link, name, active, nextVer,
                   versions, lost>>

\* Mutant: FinalizeUpload without the mutex.
handleFileDone_unlocked(u) ==
    /\ Arrives(u, Done(u))
    /\ authorized /\ u \in active
    /\ session' = [session EXCEPT ![u] = "completed"]
    /\ bytesDone' = [bytesDone EXCEPT ![u] = Chunks[u]]
    /\ part[name[u]] # Absent
    /\ stored' = [stored EXCEPT ![name[u]] = part[name[u]]]
    /\ part' = [part EXCEPT ![name[u]] = Absent]
    /\ finalizing' = [finalizing EXCEPT ![u] = "renamed"]
    /\ UNCHANGED <<clock, crashes, authorized, agentVars, link, name, active, lock, nextVer,
                   versions, lost>>

\* handleFileDone: MarkCompleted, then FinalizeUpload under the mutex, which
\* renames the .part file and goes on to record a version.  If the rename fails (always
\* without a .part file) the session stays completed and tracked.
handleFileDone(u) ==
    /\ Arrives(u, Done(u))
    /\ authorized /\ u \in active
    /\ session' = [session EXCEPT ![u] = "completed"]
    /\ bytesDone' = [bytesDone EXCEPT ![u] = Chunks[u]]
    /\ LET n == name[u]
       IN  \/ /\ part[n] # Absent
              /\ stored' = [stored EXCEPT ![n] = part[n]]
              /\ part' = [part EXCEPT ![n] = Absent]
              /\ lock' = u
              /\ finalizing' = [finalizing EXCEPT ![u] = "renamed"]
              /\ UNCHANGED lost
           \/ /\ lost' = lost \union {u}
              /\ UNCHANGED <<part, stored, lock, finalizing>>
    /\ UNCHANGED <<clock, crashes, authorized, agentVars, link, name, active, nextVer, versions>>

VersionsOf(p) == {r.version : r \in {q \in versions : q.path = p}}

NextVersion(p) ==
    IF VersionsOf(p) = {} THEN 1
    ELSE 1 + CHOOSE n \in VersionsOf(p) : \A k \in VersionsOf(p) : k <= n

\* FinalizeUpload reads the next version number of the path from the table...
number_version(u) ==
    /\ finalizing[u] = "renamed"
    /\ nextVer' = [nextVer EXCEPT ![u] = NextVersion(PathOf[u])]
    /\ finalizing' = [finalizing EXCEPT ![u] = "numbered"]
    /\ UNCHANGED <<clock, crashes, authorized, agentVars, handled, link, session, name,
                   bytesDone, active, lock, diskVars, lost>>

RowOf(u, n) ==
    [upload |-> u, path |-> PathOf[u], version |-> nextVer[u], name |-> n, size |-> Chunks[u]]

\* It returns: the mutex is released.
FinalizeReturns(u) ==
    /\ lock' = IF lock = u THEN Nobody ELSE lock
    /\ finalizing' = [finalizing EXCEPT ![u] = "no"]
    /\ nextVer' = [nextVer EXCEPT ![u] = 0]

\* Mutant: the stored name is computed again when the row is written.
record_version_renamed(u) ==
    /\ finalizing[u] = "numbered"
    /\ versions' = versions \union {RowOf(u, StoredName(u))}
    /\ active' = active \ {u}
    /\ FinalizeReturns(u)
    /\ UNCHANGED <<clock, crashes, authorized, agentVars, handled, link, session, name,
                   bytesDone, part, stored, lost>>

\* Mutant: the mutex is not released.
record_version_locked(u) ==
    /\ finalizing[u] = "numbered"
    /\ versions' = versions \union {RowOf(u, name[u])}
    /\ active' = active \ {u}
    /\ finalizing' = [finalizing EXCEPT ![u] = "no"]
    /\ UNCHANGED <<clock, crashes, authorized, agentVars, handled, link, session, name,
                   bytesDone, lock, nextVer, part, stored, lost>>

\* Mutant: a row of the same stored name is taken over.
record_version_upsert(u) ==
    /\ finalizing[u] = "numbered"
    /\ LET same == {r \in versions : r.name = name[u]}
           row == RowOf(u, name[u])
       IN  versions' = IF same = {} THEN versions \union {row}
                       ELSE (versions \ same) \union {[row EXCEPT !.version = r.version] : r \in same}
    /\ active' = active \ {u}
    /\ FinalizeReturns(u)
    /\ UNCHANGED <<clock, crashes, authorized, agentVars, handled, link, session, name,
                   bytesDone, part, stored, lost>>

\* ... and inserts the row: Create.
record_version(u) ==
    /\ finalizing[u] = "numbered"
    /\ versions' = versions \union {RowOf(u, name[u])}
    /\ active' = active \ {u}
    /\ FinalizeReturns(u)
    /\ UNCHANGED <<clock, crashes, authorized, agentVars, handled, link, session, name,
                   bytesDone, part, stored, lost>>

\* The database fails either query: the file stays, the session stays tracked.
record_fails(u) ==
    /\ finalizing[u] # "no"
    /\ FinalizeReturns(u)
    /\ lost' = lost \union {u}
    /\ UNCHANGED <<clock, crashes, authorized, agentVars, handled, link, session, name,
                   bytesDone, active, diskVars>>

-----------------------------------------------------------------------------
(* The agent.                                                              *)

\* InitUpload: SendAction logs in and asks for a session on a connection of
\* its own.  It fails before the login, after it (the token is gone again when
\* the action is handled), or when the answer is lost.
InitUpload(u) ==
    /\ agent[u] = "idle"
    /\ lock = Nobody
    /\ \/ /\ authorized' = TRUE
          /\ PrepareUpload(u, StoredName(u))
          /\ active' = active \union {u}
          /\ \E a \in {"opened", "failed"} : agent' = [agent EXCEPT ![u] = a]
       \/ /\ authorized' \in {authorized, TRUE}
          /\ agent' = [agent EXCEPT ![u] = "failed"]
          /\ UNCHANGED <<session, name, bytesDone, active, part>>
    /\ UNCHANGED <<clock, crashes, sent, handled, link, lock, finalizing, nextVer, stored,
                   versions, lost>>

\* UploadFile: dial; a failing dial ends the attempt.
dial(u) ==
    /\ agent[u] = "opened"
    /\ \/ /\ agent' = [agent EXCEPT ![u] = "sending"]
          /\ link' = [link EXCEPT ![u] = "up"]
       \/ agent' = [agent EXCEPT ![u] = "failed"] /\ UNCHANGED link
    /\ UNCHANGED <<clock, crashes, authorized, sent, handled, svcVars, diskVars, lost>>

\* Mutant: the loop runs once too often.
send_frame_once_more(u) ==
    /\ agent[u] = "sending"
    /\ sent[u] <= Done(u) + 1
    /\ sent' = [sent EXCEPT ![u] = @ + 1]
    /\ UNCHANGED <<clock, crashes, authorized, agent, handled, link, svcVars, diskVars, lost>>

\* The next frame goes into the socket.  Chunks start at offset 0 whatever
\* offset the session has.  A broken connection fails the send and its retry,
\* or still takes the frame into its buffer.
send_frame(u) ==
    /\ agent[u] = "sending"
    /\ sent[u] <= Done(u)
    /\ \/ sent' = [sent EXCEPT ![u] = @ + 1] /\ UNCHANGED agent
       \/ /\ link[u] = "down"
          /\ agent' = [agent EXCEPT ![u] = "failed"]
          /\ UNCHANGED sent
    /\ UNCHANGED <<clock, crashes, authorized, handled, link, svcVars, diskVars, lost>>

\* Every send returned nil: backupFile sets last_backup_at.
mark_backed_up(u) ==
    /\ agent[u] = "sending"
    /\ sent[u] = Done(u) + 1
    /\ agent' = [agent EXCEPT ![u] = "success"]
    /\ UNCHANGED <<clock, crashes, authorized, sent, handled, link, svcVars, diskVars, lost>>

-----------------------------------------------------------------------------
Agent(u) == dial(u) \/ send_frame(u) \/ mark_backed_up(u)

Backend(u) ==
    \/ handleMsgLogin(u)
    \/ \E i \in 1..Done(u) : frame_dropped(u, i) \/ handleFileChunk(u, i)
    \/ handleFileDone(u)
    \/ number_version(u) \/ record_version(u) \/ record_fails(u)

Environment == Tick \/ TokenDeleted \/ Crash \/ \E u \in Uploads : LinkBreaks(u)

Next ==
    \/ Environment
    \/ \E u \in Uploads : InitUpload(u) \/ Agent(u) \/ Backend(u)

Spec == Init /\ [][Next]_vars

-----------------------------------------------------------------------------
Recorded(u) == \E r \in versions : r.upload = u

SharesName(u) == \E v \in Uploads \ {u} : name[v] = name[u]
Disturbed(u)  == u \in lost \/ SharesName(u)

(* Every version the table offers for a restore has its file in the backup   *)
(* directory, whatever uploads collide on a name and wherever the backend     *)
(* crashes: the rename comes before the row.                                  *)
RecordedFilesExist ==
    \A r \in versions : stored[r.name] # Absent

(* The version numbers of a path are 1..n without a gap or a repetition, and  *)
(* an upload is recorded at most once, with uploads of several connections    *)
(* finishing in any order.                                                    *)
VersionNumbersDense ==
    /\ \A p \in Paths : VersionsOf(p) = 1..Cardinality({r \in versions : r.path = p})
    /\ \A r, q \in versions : r.upload = q.upload => r = q

AsSent(u) == [i \in 1..Chunks[u] |-> <<u, i>>]

(* For every upload that lost no frame on the backend's side and shared its    *)
(* stored name with no other session, what is stored for its version is        *)
(* exactly what its agent sent if the file is not larger than 2^32 bytes, and  *)
(* never if it is: a broken connection or a crash alone never records a        *)
(* truncated file, the wrapped offset of UploadFile always a damaged one.      *)
UndisturbedIsIntact ==
    \A r \in versions :
        ~Disturbed(r.upload) =>
            (stored[r.name] = AsSent(r.upload) <=> Chunks[r.upload] <= Wrap)

RowsOf(p) == {r \in versions : r.path = p}

VersionRow(p, i) == CHOOSE r \in RowsOf(p) : r.version = i

HistoryOf(p) ==
    [i \in 1..Cardinality(RowsOf(p)) |->
        [upload |-> VersionRow(p, i).upload, name |-> VersionRow(p, i).name]]

History == INSTANCE VersionHistory
    WITH files <- {n \in Names : stored[n] # Absent}, history <- [p \in Paths |-> HistoryOf(p)]

(* The rows of a path, in the order of their version numbers, are a history    *)
(* in the sense of VersionHistory: uploads that end concurrently, crashes and  *)
(* colliding names never renumber, replace or drop a version, and no version   *)
(* is entered before its file is in place.                                     *)
StoreKeepsHistory == History!Spec

FairSpec ==
    /\ Spec
    /\ \A u \in Uploads : WF_vars(Agent(u)) /\ WF_vars(Backend(u))

(* An opened upload comes to an end: it is recorded, unless the agent could    *)
(* not connect, the connection broke, the backend crashed, or the upload was   *)
(* disturbed.  In particular no two finishing uploads block each other.        *)
UploadEnds ==
    \A u \in Uploads :
        agent[u] = "opened" ~>
            (\/ Recorded(u) \/ Disturbed(u)
             \/ agent[u] = "failed" \/ link[u] = "down")

-----------------------------------------------------------------------------
(* models/backup_version.go: a row describes "each backup version of one       *)
(* logical file", StoredName being "the real file in the backups directory".   *)
(* The stored file of a version should hold data of the version's own path.    *)
VersionsKeepTheirFile ==
    \A r \in versions :
        r.upload \notin lost =>
            \A i \in DOMAIN stored[r.name] :
                stored[r.name][i] # Hole => PathOf[stored[r.name][i][1]] = r.path

=============================================================================
