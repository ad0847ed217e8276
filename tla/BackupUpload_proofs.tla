------------------------ MODULE BackupUpload_proofs ------------------------
(***************************************************************************)
(* Theorems about BackupUpload for any number of uploads, paths and        *)
(* chunks, and any number of crashes.                                      *)
(*                                                                         *)
(* A session's name is chosen once (Sessions), so two uploads that ever    *)
(* share a stored name share it for good, and a .part file always belongs  *)
(* to some session of that name (PartOwned).  An upload that is alone on   *)
(* its name is therefore the only writer of its .part file, which holds    *)
(* exactly the chunks handled so far (Content) as long as offsets do not   *)
(* wrap, and never more than Wrap chunks: the next chunk extends it,       *)
(* a frame that is skipped puts the upload into lost, and MSG_FILE_DONE    *)
(* comes after the last chunk.  RecordedOnce ties the rows to the sessions *)
(* that wrote them: one row per upload, because the done frame that leads  *)
(* to it is handled once.  The number read by FinalizeUpload is still the  *)
(* next one when the row is inserted (Numbered), since only the holder of  *)
(* the mutex is inside.                                                    *)
(*                                                                         *)
(* The rows then are a VersionHistory: a version has one row, so an insert *)
(* leaves the earlier places of the history alone.                         *)
(***************************************************************************)
EXTENDS BackupUpload, FiniteSetTheorems, SequenceTheorems, TLAPS

Sessions ==
    \A u \in Uploads :
        /\ agent[u] = "idle" => name[u] = NoName /\ u \notin active /\ sent[u] = 0
        /\ u \in active \/ finalizing[u] # "no" => name[u] \in Names
        /\ finalizing[u] # "no" =>
              lock = u /\ handled[u] = Done(u) + 1 /\ stored[name[u]] # Absent

Numbered ==
    \A u \in Uploads : finalizing[u] = "numbered" => nextVer[u] = NextVersion(PathOf[u])

RecordedOnce ==
    /\ IsFiniteSet(versions)
    /\ \A r \in versions :
          /\ r.name = name[r.upload]
          /\ handled[r.upload] = Done(r.upload) + 1
          /\ finalizing[r.upload] = "no"

PartOwned ==
    \A n \in Names : part[n] # Absent => \E v \in Uploads : name[v] = n

Prefix(u, k) == [i \in 1..k |-> <<u, i>>]
Received(u) == IF handled[u] = 0 THEN 0 ELSE handled[u] - 1

Content ==
    \A u \in Uploads :
        ~Disturbed(u) /\ Chunks[u] <= Wrap =>
            /\ u \in active /\ handled[u] <= Done(u) => part[name[u]] = Prefix(u, Received(u))
            /\ finalizing[u] # "no" => stored[name[u]] = Prefix(u, Chunks[u])

Short(f) == f = Absent \/ Len(f) <= Wrap
FilesShort == \A n \in Names : Short(part[n]) /\ Short(stored[n])

IntactIfShort ==
    \A r \in versions :
        ~Disturbed(r.upload) /\ Chunks[r.upload] <= Wrap => stored[r.name] = AsSent(r.upload)

IInv ==
    /\ TypeOK
    /\ Sessions
    /\ RecordedOnce
    /\ PartOwned
    /\ Content
    /\ RecordedFilesExist
    /\ VersionNumbersDense
    /\ Numbered
    /\ FilesShort
    /\ IntactIfShort

-----------------------------------------------------------------------------
(* A chunk is written within the first Wrap places, at its own if it fits.   *)
LEMMA PlaceFacts ==
    ASSUME NEW i \in Nat \ {0}
    PROVE  Place(i) \in 1..Wrap /\ (i <= Wrap => Place(i) = i)
<1>1. \A m \in Nat, w \in Nat \ {0} : m % w \in 0..(w - 1) /\ (m < w => m % w = m)
    OBVIOUS
<1>2. i - 1 \in Nat /\ Wrap \in Nat \ {0}
    BY UploadAssumption
<1>3. QED
    BY <1>1, <1>2 DEF Place

(* Writing a chunk at any offset leaves a sequence of chunks and holes, not   *)
(* longer than the old one or the place written.                             *)
LEMMA WriteAtType ==
    ASSUME NEW s \in Seq(Pieces), NEW i \in Nat \ {0}, NEW v \in Pieces
    PROVE  /\ WriteAt(s, i, v) \in Seq(Pieces)
           /\ Len(WriteAt(s, i, v)) = IF Len(s) < i THEN i ELSE Len(s)
<1> DEFINE n == IF Len(s) < i THEN i ELSE Len(s)
<1>1. n \in Nat /\ Len(s) \in Nat
    BY LenProperties
<1>2. \A k \in 1..Len(s) : s[k] \in Pieces
    BY ElementOfSeq
<1>3. WriteAt(s, i, v) = [k \in 1..n |-> CASE k = i -> v
                                         [] k <= Len(s) /\ k # i -> s[k]
                                         [] OTHER -> Hole]
    BY DEF WriteAt
<1>h. Hole \in Pieces
    BY DEF Pieces
<1>4. \A k \in 1..n : (CASE k = i -> v
                         [] k <= Len(s) /\ k # i -> s[k]
                         [] OTHER -> Hole) \in Pieces
    BY <1>1, <1>2, <1>h
<1>5. WriteAt(s, i, v) \in [1..n -> Pieces]
    BY <1>3, <1>4
<1> HIDE DEF n
<1>6. WriteAt(s, i, v) \in Seq(Pieces)
    BY <1>1, <1>5, SeqDef
<1>7. Len(WriteAt(s, i, v)) = n
    BY <1>1, <1>5, <1>6, LenProperties
<1>8. QED
    BY <1>6, <1>7 DEF n

(* The first k chunks of an upload are a sequence of length k.               *)
LEMMA PrefixType ==
    ASSUME NEW u \in Uploads, NEW k \in Nat
    PROVE  Prefix(u, k) \in Seq(Pieces) /\ Len(Prefix(u, k)) = k
<1>1. Prefix(u, k) \in [1..k -> Pieces]
  <2>1. \A i \in 1..k : <<u, i>> \in Pieces
      BY DEF Pieces
  <2>2. QED
      BY <2>1 DEF Prefix
<1>2. Prefix(u, k) \in Seq(Pieces)
    BY <1>1, SeqDef
<1>3. QED
    BY <1>1, <1>2, LenProperties

(* The chunk that follows the chunks 1..k extends the file to 1..k+1.        *)
LEMMA WriteAtAppends ==
    ASSUME NEW u \in Uploads, NEW k \in Nat
    PROVE  WriteAt(Prefix(u, k), k + 1, <<u, k + 1>>) = Prefix(u, k + 1)
<1>1. Len(Prefix(u, k)) = k /\ \A i \in 1..k : Prefix(u, k)[i] = <<u, i>>
    BY PrefixType DEF Prefix
<1>2. QED
    BY <1>1 DEF WriteAt, Prefix

(* The rows of a path in a dense table are numbered 1..n and the next one is  *)
(* n + 1.                                                                     *)
LEMMA NextVersionIsNext ==
    ASSUME NEW p, NEW n \in Nat, VersionsOf(p) = 1..n
    PROVE  NextVersion(p) = n + 1
<1>1. CASE n = 0
    BY <1>1 DEF NextVersion
<1>2. CASE n # 0
  <2>1. n \in VersionsOf(p) /\ \A k \in VersionsOf(p) : k <= n
      BY <1>2
  <2>2. \A m \in VersionsOf(p) : (\A k \in VersionsOf(p) : k <= m) => m = n
      BY <1>2
  <2>3. (CHOOSE m \in VersionsOf(p) : \A k \in VersionsOf(p) : k <= m) = n
      BY <2>1, <2>2
  <2>4. NextVersion(p) = 1 + CHOOSE m \in VersionsOf(p) : \A k \in VersionsOf(p) : k <= m
      BY <2>1, Zenon DEF NextVersion
  <2>5. NextVersion(p) = 1 + n
      BY <2>3, <2>4, Zenon
  <2>6. QED
      BY <2>5
<1>3. QED
    BY <1>1, <1>2

-----------------------------------------------------------------------------
(* The inductive invariant holds initially.                                 *)
LEMMA InvInit == Init => IInv
<1> SUFFICES ASSUME Init
             PROVE  IInv
    OBVIOUS
<1> USE UploadAssumption
<1>0. \A u \in Uploads : 0 \in 0..(Done(u) + 1)
    BY DEF Done
<1>1. TypeOK
  <2>1. [n \in Names |-> Absent] \in [Names -> Files]
      BY DEF Files
  <2>2. [u \in Uploads |-> 0] \in [Uploads -> Nat]
      OBVIOUS
  <2>3. /\ sent \in [Uploads -> Nat] /\ handled \in [Uploads -> Nat]
        /\ \A u \in Uploads : sent[u] \in 0..(Done(u) + 1) /\ handled[u] \in 0..sent[u]
      BY <1>0, <2>2 DEF Init
  <2>4. /\ agent \in [Uploads -> {"idle", "opened", "sending", "success", "failed"}]
        /\ link \in [Uploads -> {"none", "up", "down"}]
        /\ session \in [Uploads -> {"none", "active", "completed"}]
        /\ name \in [Uploads -> Names \union {NoName}]
      BY DEF Init
  <2>5. clock \in 0..MaxSecond /\ crashes \in 0..MaxCrashes
      BY DEF Init
  <2>6. authorized \in BOOLEAN
      BY Zenon DEF Init
  <2>7. bytesDone \in [Uploads -> Nat] /\ part \in [Names -> Files] /\ stored \in [Names -> Files]
      BY <2>1, <2>2 DEF Init
  <2>9. finalizing \in [Uploads -> {"no", "renamed", "numbered"}] /\ nextVer \in [Uploads -> Nat]
      BY <2>2 DEF Init
  <2>8. QED
      BY <2>3, <2>4, <2>5, <2>6, <2>7, <2>9 DEF Init, TypeOK
<1>2. \A p \in Paths : VersionsOf(p) = {} /\ {r \in versions : r.path = p} = {}
    BY DEF Init, VersionsOf
<1>3. 1..0 = {}
    OBVIOUS
<1>4. VersionNumbersDense
    BY <1>2, <1>3, FS_EmptySet DEF Init, VersionNumbersDense
<1>5. QED
    BY <1>1, <1>4, FS_EmptySet
    DEF Init, IInv, Sessions, RecordedOnce, PartOwned, Content, RecordedFilesExist,
        Numbered, FilesShort, Short, IntactIfShort, Names

(* Every step of the clock, the connection, the backend and the agent keeps   *)
(* TypeOK, given that sessions have names and the table is dense.             *)
LEMMA TypeStep == IInv /\ [Next]_vars => TypeOK'
<1> SUFFICES ASSUME IInv, [Next]_vars
             PROVE  TypeOK'
    OBVIOUS
<1> USE UploadAssumption DEF IInv, TypeOK, agentVars, svcVars, diskVars
<1>0. \A u \in Uploads : Done(u) \in Nat /\ Chunks[u] \in Nat
    BY DEF Done
<1>1. ASSUME Tick
      PROVE  TypeOK'
    BY <1>1 DEF Tick
<1>2. ASSUME TokenDeleted
      PROVE  TypeOK'
    BY <1>2 DEF TokenDeleted
<1>3. ASSUME NEW u \in Uploads, LinkBreaks(u)
      PROVE  TypeOK'
    BY <1>3 DEF LinkBreaks
<1>4. ASSUME Crash
      PROVE  TypeOK'
  <2>1. link' \in [Uploads -> {"none", "up", "down"}]
      BY <1>4 DEF Crash
  <2>2. session' \in [Uploads -> {"none", "active", "completed"}]
      BY <1>4 DEF Crash
  <2>3. crashes' \in 0..MaxCrashes
      BY <1>4 DEF Crash
  <2>4. QED
      BY <1>4, <2>1, <2>2, <2>3 DEF Crash
<1>5. ASSUME NEW u \in Uploads, handleMsgLogin(u)
      PROVE  TypeOK'
    BY <1>0, <1>5 DEF handleMsgLogin, Arrives
<1>6. ASSUME NEW u \in Uploads, NEW i \in 1..Done(u), frame_dropped(u, i)
      PROVE  TypeOK'
    BY <1>0, <1>6 DEF frame_dropped, Arrives
<1>7. ASSUME NEW u \in Uploads, NEW i \in 1..Done(u), handleFileChunk(u, i)
      PROVE  TypeOK'
  <2>1. name[u] \in Names /\ part[name[u]] \in Seq(Pieces)
      BY <1>7 DEF handleFileChunk, Sessions, Files
  <2>2. WriteAt(part[name[u]], Place(i), <<u, i>>) \in Seq(Pieces)
    <3>1. i \in Nat \ {0} /\ Place(i) \in Nat \ {0} /\ <<u, i>> \in Pieces
        BY <1>0, PlaceFacts DEF Pieces
    <3>2. QED
        BY <2>1, <3>1, WriteAtType
  <2>3. part' \in [Names -> Files]
      BY <1>7, <2>1, <2>2 DEF handleFileChunk, Files
  <2>4. bytesDone' \in [Uploads -> Nat]
      BY <1>7 DEF handleFileChunk
  <2>5. QED
      BY <1>0, <1>7, <2>3, <2>4 DEF handleFileChunk, Arrives
<1>8. ASSUME NEW u \in Uploads, handleFileDone(u)
      PROVE  TypeOK'
  <2>1. name[u] \in Names
      BY <1>8 DEF handleFileDone, Sessions
  <2>2. bytesDone' \in [Uploads -> Nat]
      BY <1>0, <1>8 DEF handleFileDone
  <2>3. /\ handled' \in [Uploads -> Nat]
        /\ \A v \in Uploads : handled'[v] \in 0..sent[v]
      BY <1>0, <1>8 DEF handleFileDone, Arrives
  <2>4. part' \in [Names -> Files] /\ stored' \in [Names -> Files]
      BY <1>8, <2>1 DEF handleFileDone, Files
  <2>5. /\ lock' \in Uploads \union {Nobody} /\ lost' \in SUBSET Uploads
        /\ finalizing' \in [Uploads -> {"no", "renamed", "numbered"}]
      BY <1>8 DEF handleFileDone, Arrives
  <2>6. QED
      BY <1>8, <2>2, <2>3, <2>4, <2>5 DEF handleFileDone
<1>9. ASSUME NEW u \in Uploads, record_version(u)
      PROVE  TypeOK'
  <2>1. RowOf(u, name[u]) \in Row
      BY <1>0, <1>9 DEF record_version, RowOf, Row, Sessions
  <2>2. /\ lock' \in Uploads \union {Nobody}
        /\ finalizing' \in [Uploads -> {"no", "renamed", "numbered"}] /\ nextVer' \in [Uploads -> Nat]
      BY <1>9 DEF record_version, FinalizeReturns
  <2>3. versions' \in SUBSET Row /\ active' \in SUBSET Uploads
      BY <1>9, <2>1 DEF record_version
  <2>4. QED
      BY <1>9, <2>2, <2>3 DEF record_version
<1>10. ASSUME NEW u \in Uploads, record_fails(u)
      PROVE  TypeOK'
    BY <1>10 DEF record_fails, FinalizeReturns
<1>17. ASSUME NEW u \in Uploads, number_version(u)
      PROVE  TypeOK'
  <2>1. PICK n \in Nat : VersionsOf(PathOf[u]) = 1..n
    <3>1. IsFiniteSet({r \in versions : r.path = PathOf[u]})
        BY FS_Subset DEF RecordedOnce
    <3>2. QED
        BY <3>1, FS_CardinalityType DEF VersionNumbersDense
  <2>2. NextVersion(PathOf[u]) \in Nat
      BY <2>1, NextVersionIsNext
  <2>3. QED
      BY <1>17, <2>2 DEF number_version
<1>11. ASSUME NEW u \in Uploads, InitUpload(u)
      PROVE  TypeOK'
  <2>1. StoredName(u) \in Names
      BY DEF StoredName, Names
  <2>2. CASE PrepareUpload(u, StoredName(u)) /\ UNCHANGED <<sent, handled>>
    <3>1. part[StoredName(u)] = Absent \/ Len(part[StoredName(u)]) \in Nat
        BY <2>1, LenProperties DEF Files
    <3>2. bytesDone' \in [Uploads -> Nat]
        BY <1>0, <2>2, <3>1 DEF PrepareUpload, Smaller
    <3>3. <<>> \in Seq(Pieces)
        OBVIOUS
    <3>4. part' \in [Names -> Files]
      <4>1. <<>> \in Files /\ part \in [Names -> Files]
          BY <3>3 DEF Files
      <4>2. part' = part \/ part' = [part EXCEPT ![StoredName(u)] = <<>>]
          BY <2>2 DEF PrepareUpload
      <4>3. QED
          BY <2>1, <4>1, <4>2
    <3>5. /\ session' \in [Uploads -> {"none", "active", "completed"}]
          /\ name' \in [Uploads -> Names \union {NoName}]
      <4>1. session' = [session EXCEPT ![u] = "active"] /\ name' = [name EXCEPT ![u] = StoredName(u)]
          BY <2>2, Zenon DEF PrepareUpload
      <4>2. QED
          BY <2>1, <4>1
    <3>6. agent' \in [Uploads -> {"idle", "opened", "sending", "success", "failed"}]
        BY <1>11 DEF InitUpload
    <3>7. active' \in SUBSET Uploads
        BY <1>11 DEF InitUpload
    <3>8. authorized' \in BOOLEAN
        BY <1>11, Zenon DEF InitUpload
    <3>9. UNCHANGED <<clock, crashes, sent, handled, link, lock, finalizing, nextVer, stored, versions, lost>>
        BY <1>11, Zenon DEF InitUpload
    <3>10. QED
        BY <3>2, <3>4, <3>5, <3>6, <3>7, <3>8, <3>9
  <2>3. CASE UNCHANGED <<session, name, bytesDone, active, part>>
      BY <1>11, <2>3 DEF InitUpload
  <2>4. QED
      BY <1>11, <2>2, <2>3 DEF InitUpload
<1>12. ASSUME NEW u \in Uploads, dial(u)
      PROVE  TypeOK'
    BY <1>0, <1>12 DEF dial
<1>13. ASSUME NEW u \in Uploads, send_frame(u)
      PROVE  TypeOK'
    BY <1>0, <1>13 DEF send_frame
<1>14. ASSUME NEW u \in Uploads, mark_backed_up(u)
      PROVE  TypeOK'
    BY <1>0, <1>14 DEF mark_backed_up
<1>15. CASE UNCHANGED vars
    BY <1>15 DEF vars
<1>16. QED
    BY <1>1, <1>2, <1>3, <1>4, <1>5, <1>6, <1>7, <1>8, <1>9, <1>10, <1>11, <1>12, <1>13, <1>14, <1>15, <1>17
    DEF Next, Environment, Agent, Backend

(* Steps of the clock, the connections and the agent leave names, frames      *)
(* handled, files and rows alone, and with them most of the invariant.        *)
LEMMA BackendIdle ==
    ASSUME IInv,
           UNCHANGED <<handled, name, active, lock, finalizing, nextVer, part, stored, versions, lost>>
    PROVE  /\ RecordedOnce' /\ PartOwned' /\ Content'
           /\ RecordedFilesExist' /\ VersionNumbersDense' /\ Numbered' /\ FilesShort' /\ IntactIfShort'
<1>1. Numbered' /\ FilesShort'
    BY DEF IInv, Numbered, NextVersion, VersionsOf, FilesShort
<1>2. QED
    BY <1>1 DEF IInv, RecordedOnce, PartOwned, Content, RecordedFilesExist, VersionNumbersDense,
       IntactIfShort, Disturbed, SharesName, Received, VersionsOf

(* Every step keeps the inductive invariant.                                  *)
LEMMA InvStep == IInv /\ [Next]_vars => IInv'
<1> SUFFICES ASSUME IInv, [Next]_vars
             PROVE  IInv'
    OBVIOUS
<1> USE UploadAssumption
<1>0. /\ TypeOK /\ TypeOK'
      /\ \A u \in Uploads : /\ Done(u) \in Nat /\ Chunks[u] \in Nat \ {0}
                             /\ Done(u) = Chunks[u] + 1
                             /\ handled[u] \in Nat
    BY TypeStep DEF IInv, Done, TypeOK
<1>a. versions' = versions => VersionNumbersDense'
    BY DEF IInv, VersionNumbersDense, VersionsOf
<1>b. \A r \in versions : r.upload \in Uploads /\ r.name \in Names
    BY <1>0 DEF TypeOK, Row
<1>c. ASSUME UNCHANGED <<name, versions>>, lost \subseteq lost',
             \A r \in versions : ~Disturbed(r.upload)' => stored'[r.name] = stored[r.name]
      PROVE  IntactIfShort'
  <2>1. \A r \in versions : ~Disturbed(r.upload)' => ~Disturbed(r.upload)
      BY <1>c DEF Disturbed, SharesName
  <2>2. QED
      BY <1>c, <2>1 DEF IInv, IntactIfShort, AsSent
<1>d. ASSUME UNCHANGED versions, \A u \in Uploads : finalizing'[u] = "numbered" =>
                                    finalizing[u] = "numbered" /\ nextVer'[u] = nextVer[u]
      PROVE  Numbered'
    BY <1>d DEF IInv, Numbered, NextVersion, VersionsOf
<1>e. UNCHANGED <<part, stored>> => FilesShort'
    BY DEF IInv, FilesShort
<1> USE DEF agentVars, svcVars, diskVars
<1>1. ASSUME Tick
      PROVE  IInv'
  <2>1. UNCHANGED <<handled, name, active, lock, finalizing, nextVer, part, stored, versions, lost>>
      BY <1>1 DEF Tick
  <2>2. Sessions'
      BY <1>0, <1>1, <2>1 DEF Tick, IInv, Sessions, TypeOK
  <2>3. QED
      BY <1>0, <2>1, <2>2, BackendIdle DEF IInv
<1>2. ASSUME TokenDeleted
      PROVE  IInv'
  <2>1. UNCHANGED <<handled, name, active, lock, finalizing, nextVer, part, stored, versions, lost>>
      BY <1>2 DEF TokenDeleted
  <2>2. Sessions'
      BY <1>0, <1>2, <2>1 DEF TokenDeleted, IInv, Sessions, TypeOK
  <2>3. QED
      BY <1>0, <2>1, <2>2, BackendIdle DEF IInv
<1>3. ASSUME NEW u \in Uploads, LinkBreaks(u)
      PROVE  IInv'
  <2>1. UNCHANGED <<handled, name, active, lock, finalizing, nextVer, part, stored, versions, lost>>
      BY <1>3 DEF LinkBreaks
  <2>2. Sessions'
      BY <1>0, <1>3, <2>1 DEF LinkBreaks, IInv, Sessions, TypeOK
  <2>3. QED
      BY <1>0, <2>1, <2>2, BackendIdle DEF IInv
<1>4. ASSUME Crash
      PROVE  IInv'
  <2>1. Sessions'
      BY <1>0, <1>4 DEF Crash, IInv, Sessions, TypeOK
  <2>2. RecordedOnce'
      BY <1>0, <1>b, <1>4 DEF Crash, IInv, Sessions, RecordedOnce, TypeOK
  <2>3. PartOwned'
      BY <1>0, <1>4 DEF Crash, IInv, Sessions, PartOwned, TypeOK
  <2>4. Content'
      BY <1>0, <1>4 DEF Crash, IInv, Sessions, Content, Disturbed, SharesName, Received, TypeOK
  <2>5. RecordedFilesExist'
      BY <1>0, <1>b, <1>4 DEF Crash, IInv, Sessions, RecordedOnce, RecordedFilesExist, TypeOK
  <2>6. IntactIfShort'
      BY <1>c, <1>4 DEF Crash
  <2>7. VersionNumbersDense'
      BY <1>a, <1>4 DEF Crash
  <2>9. Numbered'
      BY <1>0, <1>d, <1>4 DEF Crash, TypeOK
  <2>10. FilesShort'
      BY <1>e, <1>4 DEF Crash
  <2>8. QED
      BY <1>0, <2>1, <2>2, <2>3, <2>4, <2>5, <2>6, <2>7, <2>9, <2>10 DEF IInv
<1>5. ASSUME NEW u \in Uploads, handleMsgLogin(u)
      PROVE  IInv'
  <2>1. Sessions'
      BY <1>0, <1>5 DEF handleMsgLogin, Arrives, IInv, Sessions, TypeOK
  <2>2. RecordedOnce'
      BY <1>0, <1>b, <1>5 DEF handleMsgLogin, Arrives, IInv, Sessions, RecordedOnce, TypeOK
  <2>3. PartOwned'
      BY <1>0, <1>5 DEF handleMsgLogin, Arrives, IInv, Sessions, PartOwned, TypeOK
  <2>4. Content'
      BY <1>0, <1>5 DEF handleMsgLogin, Arrives, IInv, Sessions, Content, Disturbed, SharesName, Received, TypeOK
  <2>5. RecordedFilesExist'
      BY <1>0, <1>b, <1>5 DEF handleMsgLogin, Arrives, IInv, Sessions, RecordedOnce, RecordedFilesExist, TypeOK
  <2>6. IntactIfShort'
      BY <1>c, <1>5 DEF handleMsgLogin, Arrives
  <2>7. VersionNumbersDense'
      BY <1>a, <1>5 DEF handleMsgLogin, Arrives
  <2>9. Numbered'
      BY <1>0, <1>d, <1>5 DEF handleMsgLogin, Arrives, TypeOK
  <2>10. FilesShort'
      BY <1>e, <1>5 DEF handleMsgLogin, Arrives
  <2>8. QED
      BY <1>0, <2>1, <2>2, <2>3, <2>4, <2>5, <2>6, <2>7, <2>9, <2>10 DEF IInv
<1>6. ASSUME NEW u \in Uploads, NEW i \in 1..Done(u), frame_dropped(u, i)
      PROVE  IInv'
  <2>1. Sessions'
      BY <1>0, <1>6 DEF frame_dropped, Arrives, IInv, Sessions, TypeOK
  <2>2. RecordedOnce'
      BY <1>0, <1>b, <1>6 DEF frame_dropped, Arrives, IInv, Sessions, RecordedOnce, TypeOK
  <2>3. PartOwned'
      BY <1>0, <1>6 DEF frame_dropped, Arrives, IInv, Sessions, PartOwned, TypeOK
  <2>4. Content'
      BY <1>0, <1>6 DEF frame_dropped, Arrives, IInv, Sessions, Content, Disturbed, SharesName, Received, TypeOK
  <2>5. RecordedFilesExist'
      BY <1>0, <1>b, <1>6 DEF frame_dropped, Arrives, IInv, Sessions, RecordedOnce, RecordedFilesExist, TypeOK
  <2>6. IntactIfShort'
      BY <1>c, <1>6 DEF frame_dropped, Arrives
  <2>7. VersionNumbersDense'
      BY <1>a, <1>6 DEF frame_dropped, Arrives
  <2>9. Numbered'
      BY <1>0, <1>d, <1>6 DEF frame_dropped, Arrives, TypeOK
  <2>10. FilesShort'
      BY <1>e, <1>6 DEF frame_dropped, Arrives
  <2>8. QED
      BY <1>0, <2>1, <2>2, <2>3, <2>4, <2>5, <2>6, <2>7, <2>9, <2>10 DEF IInv
<1>7. ASSUME NEW u \in Uploads, NEW i \in 1..Done(u), handleFileChunk(u, i)
      PROVE  IInv'
  <2>1. Sessions' /\ PartOwned'
      BY <1>0, <1>7 DEF handleFileChunk, Arrives, IInv, Sessions, PartOwned, TypeOK
  <2>2. RecordedOnce' /\ RecordedFilesExist'
      BY <1>0, <1>b, <1>7 DEF handleFileChunk, Arrives, IInv, RecordedOnce, RecordedFilesExist, TypeOK
  <2>3. Content'
    <3>1. /\ UNCHANGED <<name, lost, active, stored, finalizing>>
          /\ handled[u] = i /\ handled' = [handled EXCEPT ![u] = i + 1]
          /\ i <= Chunks[u] /\ u \in active /\ name[u] \in Names
          /\ part' = [part EXCEPT ![name[u]] = WriteAt(part[name[u]], Place(i), <<u, i>>)]
        BY <1>0, <1>7 DEF handleFileChunk, Arrives, IInv, Sessions, TypeOK
    <3>n. \A v \in Uploads : finalizing[v] = "no"
        BY <1>7 DEF handleFileChunk, Arrives, IInv, Sessions
    <3>2. ASSUME NEW v \in Uploads, ~Disturbed(v)', Chunks[v] <= Wrap, v \in active, handled'[v] <= Done(v)
          PROVE  part'[name[v]] = Prefix(v, Received(v)')
      <4>1. ~Disturbed(v)
          BY <3>1, <3>2 DEF Disturbed, SharesName
      <4>2. CASE v = u
        <5>1. part[name[u]] = Prefix(u, i - 1)
            BY <1>0, <3>1, <3>2, <4>1, <4>2 DEF IInv, Content, Received
        <5>2. i \in Nat \ {0} /\ i - 1 \in Nat /\ i = (i - 1) + 1 /\ i <= Wrap
            BY <1>0, <3>1, <3>2, <4>2
        <5>3. Place(i) = i
            BY <5>2, PlaceFacts
        <5>6. WriteAt(Prefix(u, i - 1), i, <<u, i>>) = Prefix(u, i)
            BY <5>2, WriteAtAppends
        <5>4. Received(u)' = i
            BY <1>0, <3>1 DEF Received, TypeOK
        <5>5. QED
            BY <1>0, <3>1, <4>2, <5>1, <5>3, <5>4, <5>6 DEF TypeOK
      <4>3. CASE v # u
        <5>1. name[v] # name[u]
            BY <4>1, <4>3 DEF Disturbed, SharesName
        <5>2. part'[name[v]] = part[name[v]] /\ Received(v)' = Received(v) /\ handled'[v] = handled[v]
            BY <1>0, <3>1, <3>2, <4>3, <5>1 DEF TypeOK, Received, IInv, Sessions
        <5>3. QED
            BY <3>2, <4>1, <5>2 DEF IInv, Content
      <4>4. QED
          BY <4>2, <4>3
    <3>3. QED
        BY <3>1, <3>n, <3>2 DEF Content, Done
  <2>4. IntactIfShort' /\ VersionNumbersDense'
      BY <1>a, <1>c, <1>7 DEF handleFileChunk
  <2>6. Numbered'
      BY <1>d, <1>7 DEF handleFileChunk
  <2>7. FilesShort'
    <3> DEFINE f == part[name[u]]
               w == WriteAt(f, Place(i), <<u, i>>)
    <3>1. name[u] \in Names /\ f \in Seq(Pieces) /\ part' = [part EXCEPT ![name[u]] = w] /\ stored' = stored
        BY <1>0, <1>7 DEF handleFileChunk, IInv, Sessions, TypeOK, Files
    <3>2. i \in Nat \ {0} /\ Place(i) \in 1..Wrap /\ <<u, i>> \in Pieces
        BY <1>0, PlaceFacts DEF Pieces
    <3>3. Place(i) \in Nat \ {0} /\ Place(i) <= Wrap
        BY <3>2
    <3>4. Len(f) <= Wrap /\ Len(f) \in Nat
        BY <1>7, <3>1, LenProperties DEF handleFileChunk, IInv, FilesShort, Short
    <3> HIDE DEF f
    <3>5. Len(w) = IF Len(f) < Place(i) THEN Place(i) ELSE Len(f)
        BY <3>1, <3>2, <3>3, WriteAtType
    <3> HIDE DEF w
    <3>6. Short(w)
        BY <3>3, <3>4, <3>5 DEF Short
    <3>7. \A n \in Names : part'[n] = w \/ part'[n] = part[n]
        BY <1>0, <3>1 DEF TypeOK
    <3>8. ASSUME NEW n \in Names
          PROVE  Short(part'[n]) /\ Short(stored'[n])
        BY <3>1, <3>6, <3>7 DEF IInv, FilesShort
    <3>9. \A n \in Names : Short(part'[n]) = Short(part[n])' /\ Short(stored'[n]) = Short(stored[n])'
        BY DEF Short
    <3>10. QED
        BY <3>8, <3>9 DEF FilesShort
  <2>5. QED
      BY <1>0, <2>1, <2>2, <2>3, <2>4, <2>6, <2>7 DEF IInv
<1>8. ASSUME NEW u \in Uploads, handleFileDone(u)
      PROVE  IInv'
  <2>1. Sessions'
      BY <1>0, <1>8 DEF handleFileDone, Arrives, IInv, Sessions, TypeOK
  <2>2. RecordedOnce'
      BY <1>0, <1>b, <1>8 DEF handleFileDone, Arrives, IInv, Sessions, RecordedOnce, TypeOK
  <2>3. PartOwned'
      BY <1>0, <1>8 DEF handleFileDone, Arrives, IInv, Sessions, PartOwned, TypeOK
  <2>4. Content'
      BY <1>0, <1>8 DEF handleFileDone, Arrives, IInv, Sessions, Content, Disturbed, SharesName, Received, TypeOK
  <2>5. RecordedFilesExist'
      BY <1>0, <1>b, <1>8 DEF handleFileDone, Arrives, IInv, Sessions, RecordedOnce, RecordedFilesExist, TypeOK
  <2>6. IntactIfShort'
      BY <1>0, <1>b, <1>c, <1>8 DEF handleFileDone, Arrives, IInv, RecordedOnce, Disturbed, SharesName, TypeOK
  <2>7. VersionNumbersDense'
      BY <1>a, <1>8 DEF handleFileDone, Arrives
  <2>9. Numbered'
      BY <1>0, <1>d, <1>8 DEF handleFileDone, Arrives, TypeOK
  <2>10. FilesShort'
    <3>1. name[u] \in Names
        BY <1>8 DEF handleFileDone, IInv, Sessions
    <3>2. \/ stored' = [stored EXCEPT ![name[u]] = part[name[u]]] /\ part' = [part EXCEPT ![name[u]] = Absent]
          \/ UNCHANGED <<part, stored>>
        BY <1>8 DEF handleFileDone
    <3>3. Short(Absent) /\ \A n \in Names : Short(part[n]) /\ Short(stored[n])
        BY DEF Short, IInv, FilesShort
    <3>4. \A n \in Names : (part'[n] \in {Absent, part[n]}) /\ (stored'[n] \in {part[n], stored[n]})
        BY <1>0, <3>1, <3>2 DEF TypeOK
    <3>5. \A n \in Names : Short(part'[n]) /\ Short(stored'[n])
        BY <3>3, <3>4
    <3>6. QED
        BY <3>5 DEF FilesShort, Short
  <2>8. QED
      BY <1>0, <2>1, <2>2, <2>3, <2>4, <2>5, <2>6, <2>7, <2>9, <2>10 DEF IInv
<1>9. ASSUME NEW u \in Uploads, record_version(u)
      PROVE  IInv'
  <2> DEFINE p == PathOf[u]
             row == [upload |-> u, path |-> p, version |-> NextVersion(p),
                     name |-> name[u], size |-> Chunks[u]]
             Rows(q) == {r \in versions : r.path = q}
  <2>0. finalizing[u] = "numbered" /\ nextVer[u] = NextVersion(p) /\ lock = u
      BY <1>9 DEF record_version, IInv, Numbered, Sessions
  <2>1. versions' = versions \union {row}
      BY <1>9, <2>0 DEF record_version, RowOf
  <2>2. \A r \in versions : r.upload # u
      BY <2>0 DEF IInv, RecordedOnce
  <2>9. /\ lock' = Nobody /\ finalizing' = [finalizing EXCEPT ![u] = "no"]
        /\ \A v \in Uploads : finalizing'[v] = "no"
    <3>1. lock' = Nobody /\ finalizing' = [finalizing EXCEPT ![u] = "no"]
        BY <1>9, <2>0 DEF record_version, FinalizeReturns
    <3>2. \A v \in Uploads : v # u => finalizing[v] = "no"
        BY <2>0 DEF IInv, Sessions
    <3>3. QED
        BY <1>0, <3>1, <3>2 DEF TypeOK
  <2>3. Sessions' /\ PartOwned' /\ Content'
      BY <1>0, <1>9, <2>9
      DEF record_version, IInv, Sessions, PartOwned, Content, Disturbed, SharesName, Received, TypeOK
  <2>10. Numbered' /\ FilesShort'
      BY <1>9, <1>e, <2>9 DEF record_version, Numbered
  <2>4. RecordedOnce'
    <3>1. IsFiniteSet(versions')
        BY <2>1, FS_AddElement DEF IInv, RecordedOnce
    <3>2. ASSUME NEW r \in versions
          PROVE  (r.name = name[r.upload] /\ handled[r.upload] = Done(r.upload) + 1)
                 /\ finalizing'[r.upload] = "no"
        BY <1>b, <2>9 DEF IInv, RecordedOnce
    <3>3. row.name = name[row.upload] /\ handled[row.upload] = Done(row.upload) + 1
          /\ finalizing'[row.upload] = "no"
        BY <2>0, <2>9 DEF IInv, Sessions
    <3>4. UNCHANGED <<name, handled>>
        BY <1>9 DEF record_version
    <3>5. QED
        BY <2>1, <3>1, <3>2, <3>3, <3>4 DEF RecordedOnce, Done
  <2>5. RecordedFilesExist'
    <3>1. stored[row.name] # Absent /\ stored' = stored
        BY <1>9, <2>0 DEF record_version, IInv, Sessions
    <3>2. QED
        BY <2>1, <3>1 DEF IInv, RecordedFilesExist
  <2>6. IntactIfShort'
    <3>1. UNCHANGED <<name, lost, stored>>
        BY <1>9 DEF record_version
    <3>2. \A v \in Uploads : Disturbed(v)' = Disturbed(v)
        BY <3>1 DEF Disturbed, SharesName
    <3>3. ~Disturbed(u) /\ Chunks[u] <= Wrap => stored[row.name] = AsSent(row.upload)
        BY <2>0 DEF IInv, Content, Prefix, AsSent
    <3>4. row.upload = u
        OBVIOUS
    <3>5. ASSUME NEW r \in versions', ~Disturbed(r.upload)', Chunks[r.upload] <= Wrap
          PROVE  stored'[r.name] = AsSent(r.upload)
      <4>1. CASE r = row
          BY <3>1, <3>2, <3>3, <3>4, <3>5, <4>1
      <4>2. CASE r \in versions
          BY <1>b, <3>1, <3>2, <3>5, <4>2 DEF IInv, IntactIfShort
      <4>3. QED
          BY <2>1, <4>1, <4>2
    <3>6. QED
        BY <3>5 DEF IntactIfShort, AsSent
  <2>7. VersionNumbersDense'
    <3>1. p \in Paths
        OBVIOUS
    <3>2. \A q \in Paths : IsFiniteSet(Rows(q)) /\ VersionsOf(q) = 1..Cardinality(Rows(q))
        BY FS_Subset DEF IInv, RecordedOnce, VersionNumbersDense
    <3>3. PICK n \in Nat : n = Cardinality(Rows(p))
        BY <3>1, <3>2, FS_CardinalityType
    <3>4. NextVersion(p) = n + 1
        BY <3>1, <3>2, <3>3, NextVersionIsNext
    <3>5. ASSUME NEW q \in Paths, q # p
          PROVE  VersionsOf(q)' = 1..Cardinality({r \in versions' : r.path = q})
      <4>1. {r \in versions' : r.path = q} = Rows(q)
          BY <2>1, <3>5
      <4>2. QED
          BY <3>2, <4>1 DEF VersionsOf
    <3>6. VersionsOf(p)' = 1..Cardinality({r \in versions' : r.path = p})
      <4>1. {r \in versions' : r.path = p} = Rows(p) \union {row}
          BY <2>1
      <4>2. row \notin Rows(p)
          BY <2>2
      <4>3. Cardinality({r \in versions' : r.path = p}) = n + 1
        <5>1. IsFiniteSet(Rows(p))
            BY <3>1, <3>2
        <5> HIDE DEF row, Rows
        <5>2. Cardinality(Rows(p) \union {row}) = Cardinality(Rows(p)) + 1
            BY <4>2, <5>1, FS_AddElement
        <5>3. QED
            BY <3>3, <4>1, <5>2
      <4>4. VersionsOf(p)' = VersionsOf(p) \union {n + 1}
        <5>1. VersionsOf(p)' = {r.version : r \in Rows(p) \union {row}}
            BY <4>1 DEF VersionsOf
        <5>2. VersionsOf(p) = {r.version : r \in Rows(p)}
            BY DEF VersionsOf
        <5>3. row.version = n + 1
            BY <3>4
        <5> HIDE DEF row, Rows
        <5>4. QED
            BY <5>1, <5>2, <5>3
      <4>5. 1..(n + 1) = 1..n \union {n + 1}
        <5>1. \A k : k \in 1..(n + 1) <=> k \in 1..n \/ k = n + 1
            OBVIOUS
        <5>2. QED
            BY <5>1
      <4>6. QED
          BY <3>1, <3>2, <3>3, <4>3, <4>4, <4>5
    <3>7. \A r, q \in versions' : r.upload = q.upload => r = q
        BY <2>1, <2>2 DEF IInv, VersionNumbersDense
    <3>8. QED
        BY <3>5, <3>6, <3>7 DEF VersionNumbersDense
  <2>8. QED
      BY <1>0, <2>3, <2>4, <2>5, <2>6, <2>7, <2>10 DEF IInv
<1>17. ASSUME NEW u \in Uploads, number_version(u)
      PROVE  IInv'
  <2>1. /\ UNCHANGED <<agent, sent, handled, name, active, lock, part, stored, versions, lost>>
        /\ finalizing[u] = "renamed" /\ finalizing' = [finalizing EXCEPT ![u] = "numbered"]
        /\ nextVer' = [nextVer EXCEPT ![u] = NextVersion(PathOf[u])]
      BY <1>17 DEF number_version
  <2>2. \A v \in Uploads : (finalizing'[v] = "no") = (finalizing[v] = "no")
      BY <1>0, <2>1 DEF TypeOK
  <2>3. Sessions' /\ RecordedOnce' /\ PartOwned' /\ RecordedFilesExist' /\ VersionNumbersDense'
      BY <1>a, <1>b, <2>1, <2>2 DEF IInv, Sessions, RecordedOnce, PartOwned, RecordedFilesExist, Done
  <2>4. Content' /\ IntactIfShort' /\ FilesShort'
      BY <1>c, <1>e, <2>1, <2>2 DEF IInv, Content, Disturbed, SharesName, Received, Done
  <2>5. Numbered'
    <3>1. ASSUME NEW v \in Uploads, finalizing'[v] = "numbered"
          PROVE  nextVer'[v] = NextVersion(PathOf[v])
      <4>1. CASE v = u
          BY <1>0, <2>1, <4>1 DEF TypeOK
      <4>2. CASE v # u
          BY <1>0, <2>1, <3>1, <4>2 DEF TypeOK, IInv, Numbered
      <4>3. QED
          BY <4>1, <4>2
    <3>2. \A p : NextVersion(p)' = NextVersion(p)
        BY <2>1 DEF NextVersion, VersionsOf
    <3>3. QED
        BY <3>1, <3>2 DEF Numbered
  <2>6. QED
      BY <1>0, <2>3, <2>4, <2>5 DEF IInv
<1>10. ASSUME NEW u \in Uploads, record_fails(u)
      PROVE  IInv'
  <2>1. Sessions'
      BY <1>0, <1>10 DEF record_fails, FinalizeReturns, IInv, Sessions, TypeOK
  <2>2. RecordedOnce'
      BY <1>0, <1>b, <1>10 DEF record_fails, FinalizeReturns, IInv, Sessions, RecordedOnce, TypeOK
  <2>3. PartOwned'
      BY <1>0, <1>10 DEF record_fails, FinalizeReturns, IInv, Sessions, PartOwned, TypeOK
  <2>4. Content'
      BY <1>0, <1>10 DEF record_fails, FinalizeReturns, IInv, Sessions, Content, Disturbed, SharesName, Received, TypeOK
  <2>5. RecordedFilesExist'
      BY <1>0, <1>b, <1>10 DEF record_fails, FinalizeReturns, IInv, Sessions, RecordedOnce, RecordedFilesExist, TypeOK
  <2>6. IntactIfShort'
      BY <1>c, <1>10 DEF record_fails
  <2>7. VersionNumbersDense'
      BY <1>a, <1>10 DEF record_fails
  <2>9. Numbered'
      BY <1>0, <1>d, <1>10 DEF record_fails, FinalizeReturns, TypeOK
  <2>10. FilesShort'
      BY <1>e, <1>10 DEF record_fails
  <2>8. QED
      BY <1>0, <2>1, <2>2, <2>3, <2>4, <2>5, <2>6, <2>7, <2>9, <2>10 DEF IInv
<1>11. ASSUME NEW u \in Uploads, InitUpload(u)
      PROVE  IInv'
  <2> DEFINE n == StoredName(u)
  <2>1. /\ n \in Names /\ name[u] = NoName /\ lock = Nobody /\ u \notin active
        /\ handled[u] = 0
      BY <1>0, <1>11 DEF InitUpload, StoredName, Names, TypeOK, IInv, Sessions
  <2>2. UNCHANGED <<sent, handled, lock, finalizing, nextVer, stored, versions, lost>> /\ agent'[u] # "idle"
        /\ \A v \in Uploads \ {u} : agent'[v] = agent[v]
      BY <1>0, <1>11 DEF InitUpload, TypeOK
  <2>3. CASE UNCHANGED <<name, active, part>>
    <3>1. Sessions'
        BY <1>0, <2>2, <2>3 DEF IInv, Sessions
    <3>2. QED
        BY <1>0, <2>2, <2>3, <3>1, BackendIdle DEF IInv
  <2>4. CASE PrepareUpload(u, n) /\ active' = active \union {u}
    <3>1. name' = [name EXCEPT ![u] = n]
        BY <2>4 DEF PrepareUpload
    <3>2. part' = IF part[n] = Absent THEN [part EXCEPT ![n] = <<>>] ELSE part
        BY <2>4, Zenon DEF PrepareUpload
    <3>3. \A v \in Uploads : name[v] \in Names => v # u /\ name'[v] = name[v]
        BY <1>0, <2>1, <3>1 DEF TypeOK
    <3>4. name'[u] = n
        BY <1>0, <3>1 DEF TypeOK
    <3>5. Sessions'
        BY <1>0, <2>1, <2>2, <2>4, <3>1, <3>3, <3>4 DEF IInv, Sessions, TypeOK
    <3>6. \A r \in versions : name[r.upload] \in Names
        BY <1>b DEF IInv, RecordedOnce
    <3>7. RecordedOnce' /\ RecordedFilesExist'
        BY <1>b, <2>2, <3>3, <3>6 DEF IInv, RecordedOnce, RecordedFilesExist, Done
    <3>8. PartOwned'
      <4>1. ASSUME NEW k \in Names, part'[k] # Absent
            PROVE  \E v \in Uploads : name'[v] = k
        <5>1. CASE k = n
            BY <3>4, <5>1
        <5>2. CASE k # n
          <6>1. part[k] # Absent
              BY <1>0, <3>2, <4>1, <5>2 DEF TypeOK
          <6>2. PICK v \in Uploads : name[v] = k
              BY <6>1 DEF IInv, PartOwned
          <6>3. QED
              BY <3>3, <6>2
        <5>3. QED
            BY <5>1, <5>2
      <4>2. QED
          BY <4>1 DEF PartOwned
    <3>9. \A v \in Uploads : name[v] \in Names /\ ~Disturbed(v)' => ~Disturbed(v) /\ name[v] # n
        BY <1>0, <2>1, <2>2, <3>1, <3>3, <3>4 DEF Disturbed, SharesName, TypeOK
    <3>10. Content'
      <4>1. ASSUME NEW v \in Uploads, ~Disturbed(v)', Chunks[v] <= Wrap, v \in active', handled[v] <= Done(v)
            PROVE  part'[name'[v]] = Prefix(v, Received(v))
        <5>1. CASE v = u
          <6>1. part[n] = Absent
            <7>1. ASSUME NEW w \in Uploads, name[w] = n
                  PROVE  FALSE
                BY <2>1, <3>3, <3>4, <4>1, <5>1, <7>1 DEF Disturbed, SharesName
            <7>2. QED
                BY <2>1, <7>1 DEF IInv, PartOwned
          <6>2. part'[n] = <<>>
              BY <1>0, <2>1, <3>2, <6>1 DEF TypeOK
          <6>3. Prefix(u, Received(u)) = <<>>
              BY <2>1 DEF Prefix, Received
          <6>4. QED
              BY <3>4, <5>1, <6>2, <6>3
        <5>2. CASE v # u
          <6>1. v \in active /\ name[v] \in Names
              BY <2>4, <4>1, <5>2 DEF IInv, Sessions
          <6>2. ~Disturbed(v) /\ name[v] # n
              BY <3>9, <4>1, <6>1
          <6>3. part'[name[v]] = part[name[v]] /\ name'[v] = name[v]
              BY <1>0, <3>2, <3>3, <6>1, <6>2 DEF TypeOK
          <6>4. QED
              BY <4>1, <6>1, <6>2, <6>3 DEF IInv, Content
        <5>3. QED
            BY <5>1, <5>2
      <4>2. \A v \in Uploads : finalizing'[v] = "no"
          BY <2>1, <2>2 DEF IInv, Sessions
      <4>3. QED
          BY <2>2, <4>1, <4>2 DEF Content, Received, Done
    <3>11. IntactIfShort' /\ Numbered'
        BY <1>b, <1>d, <2>2, <3>6, <3>9 DEF IInv, IntactIfShort, AsSent
    <3>13. FilesShort'
      <4>1. Len(<<>>) = 0
          OBVIOUS
      <4>2. Short(<<>>)
          BY <4>1 DEF Short
      <4>3. \A k \in Names : part'[k] = <<>> \/ part'[k] = part[k]
          BY <1>0, <2>1, <3>2 DEF TypeOK
      <4>4. \A k \in Names : Short(part'[k]) /\ Short(stored'[k])
          BY <2>2, <4>2, <4>3 DEF IInv, FilesShort
      <4>5. QED
          BY <4>4 DEF FilesShort, Short
    <3>12. QED
        BY <1>0, <1>a, <2>2, <3>5, <3>7, <3>8, <3>10, <3>11, <3>13 DEF IInv
  <2>5. QED
      BY <1>11, <2>3, <2>4 DEF InitUpload
<1>12. ASSUME NEW u \in Uploads, dial(u)
      PROVE  IInv'
  <2>1. UNCHANGED <<handled, name, active, lock, finalizing, nextVer, part, stored, versions, lost>>
      BY <1>12 DEF dial
  <2>2. Sessions'
      BY <1>0, <1>12, <2>1 DEF dial, IInv, Sessions, TypeOK
  <2>3. QED
      BY <1>0, <2>1, <2>2, BackendIdle DEF IInv
<1>13. ASSUME NEW u \in Uploads, send_frame(u)
      PROVE  IInv'
  <2>1. UNCHANGED <<handled, name, active, lock, finalizing, nextVer, part, stored, versions, lost>>
      BY <1>13 DEF send_frame
  <2>2. Sessions'
      BY <1>0, <1>13, <2>1 DEF send_frame, IInv, Sessions, TypeOK
  <2>3. QED
      BY <1>0, <2>1, <2>2, BackendIdle DEF IInv
<1>14. ASSUME NEW u \in Uploads, mark_backed_up(u)
      PROVE  IInv'
  <2>1. UNCHANGED <<handled, name, active, lock, finalizing, nextVer, part, stored, versions, lost>>
      BY <1>14 DEF mark_backed_up
  <2>2. Sessions'
      BY <1>0, <1>14, <2>1 DEF mark_backed_up, IInv, Sessions, TypeOK
  <2>3. QED
      BY <1>0, <2>1, <2>2, BackendIdle DEF IInv
<1>15. CASE UNCHANGED vars
  <2>1. Sessions'
      BY <1>15 DEF vars, IInv, Sessions
  <2>2. QED
      BY <1>0, <1>15, <2>1, BackendIdle DEF IInv, vars
<1>16. QED
    BY <1>1, <1>2, <1>3, <1>4, <1>5, <1>6, <1>7, <1>8, <1>9, <1>10, <1>11, <1>12, <1>13, <1>14, <1>15, <1>17
    DEF Next, Environment, Agent, Backend

-----------------------------------------------------------------------------
(* Type correctness of the upload protocol, with backend crashes.             *)
THEOREM UploadTypeCorrect == Spec => []TypeOK
<1>1. IInv => TypeOK
    BY DEF IInv
<1>2. QED
    BY <1>1, InvInit, InvStep, PTL DEF Spec

(* FinalizeUpload renames before it writes the row, and a stored file is only  *)
(* ever replaced: every version offered has its file.                         *)
THEOREM VersionsHaveFiles == Spec => []RecordedFilesExist
<1>1. IInv => RecordedFilesExist
    BY DEF IInv
<1>2. QED
    BY <1>1, InvInit, InvStep, PTL DEF Spec

(* Under the service's mutex the versions of a path are numbered 1..n, one    *)
(* row per upload, for any number of concurrent uploads.                      *)
THEOREM VersionsAreDense == Spec => []VersionNumbersDense
<1>1. IInv => VersionNumbersDense
    BY DEF IInv
<1>2. QED
    BY <1>1, InvInit, InvStep, PTL DEF Spec

(* An upload that no other session disturbs and no backend error hits is      *)
(* stored as it was sent, or not recorded, if its offsets fit into 32 bits;   *)
(* if they do not, what is recorded is never what was sent.                   *)
THEOREM UndisturbedUploadsIntact == Spec => []UndisturbedIsIntact
<1>1. IInv => UndisturbedIsIntact
  <2> SUFFICES ASSUME IInv, NEW r \in versions, ~Disturbed(r.upload)
               PROVE  stored[r.name] = AsSent(r.upload) <=> Chunks[r.upload] <= Wrap
      BY DEF UndisturbedIsIntact
  <2>1. r.upload \in Uploads /\ r.name \in Names /\ Chunks[r.upload] \in Nat /\ Wrap \in Nat
      BY UploadAssumption DEF IInv, TypeOK, Row
  <2>2. AsSent(r.upload) = Prefix(r.upload, Chunks[r.upload])
      BY DEF AsSent, Prefix
  <2>3. Len(AsSent(r.upload)) = Chunks[r.upload]
      BY <2>1, <2>2, PrefixType
  <2>4. Len(stored[r.name]) <= Wrap
      BY <2>1 DEF IInv, FilesShort, Short, RecordedFilesExist
  <2>5. Chunks[r.upload] <= Wrap => stored[r.name] = AsSent(r.upload)
      BY DEF IInv, IntactIfShort
  <2>6. QED
      BY <2>1, <2>3, <2>4, <2>5
<1>2. QED
    BY <1>1, InvInit, InvStep, PTL DEF Spec

-----------------------------------------------------------------------------
(* VersionHistory.  A path has one row of a version, so that the row chosen   *)
(* for a place of its history is that one, and stays it.                      *)
DistinctVersions ==
    \A r, q \in versions : r.path = q.path /\ r.version = q.version => r = q

(* The only row of a version is the one chosen.                               *)
LEMMA ChosenRow ==
    ASSUME NEW S, NEW i, NEW r \in S, r.version = i, \A q \in S : q.version = i => q = r
    PROVE  (CHOOSE q \in S : q.version = i) = r
OBVIOUS

(* The rows of a path are numbered without a gap, each in its place.          *)
LEMMA RowsInPlace ==
    ASSUME IInv, DistinctVersions, NEW p \in Paths
    PROVE  /\ IsFiniteSet(RowsOf(p)) /\ Cardinality(RowsOf(p)) \in Nat
           /\ VersionsOf(p) = 1..Cardinality(RowsOf(p))
           /\ \A i \in 1..Cardinality(RowsOf(p)) :
                 VersionRow(p, i) \in RowsOf(p) /\ VersionRow(p, i).version = i
           /\ \A r \in RowsOf(p) : r.version \in 1..Cardinality(RowsOf(p))
<1>1. IsFiniteSet(RowsOf(p))
    BY FS_Subset DEF IInv, RecordedOnce, RowsOf
<1>2. Cardinality(RowsOf(p)) \in Nat
    BY <1>1, FS_CardinalityType
<1>3. VersionsOf(p) = 1..Cardinality(RowsOf(p)) /\ VersionsOf(p) = {r.version : r \in RowsOf(p)}
    BY DEF IInv, VersionNumbersDense, VersionsOf, RowsOf
<1>4. ASSUME NEW i \in 1..Cardinality(RowsOf(p))
      PROVE  VersionRow(p, i) \in RowsOf(p) /\ VersionRow(p, i).version = i
  <2>1. \E r \in RowsOf(p) : r.version = i
      BY <1>3
  <2>2. QED
      BY <2>1 DEF VersionRow
<1>5. QED
    BY <1>1, <1>2, <1>3, <1>4

(* The insert appends the upload to the history of its path.                  *)
LEMMA RecordAppends ==
    ASSUME IInv, DistinctVersions, NEW u \in Uploads, record_version(u)
    PROVE  DistinctVersions' /\ History!Record(u, name[u]) /\ name[u] \in Names
<1> DEFINE p == PathOf[u]
           row == [upload |-> u, path |-> p, version |-> NextVersion(p), name |-> name[u], size |-> Chunks[u]]
           e == [upload |-> u, name |-> name[u]]
<1>1. p \in Paths
    BY UploadAssumption
<1>2. finalizing[u] = "numbered" /\ versions' = versions \union {row} /\ UNCHANGED <<stored, name>>
    BY DEF record_version, RowOf, IInv, Numbered
<1>3. row.upload = u /\ row.path = p /\ row.version = NextVersion(p) /\ row.name = name[u]
    OBVIOUS
<1> HIDE DEF p, row
<1>n. PICK n \in Nat : n = Cardinality(RowsOf(p))
    BY <1>1, RowsInPlace
<1>4. n \in Nat /\ IsFiniteSet(RowsOf(p)) /\ VersionsOf(p) = 1..n
    BY <1>1, <1>n, RowsInPlace
<1>5. row.version = n + 1
  <2>1. NextVersion(p) = n + 1
      BY <1>4, NextVersionIsNext
  <2>2. QED
      BY <1>3, <2>1
<1>6. /\ \A i \in 1..n : VersionRow(p, i) \in RowsOf(p) /\ VersionRow(p, i).version = i
      /\ \A r \in RowsOf(p) : r.version \in 1..n
    BY <1>1, <1>n, RowsInPlace
<1>7. n + 1 \notin 1..n /\ \A i \in 1..(n + 1) : i # n + 1 => i \in 1..n
    BY <1>4
<1>8. RowsOf(p)' = RowsOf(p) \union {row} /\ \A q \in Paths : q # p => RowsOf(q)' = RowsOf(q)
    BY <1>2, <1>3 DEF RowsOf
<1>9. row \notin RowsOf(p)
    BY <1>5, <1>6, <1>7
<1>10. Cardinality(RowsOf(p)') = n + 1
    BY <1>4, <1>n, <1>8, <1>9, FS_AddElement
<1>11. DistinctVersions'
  <2> SUFFICES ASSUME NEW r \in versions', NEW q \in versions', r.path = q.path, r.version = q.version
               PROVE  r = q
      BY DEF DistinctVersions
  <2>1. \A x \in versions : x.path = p => x.version # row.version
      BY <1>5, <1>6, <1>7 DEF RowsOf
  <2>2. QED
      BY <1>2, <1>3, <2>1 DEF DistinctVersions
<1>12. \A i \in 1..n : VersionRow(p, i)' = VersionRow(p, i)
  <2> SUFFICES ASSUME NEW i \in 1..n
               PROVE  VersionRow(p, i)' = VersionRow(p, i)
      OBVIOUS
  <2> DEFINE r == VersionRow(p, i)
             S == RowsOf(p) \union {row}
  <2>1. r \in S /\ r.version = i
      BY <1>6
  <2>2. \A q \in S : q.version = i => q = r
      BY <1>5, <1>6, <1>7 DEF DistinctVersions, RowsOf
  <2> HIDE DEF r, S
  <2>3. (CHOOSE q \in S : q.version = i) = r
      BY <2>1, <2>2, ChosenRow
  <2>4. VersionRow(p, i)' = CHOOSE q \in S : q.version = i
      BY <1>8 DEF VersionRow, S
  <2>5. QED
      BY <2>3, <2>4 DEF r
<1>13. VersionRow(p, n + 1)' = row
  <2> DEFINE S == RowsOf(p) \union {row}
  <2>1. row \in S /\ \A q \in S : q.version = n + 1 => q = row
      BY <1>6, <1>7
  <2> HIDE DEF S
  <2>2. (CHOOSE q \in S : q.version = n + 1) = row
      BY <1>5, <2>1, ChosenRow
  <2>3. VersionRow(p, n + 1)' = CHOOSE q \in S : q.version = n + 1
      BY <1>8 DEF VersionRow, S
  <2>4. QED
      BY <2>2, <2>3
<1>14. HistoryOf(p)' = Append(HistoryOf(p), e)
  <2> DEFINE h == HistoryOf(p)
  <2>1. h = [i \in 1..n |-> [upload |-> VersionRow(p, i).upload, name |-> VersionRow(p, i).name]]
      BY <1>n DEF HistoryOf
  <2>2. \A i \in 1..n : VersionRow(p, i).upload \in Uploads /\ VersionRow(p, i).name \in Names
      BY <1>6 DEF RowsOf, IInv, TypeOK, Row
  <2>3. h \in [1..n -> [upload : Uploads, name : Names]]
      BY <2>1, <2>2
  <2> DEFINE E == [upload : Uploads, name : Names]
  <2> HIDE DEF h, E, e
  <2>4. h \in Seq(E) /\ Len(h) = n
    <3>1. h \in [1..n -> E]
        BY <2>3 DEF E
    <3>2. h \in Seq(E)
        BY <1>4, <3>1, SeqDef
    <3>3. QED
        BY <1>4, <3>1, <3>2, LenProperties
  <2>5. Append(h, e) = [i \in 1..(n + 1) |-> IF i = n + 1 THEN e ELSE h[i]]
    <3> DEFINE a == Append(h, e)
    <3>1. e \in E
      <4>1. name[u] \in Names
          BY <1>2 DEF IInv, Sessions
      <4>2. QED
          BY <4>1 DEF e, E
    <3>2. /\ a \in Seq(E) /\ Len(a) = n + 1
          /\ (\A i \in 1..n : a[i] = h[i]) /\ a[n + 1] = e
        BY <2>4, <3>1, AppendProperties
    <3> HIDE DEF a
    <3>3. a \in [1..(n + 1) -> E]
        BY <3>2, LenProperties
    <3>4. a = [i \in 1..(n + 1) |-> a[i]]
        BY <3>3
    <3>5. \A i \in 1..(n + 1) : a[i] = IF i = n + 1 THEN e ELSE h[i]
        BY <1>7, <3>2
    <3>6. QED
        BY <3>4, <3>5 DEF a
  <2>6. HistoryOf(p)' = [i \in 1..(n + 1) |-> [upload |-> VersionRow(p, i)'.upload, name |-> VersionRow(p, i)'.name]]
      BY <1>10 DEF HistoryOf
  <2>7. \A i \in 1..(n + 1) :
           [upload |-> VersionRow(p, i)'.upload, name |-> VersionRow(p, i)'.name] = IF i = n + 1 THEN e ELSE h[i]
    <3> SUFFICES ASSUME NEW i \in 1..(n + 1)
                 PROVE  [upload |-> VersionRow(p, i)'.upload, name |-> VersionRow(p, i)'.name]
                            = IF i = n + 1 THEN e ELSE h[i]
        OBVIOUS
    <3>1. CASE i = n + 1
        BY <1>3, <1>13, <3>1 DEF e
    <3>2. CASE i # n + 1
      <4>1. i \in 1..n
          BY <1>7, <3>2
      <4>2. h[i] = [upload |-> VersionRow(p, i).upload, name |-> VersionRow(p, i).name]
          BY <2>1, <4>1
      <4>3. QED
          BY <1>12, <3>2, <4>1, <4>2
    <3>3. QED
        BY <3>1, <3>2
  <2>8. QED
      BY <2>5, <2>6, <2>7 DEF h
<1>15. \A q \in Paths : q # p => HistoryOf(q)' = HistoryOf(q)
    BY <1>8 DEF HistoryOf, VersionRow
<1>16. History!Enters(u)
  <2> SUFFICES ASSUME NEW q \in Paths, NEW i \in DOMAIN HistoryOf(q)
               PROVE  HistoryOf(q)[i].upload # u
      BY DEF History!Enters
  <2>1. i \in 1..Cardinality(RowsOf(q)) /\ HistoryOf(q)[i].upload = VersionRow(q, i).upload
      BY DEF HistoryOf
  <2>2. VersionRow(q, i) \in versions
      BY <2>1, RowsInPlace DEF RowsOf
  <2>3. QED
      BY <1>2, <2>1, <2>2 DEF IInv, RecordedOnce
<1>17. name[u] \in Names /\ stored[name[u]] # Absent
    BY <1>2 DEF IInv, Sessions
<1>18. [q \in Paths |-> HistoryOf(q)]' = [[q \in Paths |-> HistoryOf(q)] EXCEPT ![p] = Append(@, e)]
    BY <1>1, <1>14, <1>15
<1>19. History!Record(u, name[u])
    BY <1>2, <1>16, <1>17, <1>18 DEF History!Record, p
<1>20. QED
    BY <1>11, <1>17, <1>19

(* Every step is a step of VersionHistory or leaves it alone: the rename saves *)
(* a file, the insert records a version.                                      *)
LEMMA HistoryStep ==
    IInv /\ DistinctVersions /\ [Next]_vars => DistinctVersions' /\ [History!Next]_(History!vars)
<1> SUFFICES ASSUME IInv, DistinctVersions, [Next]_vars
             PROVE  DistinctVersions' /\ [History!Next]_(History!vars)
    OBVIOUS
<1>1. ASSUME versions' = versions
      PROVE  DistinctVersions' /\ [q \in Paths |-> HistoryOf(q)]' = [q \in Paths |-> HistoryOf(q)]
    BY <1>1 DEF DistinctVersions, HistoryOf, VersionRow, RowsOf
<1>2. CASE UNCHANGED <<stored, versions>>
    BY <1>1, <1>2 DEF History!vars
<1>3. ASSUME NEW u \in Uploads, handleFileDone(u), ~UNCHANGED stored
      PROVE  DistinctVersions' /\ [History!Next]_(History!vars)
  <2>1. /\ stored' = [stored EXCEPT ![name[u]] = part[name[u]]] /\ part[name[u]] # Absent
        /\ u \in active /\ versions' = versions
      BY <1>3 DEF handleFileDone
  <2>2. name[u] \in Names
      BY <2>1 DEF IInv, Sessions
  <2>3. {n \in Names : stored[n] # Absent}' = {n \in Names : stored[n] # Absent} \union {name[u]}
      BY <2>1, <2>2 DEF IInv, TypeOK
  <2>4. PICK n \in Names : n = name[u]
      BY <2>2
  <2>5. History!Save(n)
      BY <1>1, <2>1, <2>3, <2>4 DEF History!Save
  <2>6. History!Next
      BY <2>5 DEF History!Next
  <2>7. QED
      BY <1>1, <2>1, <2>6
<1>4. ASSUME NEW u \in Uploads, record_version(u)
      PROVE  DistinctVersions' /\ [History!Next]_(History!vars)
    BY <1>4, RecordAppends DEF History!Next
<1>5. QED
  <2>1. CASE Environment \/ UNCHANGED vars
      BY <1>2, <2>1 DEF Environment, Tick, TokenDeleted, Crash, LinkBreaks, vars, diskVars
  <2>2. ASSUME NEW u \in Uploads, InitUpload(u) \/ Agent(u)
        PROVE  UNCHANGED <<stored, versions>>
      BY <2>2 DEF InitUpload, Agent, dial, send_frame, mark_backed_up, diskVars
  <2>3. ASSUME NEW u \in Uploads, Backend(u)
        PROVE  DistinctVersions' /\ [History!Next]_(History!vars)
    <3>1. UNCHANGED <<stored, versions>> \/ handleFileDone(u) \/ record_version(u)
        BY <2>3 DEF Backend, handleMsgLogin, frame_dropped, handleFileChunk, number_version, record_fails, diskVars
    <3>2. handleFileDone(u) => versions' = versions
        BY DEF handleFileDone
    <3>3. QED
        BY <1>2, <1>3, <1>4, <3>1, <3>2
  <2>4. QED
      BY <1>2, <2>1, <2>2, <2>3 DEF Next

(* The upload protocol implements VersionHistory: for any number of uploads    *)
(* that end concurrently, share names and meet crashes, the history of a path  *)
(* only grows at its end, by versions whose file is in place.                  *)
THEOREM StoreIsAHistory == Spec => StoreKeepsHistory
<1>1. Init => DistinctVersions /\ History!Init
  <2> SUFFICES ASSUME Init
               PROVE  DistinctVersions /\ History!Init
      OBVIOUS
  <2>1. \A p \in Paths : RowsOf(p) = {}
      BY DEF Init, RowsOf
  <2>2. \A p \in Paths : HistoryOf(p) = <<>>
    <3>1. Cardinality({}) = 0 /\ 1..0 = {}
        BY FS_EmptySet
    <3>2. ASSUME NEW p \in Paths
          PROVE  HistoryOf(p) = <<>>
      <4>1. 1..Cardinality(RowsOf(p)) = {}
          BY <2>1, <3>1
      <4>2. QED
          BY <4>1 DEF HistoryOf
    <3>3. QED
        BY <3>2
  <2>3. {n \in Names : stored[n] # Absent} = {}
      BY DEF Init
  <2>4. QED
      BY <2>2, <2>3 DEF Init, DistinctVersions, History!Init
<1>2. QED
    BY <1>1, InvInit, InvStep, HistoryStep, PTL DEF Spec, StoreKeepsHistory, History!Spec

=============================================================================
