----------------------- MODULE BackupScheduler_proofs -----------------------
(***************************************************************************)
(* BackupScheduler implements SerialBackup, and has the invariants its run *)
(* checks, for any sets of paths, watched directories and goroutines, and  *)
(* any bounds.                                                             *)
(*                                                                         *)
(* The refinement rests on Ownership: a goroutine of scheduleBackup has    *)
(* its path in inFlight from its start to its deferred function, and no    *)
(* other goroutine has that path.  That a goroutine's path is a path at    *)
(* all comes with the event that started it, through the rename queues and *)
(* the channel of the monitor: EventsAreTyped.                             *)
(*                                                                         *)
(* TypeInv adds the types of everything else.  On it rest three invariants *)
(* that do not need each other: PairInv (which old names wait, and how     *)
(* long, for the halves of a rename in the buffers), NothingForgotten (who *)
(* has an existing file in hand that is not backed up) and RowsInv (while  *)
(* nothing is lost, the last record of a path agrees with the disk, and    *)
(* without a record its row does).                                         *)
(***************************************************************************)
EXTENDS BackupScheduler, Subsequence_proofs, FiniteSetTheorems

\* What the kernel puts into the buffer of a read.
ChangeRecord ==
    [action : {"added", "removed", "modified", "renamedOld", "renamedNew"},
     path : Paths, from : Paths \union {None}]

Waiting == [path : Paths, age : 0..(renamePairTTL + 1)]

EventsAreTyped ==
    /\ disk \in [Paths -> {Absent, Directory} \union (1..MaxOps)]
    /\ ops \in 1..MaxOps
    /\ records \in [Targets -> Seq(ChangeRecord \union {NoBytes})]
    /\ renameQueue \in [Targets -> Seq(Waiting)]
    /\ out \in Seq(Event)

Stages == {"none", "settle", "ready", "upload", "stored", "ended"}

Goroutines == [stage : Stages, path : Paths \union {None}, polls : Int, read : Int]

Ownership ==
    /\ inFlight \in SUBSET Paths
    /\ job \in [Jobs -> Goroutines]
    /\ \A j \in Jobs : job[j].stage # "none" => job[j].path \in inFlight
    /\ \A j, k \in Jobs :
          job[j].stage # "none" /\ job[k].stage # "none" /\ job[j].path = job[k].path => j = k
    /\ \A j \in Jobs : job[j].stage = "upload" => job[j].read \in 1..MaxOps

IInv == EventsAreTyped /\ Ownership

-----------------------------------------------------------------------------
(* Sequences of events.                                                     *)

(* The expired old names are at most as many as wait.                       *)
LEMMA ExpiredBound ==
    ASSUME NEW q \in Seq(Waiting)
    PROVE  Expired(q) \in 0..Len(q)
<1> DEFINE E == {i \in DOMAIN q : q[i].age > renamePairTTL}
<1>1. DOMAIN q = 1..Len(q) /\ Len(q) \in Nat
    BY LenProperties
<1>2. IsFiniteSet(1..Len(q)) /\ Cardinality(1..Len(q)) = Len(q)
    BY <1>1, FS_Interval
<1>3. E \in SUBSET (1..Len(q))
    BY <1>1
<1>4. IsFiniteSet(E) /\ Cardinality(E) <= Len(q)
    BY <1>2, <1>3, FS_Subset
<1>5. Cardinality(E) \in Nat
    BY <1>4, FS_CardinalityType
<1>6. QED
    BY <1>1, <1>4, <1>5 DEF Expired

(* flushExpiredRenames makes events of them and keeps the others.           *)
LEMMA FlushTyped ==
    ASSUME NEW q \in Seq(Waiting)
    PROVE  flushed(q) \in Seq(Event) /\ kept(q) \in Seq(Waiting)
<1>1. Expired(q) \in 0..Len(q) /\ Len(q) \in Nat
    BY ExpiredBound, LenProperties
<1>2. \A i \in 1..Len(q) : q[i] \in Waiting
    BY ElementOfSeq
<1>3. kept(q) \in Seq(Waiting)
  <2>1. \A i \in (Expired(q) + 1)..Len(q) : q[i] \in Waiting
      BY <1>1, <1>2
  <2>2. QED
      BY <1>1, <2>1, SubSeqProperties DEF kept
<1>4. flushed(q) \in [1..Expired(q) -> Event]
    BY <1>1, <1>2 DEF flushed, Evt, Event, Actions, Waiting
<1>5. QED
    BY <1>1, <1>3, <1>4, SeqDef

(* emitEvent leaves events in the channel.                                  *)
LEMMA EmitTyped ==
    ASSUME NEW evts \in Seq(Event), out \in Seq(Event), emitEvent(evts)
    PROVE  out' \in Seq(Event)
<1> DEFINE all == out \o evts
           n   == Fits(all)
<1>1. all \in Seq(Event) /\ Len(all) \in Nat
    BY ConcatProperties, LenProperties
<1>2. n \in Int /\ n <= Len(all)
    BY <1>1, MonitorAssumption DEF Fits, Smaller
<1>3. \A i \in 1..n : all[i] \in Event
    BY <1>1, <1>2, ElementOfSeq
<1>4. out' = SubSeq(all, 1, n)
    BY DEF emitEvent
<1> HIDE DEF all, n
<1>5. QED
    BY <1>2, <1>3, <1>4, SubSeqProperties

-----------------------------------------------------------------------------
(* A change of the file system only appends records of watched paths.       *)
LEMMA ChangeTyped ==
    ASSUME IInv, NEW p \in Paths, NEW a \in {"added", "modified", "removed"}, Change(p, a)
    PROVE  EventsAreTyped'
<1> USE MonitorAssumption DEF IInv, EventsAreTyped
<1> DEFINE seen(t) == IF p \in Watched[t] THEN <<Rec(a, p, None)>> ELSE <<>>
<1>1. disk' \in [Paths -> {Absent, Directory} \union (1..MaxOps)] /\ ops' \in 1..MaxOps
  <2>1. ops < MaxOps /\ ops' = ops + 1
      BY DEF Change, Changes
  <2>2. ops + 1 \in 1..MaxOps
      BY <2>1
  <2>3. PICK v \in {Absent, Directory} \union (1..MaxOps) : disk' = [disk EXCEPT ![p] = v]
      BY <2>2 DEF Change
  <2>4. QED
      BY <2>1, <2>2, <2>3
<1>2. Rec(a, p, None) \in ChangeRecord \union {NoBytes}
    BY DEF Rec, ChangeRecord
<1>3. \A t \in Targets : seen(t) \in Seq(ChangeRecord \union {NoBytes})
  <2>1. /\ <<Rec(a, p, None)>> \in Seq(ChangeRecord \union {NoBytes})
        /\ <<>> \in Seq(ChangeRecord \union {NoBytes})
      BY <1>2
  <2>2. QED
      BY <2>1
<1>4. \A t \in Targets : records[t] \o seen(t) \in Seq(ChangeRecord \union {NoBytes})
    BY <1>3, ConcatProperties
<1>5. records' = [t \in Targets |-> IF watcher[t] = "running" THEN records[t] \o seen(t) ELSE records[t]]
    BY DEF Change, Changes
<1>6. records' \in [Targets -> Seq(ChangeRecord \union {NoBytes})]
    BY <1>4, <1>5
<1>7. renameQueue' = renameQueue /\ out' = out
    BY DEF Change, Changes
<1>8. QED
    BY <1>1, <1>6, <1>7

(* So does a rename, with both of its halves where both ends are watched.   *)
LEMMA RenameTyped ==
    ASSUME IInv, NEW p \in Paths, NEW q \in Paths, Rename(p, q)
    PROVE  EventsAreTyped'
<1> USE MonitorAssumption DEF IInv, EventsAreTyped
<1> DEFINE R == ChangeRecord \union {NoBytes}
           seen(t) == CASE {p, q} \subseteq Watched[t] -> <<Rec("renamedOld", p, None), Rec("renamedNew", q, p)>>
                        [] p \in Watched[t] /\ q \notin Watched[t] -> <<Rec("removed", p, None)>>
                        [] p \notin Watched[t] /\ q \in Watched[t] -> <<Rec("added", q, None)>>
                        [] OTHER -> <<>>
<1>1. disk' \in [Paths -> {Absent, Directory} \union (1..MaxOps)] /\ ops' \in 1..MaxOps
  <2>1. ops < MaxOps /\ ops' = ops + 1
      BY DEF Rename, Changes
  <2>2. ops + 1 \in 1..MaxOps
      BY <2>1
  <2>3. PICK arrived \in [Below[q] -> {Absent, Directory, ops + 1}] :
            disk' = [r \in Paths |-> IF r = q THEN disk[p]
                                     ELSE IF r \in {p} \union Below[p] THEN Absent
                                     ELSE IF r \in Below[q] THEN arrived[r] ELSE disk[r]]
      BY DEF Rename
  <2>4. QED
      BY <2>1, <2>2, <2>3
<1>2. /\ Rec("renamedOld", p, None) \in R /\ Rec("renamedNew", q, p) \in R
      /\ Rec("removed", p, None) \in R /\ Rec("added", q, None) \in R
    BY DEF Rec, ChangeRecord
<1>3. records' = [t \in Targets |-> IF watcher[t] = "running" THEN records[t] \o seen(t) ELSE records[t]]
    BY DEF Rename, Changes
<1>4. ASSUME NEW t \in Targets
      PROVE  seen(t) \in Seq(R)
  <2>1. /\ <<Rec("renamedOld", p, None), Rec("renamedNew", q, p)>> \in Seq(R)
        /\ <<Rec("removed", p, None)>> \in Seq(R)
        /\ <<Rec("added", q, None)>> \in Seq(R)
        /\ <<>> \in Seq(R)
      BY <1>2
  <2>2. QED
      BY <2>1
<1> HIDE DEF seen
<1>5. \A t \in Targets : records[t] \o seen(t) \in Seq(R)
    BY <1>4, ConcatProperties
<1>6. records' \in [Targets -> Seq(R)]
    BY <1>3, <1>5
<1>7. renameQueue' = renameQueue /\ out' = out
    BY DEF Rename, Changes
<1>8. QED
    BY <1>1, <1>6, <1>7

(* dispatchAction queues old names and emits events of real paths.          *)
LEMMA DispatchTyped ==
    ASSUME IInv, NEW t \in Targets, dispatchAction(t)
    PROVE  EventsAreTyped'
<1> USE MonitorAssumption DEF IInv, EventsAreTyped
<1> DEFINE r == Head(records[t])
           q == kept(renameQueue[t])
           f == flushed(renameQueue[t])
<1>1. r \in ChangeRecord /\ Tail(records[t]) \in Seq(ChangeRecord \union {NoBytes})
    BY HeadTailProperties DEF dispatchAction
<1>2. f \in Seq(Event) /\ q \in Seq(Waiting)
    BY FlushTyped
<1>3. records' \in [Targets -> Seq(ChangeRecord \union {NoBytes})]
    BY <1>1 DEF dispatchAction
<1>4. disk' = disk /\ ops' = ops
    BY DEF dispatchAction
<1> HIDE DEF f, q
<1>5. CASE r.action = "renamedOld"
  <2>1. emitEvent(f) /\ renameQueue' = [renameQueue EXCEPT ![t] = Append(q, [path |-> r.path, age |-> 0])]
      BY <1>5 DEF dispatchAction, f, q
  <2>2. [path |-> r.path, age |-> 0] \in Waiting
      BY <1>1 DEF ChangeRecord, Waiting
  <2>3. Append(q, [path |-> r.path, age |-> 0]) \in Seq(Waiting)
      BY <1>2, <2>2, AppendProperties
  <2>4. QED
      BY <1>2, <1>3, <1>4, <2>1, <2>3, EmitTyped
<1>6. CASE r.action = "renamedNew"
  <2>1. /\ emitEvent(Append(f, RenameEvent(r, q)))
        /\ renameQueue' = [renameQueue EXCEPT ![t] = IF q = <<>> THEN q ELSE Tail(q)]
      BY <1>6 DEF dispatchAction, f, q
  <2>2. q # <<>> => Head(q) \in Waiting /\ Tail(q) \in Seq(Waiting)
      BY <1>2, HeadTailProperties
  <2>3. RenameEvent(r, q) \in Event
      BY <1>1, <2>2 DEF RenameEvent, Evt, Event, Actions, ChangeRecord, Waiting
  <2>4. Append(f, RenameEvent(r, q)) \in Seq(Event)
      BY <1>2, <2>3, AppendProperties
  <2>5. renameQueue' \in [Targets -> Seq(Waiting)]
      BY <1>2, <2>1, <2>2
  <2>6. out' \in Seq(Event)
      BY <2>1, <2>4, EmitTyped
  <2>7. QED
      BY <1>3, <1>4, <2>5, <2>6
<1>7. CASE r.action \notin {"renamedOld", "renamedNew"}
  <2>1. /\ emitEvent(Append(f, PlainEvent(r)))
        /\ renameQueue' = [renameQueue EXCEPT ![t] = q]
      BY <1>7 DEF dispatchAction, f, q
  <2>2. PlainEvent(r) \in Event
      BY <1>1, <1>7 DEF PlainEvent, Evt, Event, Actions, ChangeRecord
  <2>3. Append(f, PlainEvent(r)) \in Seq(Event)
      BY <1>2, <2>2, AppendProperties
  <2>4. out' \in Seq(Event)
      BY <2>1, <2>3, EmitTyped
  <2>5. QED
      BY <1>2, <1>3, <1>4, <2>1, <2>4
<1>8. QED
    BY <1>5, <1>6, <1>7

(* Every step of the monitor and of the file system keeps IInv.             *)
LEMMA MonitorStep ==
    ASSUME IInv, MonitorNext, UNCHANGED schedVars
    PROVE  IInv'
<1> USE MonitorAssumption
<1>1. Ownership'
    BY DEF IInv, Ownership, schedVars
<1>2. ASSUME NEW t \in Targets, overflow(t)
      PROVE  EventsAreTyped'
  <2> USE DEF IInv, EventsAreTyped
  <2> DEFINE R == ChangeRecord \union {NoBytes}
  <2>1. PICK k \in 0..(Len(records[t]) - 1) :
            records' = [records EXCEPT ![t] = Append(SubSeq(records[t], 1, k), NoBytes)]
      BY <1>2 DEF overflow
  <2>2. Len(records[t]) \in Nat /\ \A i \in 1..Len(records[t]) : records[t][i] \in R
      BY LenProperties, ElementOfSeq
  <2>3. SubSeq(records[t], 1, k) \in Seq(R)
    <3>1. \A i \in 1..k : records[t][i] \in R
        BY <2>2
    <3>2. QED
        BY <3>1, SubSeqProperties
  <2>4. Append(SubSeq(records[t], 1, k), NoBytes) \in Seq(R)
      BY <2>3, AppendProperties
  <2>5. QED
      BY <1>2, <2>1, <2>4 DEF overflow
<1>3. ASSUME NEW t \in Targets, read_nothing(t)
      PROVE  EventsAreTyped'
    BY <1>3, HeadTailProperties DEF read_nothing, IInv, EventsAreTyped, envVars
<1>4. ASSUME NEW t \in Targets, read_fails(t)
      PROVE  EventsAreTyped'
  <2>1. disk' = disk /\ ops' = ops /\ renameQueue' = renameQueue /\ out' = out
      BY <1>4 DEF read_fails
  <2>2. records' = records \/ records' = [records EXCEPT ![t] = <<>>]
      BY <1>4 DEF read_fails
  <2>3. <<>> \in Seq(ChangeRecord \union {NoBytes})
      OBVIOUS
  <2>4. records' \in [Targets -> Seq(ChangeRecord \union {NoBytes})]
      BY <2>2, <2>3 DEF IInv, EventsAreTyped
  <2>5. QED
      BY <2>1, <2>4 DEF IInv, EventsAreTyped
<1>5. QED
    BY <1>1, <1>2, <1>3, <1>4, ChangeTyped, RenameTyped, DispatchTyped DEF MonitorNext, IInv

(* A second passes.                                                         *)
LEMMA TickStep ==
    ASSUME IInv, Tick
    PROVE  IInv'
<1> USE MonitorAssumption DEF IInv, EventsAreTyped
<1>1. ASSUME NEW t \in Targets
      PROVE  [i \in DOMAIN renameQueue[t] |-> [renameQueue[t][i] EXCEPT !.age = Capped(@)]] \in Seq(Waiting)
  <2> DEFINE q == renameQueue[t]
  <2>1. q \in Seq(Waiting) /\ Len(q) \in Nat /\ DOMAIN q = 1..Len(q)
      BY LenProperties
  <2>2. \A i \in 1..Len(q) : q[i] \in Waiting
      BY <2>1, ElementOfSeq
  <2>3. \A i \in 1..Len(q) : [q[i] EXCEPT !.age = Capped(@)] \in Waiting
    <3> SUFFICES ASSUME NEW x \in Waiting
                 PROVE  [x EXCEPT !.age = Capped(@)] \in Waiting
        BY <2>2
    <3>1. x = [path |-> x.path, age |-> x.age] /\ x.path \in Paths /\ x.age \in 0..(renamePairTTL + 1)
        BY DEF Waiting
    <3>2. Capped(x.age) \in 0..(renamePairTTL + 1)
        BY <3>1 DEF Capped
    <3>3. QED
        BY <3>1, <3>2 DEF Waiting
  <2>4. [i \in DOMAIN q |-> [q[i] EXCEPT !.age = Capped(@)]] \in [1..Len(q) -> Waiting]
      BY <2>1, <2>3
  <2>5. QED
      BY <2>1, <2>4, SeqDef
<1>2. renameQueue' \in [Targets -> Seq(Waiting)]
    BY <1>1 DEF Tick, MonitorAges
<1>3. QED
    BY <1>2 DEF Tick, MonitorAges, envVars, Ownership

-----------------------------------------------------------------------------
(* What a step does to inFlight, job and backup, as a step of SerialBackup.  *)

(* A goroutine goes on with its path, before it has stored and without       *)
(* storing: nothing happens in the abstract.                                 *)
LEMMA GoesOn ==
    ASSUME Ownership, NEW j \in Jobs, NEW g \in Goroutines,
           job[j].stage \notin {"none", "stored"}, g.stage \notin {"none", "stored"},
           g.path = job[j].path, g.stage = "upload" => g.read \in 1..MaxOps,
           job' = [job EXCEPT ![j] = g], inFlight' = inFlight, backup' = backup
    PROVE  Ownership' /\ UNCHANGED Serial!vars
<1>1. Ownership'
    BY DEF Ownership
<1>2. Stored' = Stored
    BY DEF Stored, Ownership
<1>3. QED
    BY <1>1, <1>2 DEF Serial!vars

(* The goroutine that starts to upload version v.                            *)
LEMMA UploadTyped ==
    ASSUME NEW x \in Goroutines, NEW v \in Int
    PROVE  LET g == [x EXCEPT !.stage = "upload", !.read = v]
           IN  g \in Goroutines /\ g.stage = "upload" /\ g.path = x.path /\ g.read = v
<1>1. [x EXCEPT !.stage = "upload", !.read = v] \in Goroutines
    BY DEF Goroutines, Stages
<1>2. QED
    BY <1>1 DEF Goroutines

(* A path that is not in flight gets a goroutine that was not in use.        *)
LEMMA Starts ==
    ASSUME Ownership, NEW p \in Paths, NEW j \in Jobs,
           p \notin inFlight, job[j].stage = "none",
           job' = [job EXCEPT ![j] = Job(p)], inFlight' = inFlight \union {p}, backup' = backup
    PROVE  Ownership' /\ Serial!Start(p)
<1>1. Job(p) \in Goroutines /\ Job(p).stage = "settle" /\ Job(p).path = p
  <2>1. NoJob \in Goroutines
      BY DEF NoJob, Goroutines, Stages
  <2>2. fileSettlePolls \in Int
      BY SchedulerAssumption
  <2>3. Job(p) \in Goroutines
      BY <2>1, <2>2 DEF Job, Goroutines, Stages
  <2>4. Job(p).stage = "settle" /\ Job(p).path = p
      BY DEF Job, NoJob
  <2>5. QED
      BY <2>3, <2>4
<1>2. Ownership'
    BY <1>1 DEF Ownership
<1>3. Stored' = Stored
    BY <1>1 DEF Stored, Ownership
<1>4. p \notin Stored
    BY DEF Stored, Ownership
<1>5. QED
    BY <1>2, <1>3, <1>4 DEF Serial!Start

(* The upload of a goroutine is complete.                                    *)
LEMMA Stores ==
    ASSUME Ownership, NEW j \in Jobs, job[j].stage = "upload",
           job' = [job EXCEPT ![j].stage = "stored"], inFlight' = inFlight,
           backup' = [backup EXCEPT ![job[j].path] = job[j].read]
    PROVE  Ownership' /\ Serial!Store(job[j].path)
<1> DEFINE p == job[j].path
<1>1. /\ job'[j] \in Goroutines /\ job'[j].stage = "stored" /\ job'[j].path = p
      /\ \A k \in Jobs : k # j => job'[k] = job[k]
      /\ job' \in [Jobs -> Goroutines]
    BY DEF Ownership, Goroutines, Stages
<1>2. Ownership'
    BY <1>1 DEF Ownership
<1>3. p \in inFlight /\ p \notin Stored /\ job[j].read \in 1..MaxOps
    BY DEF Stored, Ownership
<1>4. Stored' = Stored \union {p}
    BY <1>1 DEF Stored
<1>5. QED
    BY <1>2, <1>3, <1>4 DEF Serial!Store

(* The deferred function of a goroutine.                                     *)
LEMMA Ends ==
    ASSUME Ownership, NEW j \in Jobs, job[j].stage \in {"stored", "ended"},
           job' = [job EXCEPT ![j] = NoJob], inFlight' = inFlight \ {job[j].path},
           backup' = backup
    PROVE  Ownership' /\ Serial!End(job[j].path)
<1> DEFINE p == job[j].path
<1>1. NoJob \in Goroutines /\ NoJob.stage = "none"
    BY DEF NoJob, Goroutines, Stages
<1>2. Ownership'
    BY <1>1 DEF Ownership
<1>3. p \in inFlight
    BY DEF Ownership
<1>4. Stored' = Stored \ {p}
    BY <1>1 DEF Stored, Ownership
<1>5. QED
    BY <1>2, <1>3, <1>4 DEF Serial!End

-----------------------------------------------------------------------------
(* The consumer: only paths of events are scheduled.                         *)
LEMMA ConsumeStep ==
    ASSUME IInv, consume
    PROVE  IInv' /\ (UNCHANGED Serial!vars \/ \E p \in Paths : Serial!Start(p))
<1>1. Head(out) \in Event /\ Tail(out) \in Seq(Event)
    BY HeadTailProperties DEF consume, IInv, EventsAreTyped
<1>2. EventsAreTyped'
    BY <1>1 DEF consume, IInv, EventsAreTyped, envVars
<1>3. backup' = backup
    BY DEF consume
<1>4. CASE UNCHANGED <<inFlight, job>>
    BY <1>2, <1>3, <1>4 DEF IInv, Ownership, Serial!vars, Stored
<1>5. CASE ~UNCHANGED <<inFlight, job>>
  <2> DEFINE p == Head(out).path
  <2>1. ~Refused(p) /\ scheduleBackup(p)
      BY <1>5 DEF consume, scheduleBackup
  <2>2. /\ Free # {} /\ p \notin inFlight
        /\ inFlight' = inFlight \union {p} /\ job' = [job EXCEPT ![NewJob] = Job(p)]
      BY <2>1 DEF scheduleBackup, Refused
  <2>3. NewJob \in Jobs /\ job[NewJob].stage = "none"
      BY <2>2 DEF NewJob, Free
  <2>4. p \in Paths
      BY <1>1 DEF Event
  <2>5. QED
      BY <1>2, <1>3, <2>2, <2>3, <2>4, Starts DEF IInv
<1>6. QED
    BY <1>4, <1>5

(* The goroutine of a backup.                                                *)
LEMMA GoroutineStep ==
    ASSUME IInv, NEW j \in Jobs, Goroutine(j)
    PROVE  IInv' /\ (UNCHANGED Serial!vars \/ \E p \in Paths : Serial!Store(p) \/ Serial!End(p))
<1> USE DEF IInv
<1>1. EventsAreTyped'
    BY DEF Goroutine, poll, deadline, backupFile, upload_done, upload_fails, deferred, Set, GivesUp,
       EventsAreTyped, monitorVars, envVars, monVars
<1>2. job[j] \in Goroutines /\ (job[j].stage # "none" => job[j].path \in Paths)
    BY DEF Ownership
<1>3. ASSUME job[j].stage \notin {"none", "stored"}, GivesUp(j)
      PROVE  Ownership' /\ UNCHANGED Serial!vars
  <2> DEFINE g == [job[j] EXCEPT !.stage = "ended"]
  <2>1. g \in Goroutines /\ g.stage = "ended" /\ g.path = job[j].path
      BY <1>2 DEF Goroutines, Stages
  <2>2. job' = [job EXCEPT ![j] = g] /\ inFlight' = inFlight /\ backup' = backup
      BY <1>3 DEF GivesUp
  <2> HIDE DEF g
  <2>3. QED
      BY <1>3, <2>1, <2>2, GoesOn
<1>4. CASE poll(j)
  <2>1. CASE GivesUp(j)
      BY <1>1, <1>3, <1>4, <2>1 DEF poll
  <2>2. CASE Set(j, [job[j] EXCEPT !.polls = @ - 1])
    <3> DEFINE g == [job[j] EXCEPT !.polls = @ - 1]
    <3>1. g \in Goroutines /\ g.stage = "settle" /\ g.path = job[j].path /\ job[j].stage = "settle"
        BY <1>2, <1>4 DEF poll, Goroutines, Stages
    <3>2. job' = [job EXCEPT ![j] = g] /\ inFlight' = inFlight /\ backup' = backup
        BY <2>2 DEF Set
    <3> HIDE DEF g
    <3>3. QED
        BY <1>1, <3>1, <3>2, GoesOn
  <2>3. CASE Set(j, [job[j] EXCEPT !.stage = "ready"])
    <3> DEFINE g == [job[j] EXCEPT !.stage = "ready"]
    <3>1. g \in Goroutines /\ g.stage = "ready" /\ g.path = job[j].path /\ job[j].stage = "settle"
        BY <1>2, <1>4 DEF poll, Goroutines, Stages
    <3>2. job' = [job EXCEPT ![j] = g] /\ inFlight' = inFlight /\ backup' = backup
        BY <2>3 DEF Set
    <3> HIDE DEF g
    <3>3. QED
        BY <1>1, <3>1, <3>2, GoesOn
  <2>4. QED
      BY <1>4, <2>1, <2>2, <2>3 DEF poll
<1>5. CASE deadline(j)
  <2>1. CASE GivesUp(j)
      BY <1>1, <1>3, <1>5, <2>1 DEF deadline
  <2>2. CASE Set(j, [job[j] EXCEPT !.stage = "ready"])
    <3> DEFINE g == [job[j] EXCEPT !.stage = "ready"]
    <3>1. g \in Goroutines /\ g.stage = "ready" /\ g.path = job[j].path /\ job[j].stage = "settle"
        BY <1>2, <1>5 DEF deadline, Goroutines, Stages
    <3>2. job' = [job EXCEPT ![j] = g] /\ inFlight' = inFlight /\ backup' = backup
        BY <2>2 DEF Set
    <3> HIDE DEF g
    <3>3. QED
        BY <1>1, <3>1, <3>2, GoesOn
  <2>3. QED
      BY <1>5, <2>1, <2>2 DEF deadline
<1>6. CASE backupFile(j)
  <2>1. CASE GivesUp(j)
      BY <1>1, <1>3, <1>6, <2>1 DEF backupFile
  <2>2. CASE /\ disk[job[j].path] > Absent
             /\ job' = [job EXCEPT ![j].stage = "upload", ![j].read = disk[job[j].path]]
             /\ inFlight' = inFlight /\ backup' = backup
    <3> DEFINE v == disk[job[j].path]
               g == [job[j] EXCEPT !.stage = "upload", !.read = v]
    <3>1. job[j].stage = "ready"
        BY <1>6 DEF backupFile
    <3>2. v \in 1..MaxOps
      <4>1. v \in {Absent, Directory} \union (1..MaxOps)
          BY <1>2, <3>1 DEF EventsAreTyped
      <4>2. QED
          BY <2>2, <4>1 DEF Absent, Directory
    <3>3. g \in Goroutines /\ g.stage = "upload" /\ g.path = job[j].path /\ g.read = v
      <4>1. v \in Int
          BY <3>2, MonitorAssumption
      <4>2. QED
          BY <1>2, <4>1, UploadTyped
    <3>4. job' = [job EXCEPT ![j] = g]
        BY <2>2, <1>2 DEF Ownership
    <3> HIDE DEF g
    <3>5. QED
        BY <1>1, <2>2, <3>1, <3>2, <3>3, <3>4, GoesOn
  <2>3. QED
      BY <1>6, <2>1, <2>2 DEF backupFile
<1>7. CASE upload_done(j)
    BY <1>1, <1>2, <1>7, Stores DEF upload_done
<1>8. CASE upload_fails(j)
    BY <1>1, <1>3, <1>8 DEF upload_fails
<1>9. CASE deferred(j)
    BY <1>1, <1>2, <1>9, Ends DEF deferred
<1>10. QED
    BY <1>4, <1>5, <1>6, <1>7, <1>8, <1>9 DEF Goroutine

(* The state before the first event.                                         *)
LEMMA InvInit == Init => IInv /\ Serial!Init
<1> SUFFICES ASSUME Init
             PROVE  IInv /\ Serial!Init
    OBVIOUS
<1> USE MonitorAssumption, SchedulerAssumption
<1>1. EventsAreTyped
    BY DEF Init, MonitorInit, EventsAreTyped
<1>2. NoJob \in Goroutines /\ NoJob.stage = "none"
    BY DEF NoJob, Goroutines, Stages
<1>3. Ownership
    BY <1>2 DEF Init, Ownership
<1>4. Serial!Init
    BY DEF Init, Serial!Init
<1>5. QED
    BY <1>1, <1>3, <1>4 DEF IInv

(* Every step keeps IInv and is a step of SerialBackup or leaves it alone.   *)
LEMMA InvStep == IInv /\ [Next]_vars => IInv' /\ [Serial!Next]_(Serial!vars)
<1> SUFFICES ASSUME IInv, [Next]_vars
             PROVE  IInv' /\ [Serial!Next]_(Serial!vars)
    OBVIOUS
<1>1. ASSUME UNCHANGED <<inFlight, job, backup>>
      PROVE  UNCHANGED Serial!vars
    BY <1>1 DEF Serial!vars, Stored
<1>2. CASE MonitorNext /\ UNCHANGED schedVars
    BY <1>1, <1>2, MonitorStep DEF schedVars
<1>3. CASE Tick
    BY <1>1, <1>3, TickStep DEF Tick
<1>4. CASE SetBackupEnabled \/ UNCHANGED vars
  <2>1. IInv'
      BY <1>4 DEF SetBackupEnabled, vars, schedVars, monitorVars, envVars, monVars, IInv,
         EventsAreTyped, Ownership
  <2>2. QED
      BY <1>1, <1>4, <2>1 DEF SetBackupEnabled, vars, schedVars
<1>5. CASE consume
    BY <1>5, ConsumeStep DEF Serial!Next
<1>6. ASSUME NEW j \in Jobs, Goroutine(j)
      PROVE  IInv' /\ [Serial!Next]_(Serial!vars)
    BY <1>6, GoroutineStep DEF Serial!Next
<1>7. QED
    BY <1>2, <1>3, <1>4, <1>5, <1>6 DEF Next

(* OneBackupAtATime: for any number of paths and goroutines, whatever the    *)
(* monitor reports, scheduleBackup and its goroutines implement              *)
(* SerialBackup: the backups of a path never overlap, and each stores at     *)
(* most one version.                                                         *)
THEOREM BackupsAreSerial == Spec => OneBackupAtATime
BY InvInit, InvStep, PTL DEF Spec, OneBackupAtATime, Serial!Spec

-----------------------------------------------------------------------------
\* What IInv does not say of the monitor's rows, events and history.
RowsTyped ==
    /\ faults \in 0..MaxFaults
    /\ row \in [Paths -> Actions \union {None}]
    /\ Len(out) <= eventQueueSize
    /\ unrecorded \in BOOLEAN
    /\ silent \in SUBSET Paths /\ missed \in SUBSET Paths

\* A watcher that runs has not failed too often, and one that has ended reads
\* nothing any more.
Watchers ==
    /\ watcher \in [Targets -> {"running", "stopped"}]
    /\ retryCount \in [Targets -> 0..maxRetries]
    /\ shaken \in [Targets -> 0..(renamePairTTL + 1)]
    /\ \A t \in Targets :
          /\ watcher[t] = "running" => retryCount[t] < maxRetries
          /\ watcher[t] = "stopped" => records[t] = <<>>

BackupsTyped ==
    /\ enabled \in BOOLEAN
    /\ recent \in [Paths -> 0..backupCooldown]
    /\ \A j \in Jobs : job[j].polls \in 0..fileSettlePolls /\ job[j].read \in 0..MaxOps
    /\ backup \in [Paths -> 0..MaxOps]

TypeInv == IInv /\ RowsTyped /\ Watchers /\ BackupsTyped

-----------------------------------------------------------------------------
(* TypeInv.                                                                  *)

(* A non-empty set of positions has a last one.                              *)
LEMMA MaxFacts ==
    ASSUME NEW n \in Nat, NEW S \in SUBSET (1..n), S # {}
    PROVE  Max(S) \in S /\ \A x \in S : x <= Max(S)
<1> DEFINE T == {n - x : x \in S}
<1>1. T \in SUBSET Nat /\ T # {}
  <2>1. \A x \in 1..n : n - x \in Nat
      OBVIOUS
  <2>2. \A x \in S : x \in 1..n
      OBVIOUS
  <2>3. QED
      BY <2>1, <2>2, Zenon
<1> HIDE DEF T
<1>2. PICK y \in T : \A z \in T : y <= z
    BY <1>1, LeastNat
<1>3. PICK x \in S : y = n - x
    BY <1>2 DEF T
<1>4. ASSUME NEW z \in S
      PROVE  x >= z
  <2>1. n - z \in T
      BY DEF T
  <2>2. n - x <= n - z
      BY <1>2, <1>3, <2>1
  <2>3. QED
      BY <2>2
<1>5. \E m \in S : \A z \in S : m >= z
    BY <1>4
<1>6. Max(S) \in S /\ \A z \in S : Max(S) >= z
    BY <1>5, Zenon DEF Max
<1>7. QED
    BY <1>6

(* persistMonitoredFile writes an action.                                    *)
LEMMA RowOfTyped ==
    ASSUME row \in [Paths -> Actions \union {None}], NEW evts \in Seq(Event), NEW p \in Paths
    PROVE  RowOf(p, evts) \in Actions \union {None}
<1> DEFINE S == {i \in DOMAIN evts : p \in {evts[i].path, evts[i].old}}
<1>1. DOMAIN evts = 1..Len(evts) /\ Len(evts) \in Nat
    BY LenProperties
<1>2. S \in SUBSET (1..Len(evts))
    BY <1>1
<1>3. S # {} => Max(S) \in 1..Len(evts)
  <2> HIDE DEF S
  <2>1. QED
      BY <1>1, <1>2, MaxFacts
<1>4. S # {} => evts[Max(S)].action \in Actions
  <2> HIDE DEF S
  <2>1. S # {} => evts[Max(S)] \in Event
      BY <1>3, ElementOfSeq
  <2>2. QED
      BY <2>1 DEF Event
<1>5. RowOf(p, evts) = IF S = {} THEN row[p]
                       ELSE IF evts[Max(S)].path = p THEN evts[Max(S)].action ELSE "move_out"
    BY DEF RowOf
<1> HIDE DEF S
<1>6. QED
    BY <1>4, <1>5 DEF Actions

(* emitEvent: the events beyond the channel's size are the missed ones.      *)
LEMMA EmitFacts ==
    ASSUME NEW evts \in Seq(Event), out \in Seq(Event), RowsTyped, emitEvent(evts), UNCHANGED silent
    PROVE  RowsTyped'
<1> USE MonitorAssumption DEF RowsTyped
<1> DEFINE all == out \o evts
           n   == Fits(all)
<1>1. all \in Seq(Event) /\ Len(all) \in Nat
    BY ConcatProperties, LenProperties
<1>2. n \in Nat /\ n <= Len(all) /\ n <= eventQueueSize
    BY <1>1 DEF Fits, Smaller
<1>3. \A i \in 1..Len(all) : all[i] \in Event
    BY <1>1, ElementOfSeq
<1>4. out' = SubSeq(all, 1, n) /\ missed' = missed \union {all[i].path : i \in (n + 1)..Len(all)}
    BY DEF emitEvent
<1>5. /\ faults' \in 0..MaxFaults
      /\ row' \in [Paths -> Actions \union {None}]
  <2>1. [p \in Paths |-> RowOf(p, evts)] \in [Paths -> Actions \union {None}]
      BY RowOfTyped
  <2>2. QED
      BY <2>1 DEF emitEvent
<1>6. unrecorded' \in BOOLEAN
    BY Zenon DEF emitEvent
<1> HIDE DEF all, n
<1>7. Len(out') <= eventQueueSize
  <2>1. \A i \in 1..n : all[i] \in Event
      BY <1>2, <1>3, <1>1
  <2>2. Len(SubSeq(all, 1, n)) = IF 1 <= n THEN n - 1 + 1 ELSE 0
      BY <1>2, <2>1, SubSeqProperties
  <2>3. QED
      BY <1>2, <1>4, <2>2
<1>8. missed' \in SUBSET Paths
  <2>1. \A i \in (n + 1)..Len(all) : all[i].path \in Paths
    <3>1. \A e \in Event : e.path \in Paths
        BY DEF Event
    <3>2. \A i \in (n + 1)..Len(all) : i \in 1..Len(all)
        BY <1>1, <1>2
    <3>3. QED
        BY <1>3, <3>1, <3>2, Zenon
  <2>2. QED
      BY <1>4, <2>1
<1>9. QED
    BY <1>5, <1>6, <1>7, <1>8

(* The events that dispatchAction emits.                                     *)
LEMMA Emits ==
    ASSUME IInv, NEW t \in Targets, dispatchAction(t)
    PROVE  \E evts \in Seq(Event) : emitEvent(evts)
<1> USE MonitorAssumption DEF IInv, EventsAreTyped
<1> DEFINE r == Head(records[t])
           q == kept(renameQueue[t])
           f == flushed(renameQueue[t])
<1>1. r \in ChangeRecord
    BY HeadTailProperties DEF dispatchAction
<1>2. f \in Seq(Event) /\ q \in Seq(Waiting)
    BY FlushTyped
<1> HIDE DEF f, q
<1>3. q # <<>> => Head(q) \in Waiting
    BY <1>2, HeadTailProperties
<1>4. RenameEvent(r, q) \in Event
    BY <1>1, <1>3 DEF RenameEvent, Evt, Event, Actions, ChangeRecord, Waiting
<1>5. r.action \notin {"renamedOld", "renamedNew"} => PlainEvent(r) \in Event
    BY <1>1 DEF PlainEvent, Evt, Event, Actions, ChangeRecord
<1>6. CASE r.action = "renamedOld"
    BY <1>2, <1>6 DEF dispatchAction, f, q
<1>7. CASE r.action = "renamedNew"
  <2>1. emitEvent(Append(f, RenameEvent(r, q)))
      BY <1>7 DEF dispatchAction, f, q
  <2>2. QED
      BY <1>2, <1>4, <2>1, AppendProperties
<1>8. CASE r.action \notin {"renamedOld", "renamedNew"}
  <2>1. emitEvent(Append(f, PlainEvent(r)))
      BY <1>8 DEF dispatchAction, f, q
  <2>2. QED
      BY <1>2, <1>5, <1>8, <2>1, AppendProperties
<1>9. QED
    BY <1>6, <1>7, <1>8

(* The paths of records are paths.                                           *)
LEMMA PathsOfTyped ==
    ASSUME NEW rs \in Seq(ChangeRecord \union {NoBytes})
    PROVE  /\ PathsOf(rs) \in SUBSET Paths
           /\ \A k \in Nat : PathsOf(SubSeq(rs, k + 1, Len(rs))) \in SUBSET Paths
<1> DEFINE R == ChangeRecord \union {NoBytes}
<1>1. \A x \in R : x.path \in Paths \union {None}
    BY DEF ChangeRecord, NoBytes, Rec
<1>2. ASSUME NEW s \in Seq(R)
      PROVE  PathsOf(s) \in SUBSET Paths
  <2> HIDE DEF R
  <2>1. \A i \in DOMAIN s : s[i] \in R
      BY LenProperties, ElementOfSeq
  <2>2. QED
      BY <1>1, <2>1 DEF PathsOf
<1>3. ASSUME NEW k \in Nat
      PROVE  SubSeq(rs, k + 1, Len(rs)) \in Seq(R)
  <2>1. Len(rs) \in Nat /\ \A i \in 1..Len(rs) : rs[i] \in R
      BY LenProperties, ElementOfSeq
  <2> HIDE DEF R
  <2>2. \A i \in (k + 1)..Len(rs) : rs[i] \in R
      BY <2>1
  <2>3. QED
      BY <2>1, <2>2, SubSeqProperties
<1>4. QED
    BY <1>2, <1>3

(* The monitor's steps keep the types of rows, channel and history.          *)
LEMMA RowsStep ==
    ASSUME IInv, RowsTyped, MonitorNext
    PROVE  RowsTyped'
<1> USE MonitorAssumption
<1>1. ASSUME NEW seen, NEW touched \in SUBSET Paths, Changes(seen, touched)
      PROVE  RowsTyped'
  <2>1. missed' \in SUBSET Paths
      BY <1>1 DEF Changes, RowsTyped
  <2>2. unrecorded' \in BOOLEAN
      BY <1>1, Zenon DEF Changes, RowsTyped
  <2>3. QED
      BY <1>1, <2>1, <2>2 DEF Changes, RowsTyped
<1>2. ASSUME NEW p \in Paths, NEW a \in {"added", "modified", "removed"}, Change(p, a)
      PROVE  RowsTyped'
  <2>1. {p} \in SUBSET Paths
      OBVIOUS
  <2>2. QED
      BY <1>1, <1>2, <2>1 DEF Change
<1>3. ASSUME NEW p \in Paths, NEW q \in Paths, Rename(p, q)
      PROVE  RowsTyped'
  <2>1. {p, q} \in SUBSET Paths
      OBVIOUS
  <2>2. QED
      BY <1>1, <1>3, <2>1 DEF Rename
<1>4. ASSUME NEW t \in Targets, overflow(t)
      PROVE  RowsTyped'
  <2>1. PICK k \in 0..(Len(records[t]) - 1) :
            missed' = missed \union PathsOf(SubSeq(records[t], k + 1, Len(records[t])))
      BY <1>4 DEF overflow
  <2>2. records[t] \in Seq(ChangeRecord \union {NoBytes}) /\ k \in Nat
      BY DEF IInv, EventsAreTyped
  <2>3. PathsOf(SubSeq(records[t], k + 1, Len(records[t]))) \in SUBSET Paths
      BY <2>2, PathsOfTyped
  <2>4. missed' \in SUBSET Paths
      BY <2>1, <2>3 DEF RowsTyped
  <2>5. unrecorded' \in BOOLEAN
      BY <1>4 DEF overflow
  <2>6. QED
      BY <1>4, <2>4, <2>5 DEF overflow, RowsTyped
<1>5. ASSUME NEW t \in Targets, dispatchAction(t)
      PROVE  RowsTyped'
  <2>1. UNCHANGED silent
      BY <1>5 DEF dispatchAction
  <2>2. QED
      BY <1>5, <2>1, Emits, EmitFacts DEF IInv, EventsAreTyped
<1>6. ASSUME NEW t \in Targets, read_nothing(t)
      PROVE  RowsTyped'
    BY <1>6 DEF read_nothing, RowsTyped, envVars
<1>7. ASSUME NEW t \in Targets, read_fails(t)
      PROVE  RowsTyped'
  <2>1. PathsOf(records[t]) \in SUBSET Paths
      BY PathsOfTyped DEF IInv, EventsAreTyped
  <2>2. missed' \in SUBSET Paths
      BY <1>7, <2>1 DEF read_fails, RowsTyped
  <2>3. unrecorded' \in BOOLEAN
      BY <1>7, Zenon DEF read_fails, RowsTyped
  <2>4. QED
      BY <1>7, <2>2, <2>3 DEF read_fails, RowsTyped
<1>8. QED
    BY <1>2, <1>3, <1>4, <1>5, <1>6, <1>7 DEF MonitorNext

(* A watcher stops after maxRetries failures in a row, and what it had not   *)
(* read is gone.                                                             *)
LEMMA WatchersStep ==
    ASSUME IInv, Watchers, MonitorNext
    PROVE  Watchers'
<1> USE MonitorAssumption DEF Watchers
<1>1. ASSUME NEW seen, NEW touched, Changes(seen, touched)
      PROVE  Watchers'
    BY <1>1 DEF Changes
<1>2. ASSUME NEW t \in Targets, watcher[t] = "running", watcher' = watcher,
             retryCount' = retryCount \/ retryCount' = [retryCount EXCEPT ![t] = 0],
             shaken' \in [Targets -> 0..(renamePairTTL + 1)],
             \A u \in Targets : u # t => records'[u] = records[u]
      PROVE  Watchers'
  <2>0. 0 \in 0..maxRetries /\ 0 < maxRetries
      OBVIOUS
  <2>1. retryCount' \in [Targets -> 0..maxRetries]
    <3>1. CASE retryCount' = [retryCount EXCEPT ![t] = 0]
        BY <2>0, <3>1
    <3>2. CASE retryCount' = retryCount
        BY <3>2
    <3>3. QED
        BY <1>2, <3>1, <3>2
  <2>2. ASSUME NEW u \in Targets
        PROVE  /\ watcher'[u] = "running" => retryCount'[u] < maxRetries
               /\ watcher'[u] = "stopped" => records'[u] = <<>>
    <3>1. CASE u = t
      <4>1. watcher'[u] = "running"
          BY <1>2, <3>1
      <4>2. retryCount'[u] = retryCount[u] \/ retryCount'[u] = 0
          BY <1>2, <3>1
      <4>3. retryCount[u] < maxRetries
          BY <4>1, <1>2
      <4>4. QED
          BY <2>0, <4>1, <4>2, <4>3
    <3>2. CASE u # t
      <4>1. retryCount'[u] = retryCount[u] /\ records'[u] = records[u]
          BY <1>2, <3>2
      <4>2. QED
          BY <1>2, <4>1
    <3>3. QED
        BY <3>1, <3>2
  <2>3. QED
      BY <1>2, <2>1, <2>2
<1>3. ASSUME NEW t \in Targets, overflow(t)
      PROVE  Watchers'
  <2>1. \A u \in Targets : u # t => records'[u] = records[u]
      BY <1>3 DEF overflow, IInv, EventsAreTyped
  <2>2. QED
      BY <1>2, <1>3, <2>1 DEF overflow
<1>4. ASSUME NEW t \in Targets, dispatchAction(t)
      PROVE  Watchers'
  <2>1. \A u \in Targets : u # t => records'[u] = records[u]
      BY <1>4 DEF dispatchAction, IInv, EventsAreTyped
  <2>2. shaken' \in [Targets -> 0..(renamePairTTL + 1)]
      BY <1>4 DEF dispatchAction
  <2>3. QED
      BY <1>2, <1>4, <2>1, <2>2 DEF dispatchAction
<1>5. ASSUME NEW t \in Targets, read_nothing(t)
      PROVE  Watchers'
  <2>1. \A u \in Targets : u # t => records'[u] = records[u]
      BY <1>5 DEF read_nothing, IInv, EventsAreTyped
  <2>2. shaken' \in [Targets -> 0..(renamePairTTL + 1)]
      BY <1>5 DEF read_nothing
  <2>3. QED
      BY <1>2, <1>5, <2>1, <2>2 DEF read_nothing
<1>6. ASSUME NEW t \in Targets, read_fails(t)
      PROVE  Watchers'
  <2>1. /\ watcher[t] = "running" /\ retryCount[t] < maxRetries /\ retryCount[t] \in Nat
        /\ retryCount' = [retryCount EXCEPT ![t] = @ + 1] /\ shaken' = shaken
      BY <1>6 DEF read_fails
  <2>2. retryCount' \in [Targets -> 0..maxRetries]
      BY <2>1
  <2>3. CASE watcher' = [watcher EXCEPT ![t] = "stopped"] /\ records' = [records EXCEPT ![t] = <<>>]
      BY <2>1, <2>2, <2>3 DEF IInv, EventsAreTyped
  <2>4. CASE watcher' = watcher /\ records' = records /\ retryCount[t] + 1 < maxRetries
      BY <2>1, <2>2, <2>4
  <2>5. QED
      BY <1>6, <2>1, <2>3, <2>4 DEF read_fails
<1>7. QED
    BY <1>1, <1>3, <1>4, <1>5, <1>6 DEF MonitorNext, Change, Rename

(* A second passes.                                                          *)
LEMMA TickTyped ==
    ASSUME TypeInv, Tick
    PROVE  RowsTyped' /\ Watchers' /\ BackupsTyped'
<1> USE MonitorAssumption, SchedulerAssumption DEF TypeInv
<1>1. RowsTyped'
    BY DEF Tick, MonitorAges, RowsTyped, envVars
<1>2. Watchers'
  <2>1. shaken' \in [Targets -> 0..(renamePairTTL + 1)]
      BY DEF Tick, MonitorAges, Watchers
  <2>2. QED
      BY <2>1 DEF Tick, MonitorAges, Watchers
<1>3. BackupsTyped'
  <2>1. recent' \in [Paths -> 0..backupCooldown]
      BY DEF Tick, BackupsTyped
  <2>2. QED
      BY <2>1 DEF Tick, BackupsTyped
<1>4. QED
    BY <1>1, <1>2, <1>3

(* The consumer.                                                             *)
LEMMA ConsumeTyped ==
    ASSUME TypeInv, consume
    PROVE  RowsTyped' /\ Watchers' /\ BackupsTyped'
<1> USE MonitorAssumption, SchedulerAssumption DEF TypeInv
<1>1. Head(out) \in Event /\ Len(Tail(out)) = Len(out) - 1 /\ Len(out) \in Nat
    BY HeadTailProperties, LenProperties DEF consume, IInv, EventsAreTyped
<1> DEFINE p == Head(out).path
<1>2. p \in Paths
    BY <1>1 DEF Event
<1>3. RowsTyped'
  <2>1. missed' \in SUBSET Paths
      BY <1>2 DEF consume, scheduleBackup, RowsTyped
  <2>2. Len(out') <= eventQueueSize
      BY <1>1 DEF consume, RowsTyped
  <2>3. QED
      BY <2>1, <2>2 DEF consume, RowsTyped, envVars
<1>4. Watchers'
    BY DEF consume, Watchers
<1>5. BackupsTyped'
  <2>1. CASE job' = job
      BY <2>1 DEF consume, BackupsTyped
  <2>2. CASE job' # job
    <3>1. Free # {} /\ job' = [job EXCEPT ![NewJob] = Job(p)]
        BY <2>2 DEF consume, scheduleBackup
    <3>2. Job(p).polls = fileSettlePolls /\ Job(p).read = 0
        BY DEF Job, NoJob
    <3>3. \A j \in Jobs : job'[j].polls \in 0..fileSettlePolls /\ job'[j].read \in 0..MaxOps
        BY <3>1, <3>2 DEF BackupsTyped, IInv, Ownership
    <3>4. QED
        BY <3>3 DEF consume, BackupsTyped
  <2>3. QED
      BY <2>1, <2>2
<1>6. QED
    BY <1>3, <1>4, <1>5

(* The goroutine of a backup.                                                *)
LEMMA GoroutineTyped ==
    ASSUME TypeInv, NEW j \in Jobs, Goroutine(j)
    PROVE  RowsTyped' /\ Watchers' /\ BackupsTyped'
<1> USE MonitorAssumption, SchedulerAssumption DEF TypeInv
<1>1. /\ job[j] \in Goroutines /\ job[j].stage # "none" /\ job[j].path \in Paths
      /\ job[j].polls \in 0..fileSettlePolls /\ job[j].read \in 0..MaxOps
      /\ job \in [Jobs -> Goroutines]
    BY DEF Goroutine, poll, deadline, backupFile, upload_done, upload_fails, deferred, IInv, Ownership,
       BackupsTyped
<1>2. RowsTyped'
  <2>1. missed' \in SUBSET Paths
      BY <1>1 DEF Goroutine, poll, deadline, backupFile, upload_done, upload_fails, deferred, Set, GivesUp,
         RowsTyped, monitorVars, hisVars
  <2>2. UNCHANGED <<faults, row, out, unrecorded, silent>>
      BY DEF Goroutine, poll, deadline, backupFile, upload_done, upload_fails, deferred, Set, GivesUp,
         monitorVars, envVars, monVars, hisVars
  <2>3. QED
      BY <2>1, <2>2 DEF RowsTyped
<1>3. Watchers'
    BY DEF Goroutine, poll, deadline, backupFile, upload_done, upload_fails, deferred, Set, GivesUp,
       monitorVars, monVars, hisVars, Watchers
<1>4. enabled' \in BOOLEAN
    BY DEF Goroutine, poll, deadline, backupFile, upload_done, upload_fails, deferred, Set, GivesUp,
       BackupsTyped
<1>5. recent' \in [Paths -> 0..backupCooldown]
    BY <1>1 DEF Goroutine, poll, deadline, backupFile, upload_done, upload_fails, deferred, Set, GivesUp,
       BackupsTyped
<1>6. backup' \in [Paths -> 0..MaxOps]
    BY <1>1 DEF Goroutine, poll, deadline, backupFile, upload_done, upload_fails, deferred, Set, GivesUp,
       BackupsTyped
<1>7. ASSUME NEW g, job' = [job EXCEPT ![j] = g], g.polls \in 0..fileSettlePolls, g.read \in 0..MaxOps
      PROVE  BackupsTyped'
    BY <1>1, <1>4, <1>5, <1>6, <1>7 DEF BackupsTyped
<1> DEFINE Typed(g) == g.polls \in 0..fileSettlePolls /\ g.read \in 0..MaxOps
<1>8. \E g : job' = [job EXCEPT ![j] = g] /\ Typed(g)
  <2>1. CASE GivesUp(j) \/ upload_done(j)
    <3> DEFINE g(s) == [job[j] EXCEPT !.stage = s]
    <3>1. Typed(g("ended")) /\ Typed(g("stored"))
        BY <1>1 DEF Goroutines
    <3>2. job' = [job EXCEPT ![j] = g("ended")] \/ job' = [job EXCEPT ![j] = g("stored")]
        BY <2>1 DEF GivesUp, upload_done
    <3>3. QED
        BY <3>1, <3>2
  <2>2. CASE job[j].polls > 0 /\ Set(j, [job[j] EXCEPT !.polls = @ - 1])
    <3>1. Typed([job[j] EXCEPT !.polls = @ - 1])
        BY <1>1, <2>2 DEF Goroutines
    <3>2. QED
        BY <2>2, <3>1 DEF Set
  <2>3. CASE Set(j, [job[j] EXCEPT !.stage = "ready"])
    <3>1. Typed([job[j] EXCEPT !.stage = "ready"])
        BY <1>1 DEF Goroutines
    <3>2. QED
        BY <2>3, <3>1 DEF Set
  <2>4. CASE /\ disk[job[j].path] > Absent
             /\ job' = [job EXCEPT ![j].stage = "upload", ![j].read = disk[job[j].path]]
    <3> DEFINE v == disk[job[j].path]
               g == [job[j] EXCEPT !.stage = "upload", !.read = v]
    <3>1. v \in 0..MaxOps
      <4>1. v \in {Absent, Directory} \union (1..MaxOps)
          BY <1>1 DEF IInv, EventsAreTyped
      <4>2. QED
          BY <2>4, <4>1 DEF Absent, Directory
    <3>2. Typed(g)
      <4>1. v \in Int
          BY <3>1
      <4>2. g.read = v
          BY <1>1, <4>1, UploadTyped
      <4>3. g.polls = job[j].polls
          BY <1>1 DEF Goroutines
      <4>4. QED
          BY <1>1, <3>1, <4>2, <4>3
    <3>3. job' = [job EXCEPT ![j] = g]
        BY <1>1, <2>4
    <3>4. QED
        BY <3>2, <3>3
  <2>5. CASE deferred(j)
    <3>1. Typed(NoJob)
        BY DEF NoJob
    <3>2. QED
        BY <2>5, <3>1 DEF deferred
  <2> HIDE DEF Typed
  <2>6. CASE poll(j)
      BY <2>1, <2>2, <2>3, <2>6 DEF poll
  <2>7. CASE deadline(j)
      BY <2>1, <2>3, <2>7 DEF deadline
  <2>8. CASE backupFile(j)
      BY <2>1, <2>4, <2>8 DEF backupFile
  <2>9. CASE upload_fails(j)
      BY <2>1, <2>9 DEF upload_fails
  <2>10. QED
      BY <2>1, <2>5, <2>6, <2>7, <2>8, <2>9 DEF Goroutine
<1>9. QED
    BY <1>2, <1>3, <1>7, <1>8

(* TypeInv holds at first and is kept.                                       *)
LEMMA TypeInit == Init => TypeInv
<1> SUFFICES ASSUME Init
             PROVE  TypeInv
    OBVIOUS
<1> USE MonitorAssumption, SchedulerAssumption
<1>1. RowsTyped
  <2>1. Len(out) <= eventQueueSize
      BY EmptySeq DEF Init, MonitorInit
  <2>2. unrecorded \in BOOLEAN
      BY DEF Init, MonitorInit
  <2>3. /\ faults \in 0..MaxFaults /\ row \in [Paths -> Actions \union {None}]
        /\ silent \in SUBSET Paths /\ missed \in SUBSET Paths
      BY DEF Init, MonitorInit
  <2>4. QED
      BY <2>1, <2>2, <2>3 DEF RowsTyped
<1>2. Watchers
    BY DEF Init, MonitorInit, Watchers
<1>3. BackupsTyped
    BY DEF Init, BackupsTyped, NoJob
<1>4. QED
    BY <1>1, <1>2, <1>3, InvInit DEF TypeInv

(* Every step keeps TypeInv.                                                 *)
LEMMA TypeStep == TypeInv /\ [Next]_vars => TypeInv'
<1> SUFFICES ASSUME TypeInv, [Next]_vars
             PROVE  TypeInv'
    OBVIOUS
<1>1. IInv'
    BY InvStep DEF TypeInv
<1>2. CASE MonitorNext /\ UNCHANGED schedVars
  <2>1. BackupsTyped'
      BY <1>2 DEF TypeInv, BackupsTyped, schedVars
  <2>2. QED
      BY <1>1, <1>2, <2>1, RowsStep, WatchersStep DEF TypeInv
<1>3. CASE SetBackupEnabled \/ UNCHANGED vars
  <2>1. enabled' \in BOOLEAN
      BY <1>3, Zenon DEF TypeInv, BackupsTyped, SetBackupEnabled, vars, schedVars
  <2>2. BackupsTyped'
      BY <1>3, <2>1 DEF TypeInv, BackupsTyped, SetBackupEnabled, vars, schedVars
  <2>3. RowsTyped' /\ Watchers'
      BY <1>3 DEF TypeInv, RowsTyped, Watchers, SetBackupEnabled, vars, monitorVars, envVars, monVars, hisVars
  <2>4. QED
      BY <1>1, <2>2, <2>3 DEF TypeInv
<1>4. CASE Tick
    BY <1>1, <1>4, TickTyped DEF TypeInv
<1>5. CASE consume
    BY <1>1, <1>5, ConsumeTyped DEF TypeInv
<1>6. CASE \E j \in Jobs : Goroutine(j)
    BY <1>1, <1>6, GoroutineTyped DEF TypeInv
<1>7. QED
    BY <1>2, <1>3, <1>4, <1>5, <1>6 DEF Next

(* What TypeInv says, as SchedulerTypeOK says it.                            *)
LEMMA TypeInvTypes == TypeInv => SchedulerTypeOK
<1> SUFFICES ASSUME TypeInv
             PROVE  SchedulerTypeOK
    OBVIOUS
<1> USE DEF TypeInv
<1>1. ChangeRecord \union {NoBytes} \subseteq Record
    BY DEF ChangeRecord, NoBytes, Rec, Record
<1>2. ASSUME NEW t \in Targets
      PROVE  /\ records[t] \in Seq(Record)
             /\ renameQueue[t] \in Seq([path : Paths, age : 0..(renamePairTTL + 1)])
  <2>1. records[t] \in Seq(ChangeRecord \union {NoBytes}) /\ renameQueue[t] \in Seq(Waiting)
      BY DEF IInv, EventsAreTyped
  <2>2. QED
      BY <1>1, <2>1, SeqMonotonic DEF Waiting
<1>3. MonitorTypeOK
    BY <1>2 DEF MonitorTypeOK, IInv, EventsAreTyped, RowsTyped, Watchers
<1>4. ASSUME NEW j \in Jobs
      PROVE  job[j] \in [stage : {"none", "settle", "ready", "upload", "stored", "ended"},
                         path : Paths \union {None}, polls : 0..fileSettlePolls, read : 0..MaxOps]
  <2>1. job[j] \in Goroutines /\ job[j].polls \in 0..fileSettlePolls /\ job[j].read \in 0..MaxOps
      BY DEF IInv, Ownership, BackupsTyped
  <2>2. QED
      BY <2>1 DEF Goroutines, Stages
<1>5. job \in [Jobs -> [stage : {"none", "settle", "ready", "upload", "stored", "ended"},
                        path : Paths \union {None}, polls : 0..fileSettlePolls, read : 0..MaxOps]]
    BY <1>4 DEF IInv, Ownership
<1>6. QED
    BY <1>3, <1>5 DEF SchedulerTypeOK, IInv, Ownership, BackupsTyped

(* SchedulerTypeOK: the channel never holds more than its size, a watcher    *)
(* gives up after exactly maxRetries failures in a row, and a goroutine's    *)
(* looks, versions and paths stay in range.                                  *)
THEOREM SchedulerTypeCorrect == Spec => []SchedulerTypeOK
BY TypeInit, TypeStep, TypeInvTypes, PTL DEF Spec

-----------------------------------------------------------------------------
(* PairInv.                                                                  *)

\* What a watcher finds in its buffer.
Buffer == Seq(ChangeRecord \union {NoBytes})

\* The halves of a rename are neighbours, unless the kernel lost the second.
OldFollowed(rs) ==
    \A i \in 1..Len(rs) :
        rs[i].action = "renamedOld" =>
            /\ i + 1 \in 1..Len(rs)
            /\ \/ rs[i + 1] = NoBytes
               \/ rs[i + 1].action = "renamedNew" /\ rs[i + 1].from = rs[i].path

AllExpired(q, n) == \A i \in 1..n : q[i].age > renamePairTTL

\* What waits in q has expired, but for the old name of the next record, or
\* for what the next record will shake; when shaken for s seconds more, it will
\* have expired by the end of them.
Paired(rs, q, w, s) ==
    /\ OldFollowed(rs)
    /\ w = "running" /\ s = 0 =>
          \/ AllExpired(q, Len(q))
          \/ rs # <<>> /\ rs[1] = NoBytes
          \/ /\ rs # <<>> /\ rs[1].action = "renamedNew"
             /\ Len(q) > 0 /\ q[Len(q)].path = rs[1].from /\ AllExpired(q, Len(q) - 1)
    /\ s > 0 => \A i \in 1..Len(q) : q[i].age + s > renamePairTTL

PairInv == \A t \in Targets : Paired(records[t], renameQueue[t], watcher[t], shaken[t])

-----------------------------------------------------------------------------
(* The rename queue.                                                         *)

(* When everything has expired flushExpiredRenames keeps nothing.            *)
LEMMA KeptNone ==
    ASSUME NEW q \in Seq(Waiting), AllExpired(q, Len(q))
    PROVE  kept(q) = <<>>
<1>1. DOMAIN q = 1..Len(q) /\ Len(q) \in Nat
    BY LenProperties
<1>2. {i \in DOMAIN q : q[i].age > renamePairTTL} = 1..Len(q)
    BY <1>1 DEF AllExpired
<1>3. Expired(q) = Len(q)
  <2>1. Cardinality(1..Len(q)) = Len(q)
      BY <1>1, FS_Interval
  <2>2. QED
      BY <1>2, <2>1 DEF Expired
<1>4. Len(q) + 1 \in Int /\ Len(q) \in Int /\ Len(q) < Len(q) + 1
    BY <1>1
<1>5. QED
    BY <1>3, <1>4, SubSeqEmpty DEF kept

(* When everything but the last old name has expired, it keeps that at most. *)
LEMMA KeptLast ==
    ASSUME NEW q \in Seq(Waiting), Len(q) > 0, AllExpired(q, Len(q) - 1)
    PROVE  kept(q) = <<>> \/ kept(q) = <<q[Len(q)]>>
<1> DEFINE n == Len(q)
<1>1. DOMAIN q = 1..n /\ n \in Nat
    BY LenProperties
<1>2. \A i \in 1..n : q[i].age \in Int
  <2>1. \A i \in 1..n : q[i] \in Waiting
      BY ElementOfSeq
  <2>2. QED
      BY <2>1, MonitorAssumption DEF Waiting
<1>3. CASE q[n].age > renamePairTTL
  <2>1. AllExpired(q, n)
      BY <1>1, <1>3 DEF AllExpired
  <2>2. QED
      BY <2>1, KeptNone
<1>4. CASE ~(q[n].age > renamePairTTL)
  <2>1. {i \in DOMAIN q : q[i].age > renamePairTTL} = 1..(n - 1)
      BY <1>1, <1>4 DEF AllExpired
  <2>2. Expired(q) = n - 1
    <3>1. n - 1 \in Nat
        BY <1>1
    <3>2. Cardinality(1..(n - 1)) = n - 1
        BY <3>1, FS_Interval
    <3>3. QED
        BY <2>1, <3>2 DEF Expired
  <2>3. kept(q) = SubSeq(q, n, n)
      BY <1>1, <2>2 DEF kept
  <2>4. q[n] \in Waiting /\ n \in Int
      BY <1>1, ElementOfSeq
  <2>5. /\ SubSeq(q, n, n) \in Seq(Waiting) /\ Len(SubSeq(q, n, n)) = 1
        /\ SubSeq(q, n, n)[1] = q[n]
    <3>1. \A i \in n..n : q[i] \in Waiting
        BY <1>1, <2>4
    <3> HIDE DEF n
    <3>2. /\ SubSeq(q, n, n) \in Seq(Waiting)
          /\ Len(SubSeq(q, n, n)) = IF n <= n THEN n - n + 1 ELSE 0
          /\ \A i \in 1..(n - n + 1) : SubSeq(q, n, n)[i] = q[n + i - 1]
        BY <2>4, <3>1, SubSeqProperties
    <3>3. n - n + 1 = 1 /\ n + 1 - 1 = n /\ n <= n /\ 1 \in 1..(n - n + 1)
        BY <2>4
    <3>4. QED
        BY <3>2, <3>3
  <2>6. SubSeq(q, n, n) = <<q[n]>>
    <3> HIDE DEF n
    <3>1. <<q[n]>> \in Seq(Waiting) /\ Len(<<q[n]>>) = 1 /\ <<q[n]>>[1] = q[n]
        BY <2>4
    <3>2. \A i \in 1..Len(SubSeq(q, n, n)) : SubSeq(q, n, n)[i] = <<q[n]>>[i]
        BY <2>5, <3>1
    <3>3. \A s, u \in Seq(Waiting) : Len(s) = Len(u) /\ (\A i \in 1..Len(s) : s[i] = u[i]) => s = u
        BY SeqEqual
    <3>4. QED
        BY <2>5, <3>1, <3>2, <3>3, Zenon
  <2>7. QED
      BY <2>3, <2>6
<1>5. QED
    BY <1>3, <1>4

(* What is kept was there before.                                            *)
LEMMA KeptElems ==
    ASSUME NEW q \in Seq(Waiting)
    PROVE  /\ kept(q) \in Seq(Waiting)
           /\ \A i \in 1..Len(kept(q)) : \E k \in 1..Len(q) : kept(q)[i] = q[k]
<1>1. Expired(q) \in 0..Len(q) /\ Len(q) \in Nat
    BY ExpiredBound, LenProperties
<1> DEFINE e == Expired(q)
           n == Len(q)
<1>2. \A i \in (e + 1)..n : q[i] \in Waiting
    BY <1>1, ElementOfSeq
<1> HIDE DEF e, n
<1>3. e \in Nat /\ n \in Nat /\ e <= n
    BY <1>1 DEF e, n
<1>4. /\ SubSeq(q, e + 1, n) \in Seq(Waiting)
      /\ Len(SubSeq(q, e + 1, n)) = IF e + 1 <= n THEN n - (e + 1) + 1 ELSE 0
      /\ \A i \in 1..(n - (e + 1) + 1) : SubSeq(q, e + 1, n)[i] = q[e + 1 + i - 1]
    BY <1>2, <1>3, SubSeqProperties
<1>5. kept(q) = SubSeq(q, e + 1, n)
    BY DEF kept, e, n
<1>6. ASSUME NEW i \in 1..Len(kept(q))
      PROVE  \E k \in 1..n : kept(q)[i] = q[k]
  <2>1. i \in 1..(n - (e + 1) + 1) /\ e + 1 + i - 1 \in 1..n
      BY <1>3, <1>4, <1>5, <1>6
  <2>2. QED
      BY <1>4, <1>5, <2>1
<1>7. QED
    BY <1>4, <1>5, <1>6 DEF n

-----------------------------------------------------------------------------
(* The halves of renames in a buffer.                                        *)

(* Elements of a buffer.                                                     *)
LEMMA BufferFacts ==
    ASSUME NEW rs \in Buffer
    PROVE  /\ Len(rs) \in Nat /\ DOMAIN rs = 1..Len(rs)
           /\ \A i \in 1..Len(rs) : rs[i] \in ChangeRecord \union {NoBytes}
           /\ rs # <<>> <=> Len(rs) > 0
           /\ rs # <<>> => /\ Head(rs) = rs[1] /\ Tail(rs) \in Buffer /\ Len(Tail(rs)) = Len(rs) - 1
                           /\ \A i \in 1..(Len(rs) - 1) : Tail(rs)[i] = rs[i + 1]
<1>1. rs \in Seq(ChangeRecord \union {NoBytes})
    BY DEF Buffer
<1>2. Len(rs) \in Nat /\ DOMAIN rs = 1..Len(rs) /\ \A i \in 1..Len(rs) : rs[i] \in ChangeRecord \union {NoBytes}
    BY <1>1, LenProperties, ElementOfSeq
<1>3. rs # <<>> <=> Len(rs) > 0
    BY <1>1, <1>2, EmptySeq
<1>4. rs # <<>> => /\ Tail(rs) \in Buffer /\ Len(Tail(rs)) = Len(rs) - 1
                   /\ \A i \in 1..(Len(rs) - 1) : Tail(rs)[i] = rs[i + 1]
    BY <1>1, HeadTailProperties DEF Buffer
<1>5. Head(rs) = rs[1]
    BY <1>1
<1>6. QED
    BY <1>2, <1>3, <1>4, <1>5

(* More records at the end.                                                  *)
LEMMA ConcatFacts ==
    ASSUME NEW rs \in Buffer, NEW s \in Buffer
    PROVE  /\ rs \o s \in Buffer /\ Len(rs \o s) = Len(rs) + Len(s)
           /\ \A i \in 1..Len(rs) : i \in 1..Len(rs \o s) /\ (rs \o s)[i] = rs[i]
           /\ \A i \in 1..Len(s) : (rs \o s)[i + Len(rs)] = s[i]
           /\ \A i \in 1..Len(rs \o s) : i \in 1..Len(rs) \/ i - Len(rs) \in 1..Len(s)
<1>1. /\ rs \o s \in Seq(ChangeRecord \union {NoBytes})
      /\ Len(rs \o s) = Len(rs) + Len(s)
      /\ \A i \in 1 .. Len(rs) + Len(s) : (rs \o s)[i] = IF i <= Len(rs) THEN rs[i] ELSE s[i - Len(rs)]
    BY ConcatProperties DEF Buffer
<1>2. Len(rs) \in Nat /\ Len(s) \in Nat
    BY BufferFacts
<1>3. rs \o s \in Buffer
    BY <1>1 DEF Buffer
<1>4. \A i \in 1..Len(rs) : i \in 1..Len(rs \o s) /\ (rs \o s)[i] = rs[i]
    BY <1>1, <1>2
<1>5. ASSUME NEW i \in 1..Len(s)
      PROVE  (rs \o s)[i + Len(rs)] = s[i]
  <2>1. i + Len(rs) \in 1..(Len(rs) + Len(s)) /\ ~(i + Len(rs) <= Len(rs)) /\ (i + Len(rs)) - Len(rs) = i
      BY <1>2
  <2>2. QED
      BY <1>1, <2>1
<1>6. \A i \in 1..Len(rs \o s) : i \in 1..Len(rs) \/ i - Len(rs) \in 1..Len(s)
    BY <1>1, <1>2
<1>7. QED
    BY <1>1, <1>3, <1>4, <1>5, <1>6

(* New records, with both halves of a rename or none, come after the others. *)
LEMMA FollowedConcat ==
    ASSUME NEW rs \in Buffer, NEW s \in Buffer, OldFollowed(rs), OldFollowed(s)
    PROVE  OldFollowed(rs \o s)
<1> DEFINE all == rs \o s
           m == Len(rs)
<1>1. m \in Nat /\ Len(s) \in Nat
    BY BufferFacts
<1>2. /\ Len(all) = m + Len(s)
      /\ \A i \in 1..m : all[i] = rs[i]
      /\ \A i \in 1..Len(s) : all[i + m] = s[i]
      /\ \A i \in 1..Len(all) : i \in 1..m \/ i - m \in 1..Len(s)
    BY ConcatFacts
<1> HIDE DEF all
<1>3. ASSUME NEW i \in 1..Len(all), all[i].action = "renamedOld"
      PROVE  /\ i + 1 \in 1..Len(all)
             /\ \/ all[i + 1] = NoBytes
                \/ all[i + 1].action = "renamedNew" /\ all[i + 1].from = all[i].path
  <2>1. CASE i \in 1..m
    <3>1. all[i] = rs[i]
        BY <1>2, <2>1
    <3>2. /\ i + 1 \in 1..m
          /\ \/ rs[i + 1] = NoBytes
             \/ rs[i + 1].action = "renamedNew" /\ rs[i + 1].from = rs[i].path
        BY <1>3, <2>1, <3>1 DEF OldFollowed
    <3>3. all[i + 1] = rs[i + 1] /\ i + 1 \in 1..Len(all)
        BY <1>1, <1>2, <3>2
    <3>4. QED
        BY <3>1, <3>2, <3>3
  <2>2. CASE i - m \in 1..Len(s)
    <3> DEFINE k == i - m
    <3>1. k \in 1..Len(s) /\ k + m = i /\ (k + 1) + m = i + 1
        BY <1>1, <2>2
    <3> HIDE DEF k
    <3>2. all[i] = s[k]
        BY <1>2, <3>1
    <3>3. /\ k + 1 \in 1..Len(s)
          /\ \/ s[k + 1] = NoBytes
             \/ s[k + 1].action = "renamedNew" /\ s[k + 1].from = s[k].path
        BY <1>3, <3>1, <3>2 DEF OldFollowed
    <3>4. all[(k + 1) + m] = s[k + 1]
        BY <1>2, <3>3
    <3>5. i + 1 \in 1..Len(all)
        BY <1>1, <1>2, <3>1, <3>3
    <3>6. QED
        BY <3>1, <3>2, <3>3, <3>4, <3>5
  <2>3. QED
      BY <1>2, <2>1, <2>2
<1>4. QED
    BY <1>3 DEF OldFollowed, all

(* One record less.                                                          *)
LEMMA FollowedTail ==
    ASSUME NEW rs \in Buffer, rs # <<>>, OldFollowed(rs)
    PROVE  OldFollowed(Tail(rs))
<1>1. /\ Len(rs) \in Nat /\ Len(Tail(rs)) = Len(rs) - 1
      /\ \A i \in 1..(Len(rs) - 1) : Tail(rs)[i] = rs[i + 1]
    BY BufferFacts
<1> DEFINE u == Tail(rs)
<1> HIDE DEF u
<1>2. ASSUME NEW i \in 1..Len(u), u[i].action = "renamedOld"
      PROVE  /\ i + 1 \in 1..Len(u)
             /\ \/ u[i + 1] = NoBytes
                \/ u[i + 1].action = "renamedNew" /\ u[i + 1].from = u[i].path
  <2>1. u[i] = rs[i + 1] /\ i + 1 \in 1..Len(rs)
      BY <1>1 DEF u
  <2>2. /\ (i + 1) + 1 \in 1..Len(rs)
        /\ \/ rs[(i + 1) + 1] = NoBytes
           \/ rs[(i + 1) + 1].action = "renamedNew" /\ rs[(i + 1) + 1].from = rs[i + 1].path
      BY <1>2, <2>1 DEF OldFollowed
  <2>3. i + 1 \in 1..Len(u) /\ u[i + 1] = rs[(i + 1) + 1]
      BY <1>1, <2>2 DEF u
  <2>4. QED
      BY <2>1, <2>2, <2>3
<1>3. QED
    BY <1>2 DEF OldFollowed, u

(* An overflow: the records after the k-th become one read of nothing.       *)
LEMMA OverflowFacts ==
    ASSUME NEW rs \in Buffer, NEW k \in 0..(Len(rs) - 1)
    PROVE  LET u == Append(SubSeq(rs, 1, k), NoBytes)
           IN  /\ u \in Buffer /\ Len(u) = k + 1 /\ u[k + 1] = NoBytes
               /\ \A i \in 1..k : u[i] = rs[i]
<1> DEFINE R == ChangeRecord \union {NoBytes}
           h == SubSeq(rs, 1, k)
<1>1. Len(rs) \in Nat /\ \A i \in 1..Len(rs) : rs[i] \in R
    BY BufferFacts
<1>2. NoBytes \in R
    OBVIOUS
<1> HIDE DEF R
<1>3. k \in Nat /\ 1 \in Int /\ \A i \in 1..k : rs[i] \in R
    BY <1>1
<1>4. /\ h \in Seq(R) /\ Len(h) = IF 1 <= k THEN k - 1 + 1 ELSE 0
      /\ \A i \in 1..(k - 1 + 1) : h[i] = rs[1 + i - 1]
    BY <1>3, SubSeqProperties
<1> HIDE DEF h
<1>5. Len(h) = k /\ \A i \in 1..k : h[i] = rs[i]
    BY <1>3, <1>4
<1>6. /\ Append(h, NoBytes) \in Seq(R) /\ Len(Append(h, NoBytes)) = Len(h) + 1
      /\ \A i \in 1..Len(h) : Append(h, NoBytes)[i] = h[i]
      /\ Append(h, NoBytes)[Len(h) + 1] = NoBytes
    BY <1>2, <1>4, AppendProperties
<1>7. QED
    BY <1>5, <1>6 DEF R, h, Buffer

(* A half that the overflow cuts off is replaced by NoBytes.                 *)
LEMMA FollowedOverflow ==
    ASSUME NEW rs \in Buffer, NEW k \in 0..(Len(rs) - 1), OldFollowed(rs)
    PROVE  OldFollowed(Append(SubSeq(rs, 1, k), NoBytes))
<1> DEFINE u == Append(SubSeq(rs, 1, k), NoBytes)
<1>1. /\ u \in Buffer /\ Len(u) = k + 1 /\ u[k + 1] = NoBytes /\ \A i \in 1..k : u[i] = rs[i]
      /\ Len(rs) \in Nat
    BY OverflowFacts, BufferFacts
<1> HIDE DEF u
<1>2. NoBytes.action # "renamedOld"
    BY DEF NoBytes, Rec
<1>3. ASSUME NEW i \in 1..Len(u), u[i].action = "renamedOld"
      PROVE  /\ i + 1 \in 1..Len(u)
             /\ \/ u[i + 1] = NoBytes
                \/ u[i + 1].action = "renamedNew" /\ u[i + 1].from = u[i].path
  <2>1. i \in 1..k
      BY <1>1, <1>2, <1>3
  <2>2. CASE i = k
      BY <1>1, <2>1, <2>2
  <2>3. CASE i # k
    <3>1. i + 1 \in 1..k /\ u[i] = rs[i] /\ u[i + 1] = rs[i + 1] /\ i \in 1..Len(rs)
        BY <1>1, <2>1, <2>3
    <3>2. \/ rs[i + 1] = NoBytes
          \/ rs[i + 1].action = "renamedNew" /\ rs[i + 1].from = rs[i].path
        BY <1>3, <3>1 DEF OldFollowed
    <3>3. QED
        BY <1>1, <3>1, <3>2
  <2>4. QED
      BY <2>2, <2>3
<1>4. QED
    BY <1>3 DEF OldFollowed, u

-----------------------------------------------------------------------------
(* Paired, step by step.                                                     *)

(* New records.                                                              *)
LEMMA PairedConcat ==
    ASSUME NEW rs \in Buffer, NEW x \in Buffer, OldFollowed(x),
           NEW q, NEW w, NEW s, Paired(rs, q, w, s)
    PROVE  Paired(rs \o x, q, w, s)
<1>1. OldFollowed(rs \o x)
    BY FollowedConcat DEF Paired
<1>2. rs # <<>> => rs \o x # <<>> /\ (rs \o x)[1] = rs[1]
  <2> SUFFICES ASSUME rs # <<>>
               PROVE  rs \o x # <<>> /\ (rs \o x)[1] = rs[1]
      OBVIOUS
  <2>1. Len(rs) > 0 /\ Len(rs) \in Nat /\ Len(x) \in Nat
      BY BufferFacts
  <2>2. rs \o x \in Buffer /\ Len(rs \o x) = Len(rs) + Len(x) /\ \A i \in 1..Len(rs) : (rs \o x)[i] = rs[i]
      BY ConcatFacts
  <2>3. rs \o x # <<>>
    <3>1. Len(rs \o x) > 0
        BY <2>1, <2>2
    <3>2. QED
        BY <2>2, <3>1, BufferFacts
  <2>4. QED
      BY <2>1, <2>2, <2>3
<1>3. QED
    BY <1>1, <1>2, Zenon DEF Paired

(* Lost records.                                                             *)
LEMMA PairedOverflow ==
    ASSUME NEW rs \in Buffer, NEW k \in 0..(Len(rs) - 1),
           NEW q, NEW w, NEW s, Paired(rs, q, w, s)
    PROVE  Paired(Append(SubSeq(rs, 1, k), NoBytes), q, w, s)
<1> DEFINE u == Append(SubSeq(rs, 1, k), NoBytes)
<1>1. OldFollowed(u)
    BY FollowedOverflow DEF Paired
<1>2. /\ u \in Buffer /\ Len(u) = k + 1 /\ u[k + 1] = NoBytes /\ \A i \in 1..k : u[i] = rs[i]
      /\ Len(rs) \in Nat
    BY OverflowFacts, BufferFacts
<1> HIDE DEF u
<1>3. u # <<>>
  <2>1. Len(u) > 0
      BY <1>2
  <2>2. QED
      BY <1>2, <2>1, BufferFacts
<1>4. u[1] = NoBytes \/ u[1] = rs[1]
    BY <1>2
<1>5. Paired(u, q, w, s)
    BY <1>1, <1>3, <1>4, Zenon DEF Paired
<1>6. QED
    BY <1>5 DEF u

(* The next record of a watcher that is not shaken: it finds nothing waiting *)
(* but its own old name.                                                     *)
LEMMA KeptRight ==
    ASSUME NEW rs \in Buffer, rs # <<>>, rs[1] # NoBytes, NEW q \in Seq(Waiting),
           Paired(rs, q, "running", 0)
    PROVE  \/ kept(q) = <<>>
           \/ /\ rs[1].action = "renamedNew"
              /\ \E x \in Waiting : kept(q) = <<x>> /\ x.path = rs[1].from
<1>1. CASE AllExpired(q, Len(q))
    BY <1>1, KeptNone
<1>2. CASE /\ rs[1].action = "renamedNew"
           /\ Len(q) > 0 /\ q[Len(q)].path = rs[1].from /\ AllExpired(q, Len(q) - 1)
  <2>1. q[Len(q)] \in Waiting
    <3>1. Len(q) \in Nat
        BY LenProperties
    <3>2. Len(q) \in 1..Len(q)
        BY <1>2, <3>1
    <3>3. QED
        BY <3>2, ElementOfSeq
  <2>2. kept(q) = <<>> \/ kept(q) = <<q[Len(q)]>>
      BY <1>2, KeptLast
  <2>3. QED
      BY <1>2, <2>1, <2>2
<1>3. QED
    BY <1>1, <1>2, Zenon DEF Paired

(* The parts of Paired that matter once nothing waits.                       *)
LEMMA PairedEmpty ==
    ASSUME NEW rs, OldFollowed(rs), NEW w, NEW s
    PROVE  Paired(rs, <<>>, w, s)
<1>1. Len(<<>>) = 0
    BY EmptySeq
<1>2. AllExpired(<<>>, Len(<<>>)) /\ \A i \in 1..Len(<<>>) : <<>>[i].age + s > renamePairTTL
    BY <1>1 DEF AllExpired
<1>3. QED
    BY <1>2, Zenon DEF Paired

(* The parts of Paired that matter while shaken.                             *)
LEMMA PairedShaken ==
    ASSUME NEW rs, OldFollowed(rs), NEW q, NEW w, NEW s \in Nat, s > 0,
           \A i \in 1..Len(q) : q[i].age + s > renamePairTTL
    PROVE  Paired(rs, q, w, s)
<1>1. s # 0
    OBVIOUS
<1>2. QED
    BY <1>1, Zenon DEF Paired

(* dispatchAction of an old name.                                            *)
LEMMA PairedOld ==
    ASSUME NEW rs \in Buffer, rs # <<>>, NEW q \in Seq(Waiting), NEW w, NEW s \in Nat,
           rs[1] \in ChangeRecord, rs[1].action = "renamedOld", w = "running", Paired(rs, q, w, s)
    PROVE  Paired(Tail(rs), Append(kept(q), [path |-> rs[1].path, age |-> 0]), w,
                  IF s > 0 THEN renamePairTTL + 1 ELSE s)
<1> USE MonitorAssumption
<1> DEFINE x == [path |-> rs[1].path, age |-> 0]
           z == Append(kept(q), x)
<1>1. OldFollowed(Tail(rs))
    BY FollowedTail DEF Paired
<1>2. x \in Waiting /\ x.path = rs[1].path
    BY DEF Waiting, ChangeRecord
<1>3. kept(q) \in Seq(Waiting)
    BY KeptElems
<1>4. CASE s > 0
  <2>1. z \in Seq(Waiting)
    <3> HIDE DEF x
    <3>1. QED
        BY <1>2, <1>3, AppendProperties
  <2> HIDE DEF z
  <2>2. \A i \in 1..Len(z) : z[i] \in Waiting
      BY <2>1, ElementOfSeq
  <2>3. \A i \in 1..Len(z) : z[i].age + (renamePairTTL + 1) > renamePairTTL
      BY <2>2 DEF Waiting
  <2>4. Paired(Tail(rs), z, w, renamePairTTL + 1)
      BY <1>1, <2>3, PairedShaken
  <2>5. QED
      BY <1>4, <2>4 DEF z
<1>5. CASE s = 0
  <2>1. rs[1] # NoBytes
      BY DEF NoBytes, Rec
  <2>2. kept(q) = <<>>
      BY <1>5, <2>1, KeptRight
  <2>3. z = <<x>>
      BY <1>2, <2>2
  <2>4. /\ Len(rs) \in Nat /\ Len(rs) > 0 /\ Tail(rs) \in Buffer /\ Len(Tail(rs)) = Len(rs) - 1
        /\ \A i \in 1..(Len(rs) - 1) : Tail(rs)[i] = rs[i + 1]
      BY BufferFacts
  <2>5. /\ 1 + 1 \in 1..Len(rs)
        /\ \/ rs[1 + 1] = NoBytes
           \/ rs[1 + 1].action = "renamedNew" /\ rs[1 + 1].from = rs[1].path
    <3>1. 1 \in 1..Len(rs)
        BY <2>4
    <3>2. OldFollowed(rs)
        BY DEF Paired
    <3>3. QED
        BY <3>1, <3>2 DEF OldFollowed
  <2>6. Tail(rs)[1] = rs[1 + 1] /\ Tail(rs) # <<>>
    <3>1. 1 \in 1..(Len(rs) - 1) /\ Len(Tail(rs)) > 0
        BY <2>4, <2>5
    <3>2. QED
        BY <2>4, <3>1, BufferFacts
  <2>7. Len(z) = 1 /\ z[1] = x /\ AllExpired(z, 1 - 1)
    <3>1. AllExpired(z, 1 - 1)
        BY DEF AllExpired
    <3> HIDE DEF z, x
    <3>2. Len(z) = 1 /\ z[1] = x
        BY <2>3
    <3>3. QED
        BY <3>1, <3>2
  <2>8. Len(z) > 0 /\ z[Len(z)].path = rs[1].path /\ AllExpired(z, Len(z) - 1)
      BY <1>2, <2>7
  <2>9. \A i \in 1..Len(z) : s > 0 => z[i].age + s > renamePairTTL
      BY <1>5
  <2>10. Paired(Tail(rs), z, w, s)
    <3> HIDE DEF z
    <3>1. QED
        BY <1>1, <1>5, <2>5, <2>6, <2>8, <2>9, Zenon DEF Paired
  <2>11. QED
      BY <1>5, <2>10
<1>6. QED
    BY <1>4, <1>5

(* dispatchAction of any other record.                                       *)
LEMMA PairedOther ==
    ASSUME NEW rs \in Buffer, rs # <<>>, NEW q \in Seq(Waiting), NEW w, NEW s \in Nat,
           rs[1] # NoBytes, w = "running", Paired(rs, q, w, s), NEW z \in Seq(Waiting),
           \/ z = Tail(kept(q)) /\ kept(q) # <<>> /\ rs[1].action = "renamedNew"
           \/ z = kept(q) /\ (rs[1].action = "renamedNew" => z = <<>>)
    PROVE  Paired(Tail(rs), z, w, s)
<1> USE MonitorAssumption
<1>1. OldFollowed(Tail(rs))
    BY FollowedTail DEF Paired
<1>2. kept(q) \in Seq(Waiting) /\ \A i \in 1..Len(kept(q)) : \E k \in 1..Len(q) : kept(q)[i] = q[k]
    BY KeptElems
<1>3. CASE s > 0
  <2>1. \A i \in 1..Len(kept(q)) : kept(q)[i].age + s > renamePairTTL
      BY <1>2, <1>3 DEF Paired
  <2>2. \A i \in 1..Len(z) : z[i].age + s > renamePairTTL
    <3>1. CASE z = kept(q)
        BY <2>1, <3>1
    <3>2. CASE z = Tail(kept(q)) /\ kept(q) # <<>>
      <4>1. /\ Len(Tail(kept(q))) = Len(kept(q)) - 1
            /\ \A i \in 1..Len(Tail(kept(q))) : Tail(kept(q))[i] = kept(q)[i + 1]
          BY <1>2, <3>2, HeadTailProperties
      <4>2. Len(kept(q)) \in Nat
          BY <1>2, LenProperties
      <4>3. ASSUME NEW i \in 1..Len(z)
            PROVE  i + 1 \in 1..Len(kept(q)) /\ z[i] = kept(q)[i + 1]
        <5>1. i \in 1..Len(Tail(kept(q))) /\ Len(z) = Len(kept(q)) - 1
            BY <3>2, <4>1
        <5>2. z[i] = kept(q)[i + 1]
            BY <3>2, <4>1, <5>1
        <5>3. i + 1 \in 1..Len(kept(q))
            BY <4>2, <5>1
        <5>4. QED
            BY <5>2, <5>3
      <4>4. QED
          BY <2>1, <4>3
    <3>3. QED
        BY <3>1, <3>2
  <2>3. QED
      BY <1>1, <1>3, <2>2, PairedShaken
<1>4. CASE s = 0
  <2>1. \/ kept(q) = <<>>
        \/ rs[1].action = "renamedNew" /\ \E x \in Waiting : kept(q) = <<x>>
      BY <1>4, KeptRight
  <2>2. \A x \in Waiting : Tail(<<x>>) = <<>>
      OBVIOUS
  <2>3. z = <<>>
      BY <2>1, <2>2
  <2>4. QED
      BY <1>1, <2>3, PairedEmpty
<1>5. QED
    BY <1>3, <1>4

(* A second passes.                                                          *)
LEMMA PairedTick ==
    ASSUME NEW rs, NEW q \in Seq(Waiting), NEW w, NEW s \in Nat, Paired(rs, q, w, s)
    PROVE  Paired(rs, [i \in DOMAIN q |-> [q[i] EXCEPT !.age = Capped(@)]], w,
                  IF s = 0 THEN 0 ELSE s - 1)
<1> USE MonitorAssumption
<1> DEFINE z == [i \in DOMAIN q |-> [q[i] EXCEPT !.age = Capped(@)]]
           u == IF s = 0 THEN 0 ELSE s - 1
<1>1. Len(q) \in Nat /\ DOMAIN q = 1..Len(q) /\ \A i \in 1..Len(q) : q[i] \in Waiting
    BY LenProperties, ElementOfSeq
<1>2. Len(z) = Len(q)
    BY <1>1
<1>3. \A i \in 1..Len(q) : z[i].path = q[i].path /\ z[i].age = Capped(q[i].age) /\ q[i].age \in Int
  <2>1. \A x \in Waiting : /\ [x EXCEPT !.age = Capped(@)].path = x.path
                           /\ [x EXCEPT !.age = Capped(@)].age = Capped(x.age)
                           /\ x.age \in Int
      BY DEF Waiting
  <2>2. QED
      BY <1>1, <2>1
<1> HIDE DEF z
<1>4. ASSUME NEW n \in Int, n <= Len(q), AllExpired(q, n)
      PROVE  AllExpired(z, n)
    BY <1>1, <1>3, <1>4 DEF AllExpired, Capped
<1>5. ASSUME u > 0
      PROVE  \A i \in 1..Len(z) : z[i].age + u > renamePairTTL
  <2>1. s > 0 /\ u = s - 1
      BY <1>5
  <2>2. \A i \in 1..Len(q) : q[i].age + s > renamePairTTL
      BY <2>1 DEF Paired
  <2>3. QED
      BY <1>2, <1>3, <2>1, <2>2 DEF Capped
<1>6. CASE s = 0
  <2>1. u = 0
      BY <1>6
  <2>2. ASSUME w = "running"
        PROVE  \/ AllExpired(z, Len(z))
               \/ rs # <<>> /\ rs[1] = NoBytes
               \/ /\ rs # <<>> /\ rs[1].action = "renamedNew"
                  /\ Len(z) > 0 /\ z[Len(z)].path = rs[1].from /\ AllExpired(z, Len(z) - 1)
    <3>1. CASE AllExpired(q, Len(q))
        BY <1>1, <1>2, <1>4, <3>1
    <3>2. CASE rs # <<>> /\ rs[1] = NoBytes
        BY <3>2
    <3>3. CASE /\ rs # <<>> /\ rs[1].action = "renamedNew"
               /\ Len(q) > 0 /\ q[Len(q)].path = rs[1].from /\ AllExpired(q, Len(q) - 1)
      <4>1. Len(q) - 1 \in Int /\ Len(q) - 1 <= Len(q) /\ Len(q) \in 1..Len(q)
          BY <1>1, <3>3
      <4>2. AllExpired(z, Len(q) - 1)
          BY <1>4, <3>3, <4>1
      <4>3. z[Len(q)].path = rs[1].from
          BY <1>3, <3>3, <4>1
      <4>4. QED
          BY <1>2, <3>3, <4>2, <4>3
    <3>4. QED
        BY <1>6, <2>2, <3>1, <3>2, <3>3, Zenon DEF Paired
  <2>3. ~(u > 0)
      BY <2>1
  <2>4. OldFollowed(rs)
      BY DEF Paired
  <2> HIDE DEF u
  <2>5. Paired(rs, z, w, u)
      BY <2>1, <2>2, <2>3, <2>4, Zenon DEF Paired
  <2>6. QED
      BY <2>5 DEF u, z
<1>7. CASE s > 0
  <2>1. u = s - 1 /\ u \in Nat
      BY <1>7
  <2>2. \A i \in 1..Len(q) : q[i].age + s > renamePairTTL
      BY <1>7 DEF Paired
  <2>3. u = 0 => AllExpired(z, Len(z))
      BY <1>2, <1>3, <2>1, <2>2 DEF AllExpired, Capped
  <2>4. OldFollowed(rs)
      BY DEF Paired
  <2> HIDE DEF u
  <2>5. Paired(rs, z, w, u)
      BY <1>5, <2>3, <2>4, Zenon DEF Paired
  <2>6. QED
      BY <2>5 DEF u, z
<1>8. QED
    BY <1>6, <1>7

-----------------------------------------------------------------------------
(* The records of a change.                                                  *)
LEMMA ChangeSeen ==
    ASSUME NEW p \in Paths, NEW a \in {"added", "modified", "removed"}, NEW t
    PROVE  LET x == IF p \in Watched[t] THEN <<Rec(a, p, None)>> ELSE <<>>
           IN  x \in Buffer /\ OldFollowed(x)
<1> DEFINE R == ChangeRecord \union {NoBytes}
<1>1. Rec(a, p, None) \in R /\ Rec(a, p, None).action # "renamedOld"
    BY DEF Rec, ChangeRecord
<1>2. \A e \in R : /\ <<e>> \in Seq(R) /\ <<>> \in Seq(R) /\ Len(<<e>>) = 1 /\ <<e>>[1] = e
    <2> HIDE DEF R
    <2>1. QED
        OBVIOUS
<1>3. Len(<<>>) = 0
    BY EmptySeq
<1>4. OldFollowed(<<>>)
    BY <1>3 DEF OldFollowed
<1>5. OldFollowed(<<Rec(a, p, None)>>)
    BY <1>1, <1>2 DEF OldFollowed
<1>6. QED
    BY <1>1, <1>2, <1>4, <1>5 DEF Buffer

(* The records of a rename: both halves to a target that watches both names, *)
(* no half to another.                                                       *)
LEMMA RenameSeen ==
    ASSUME NEW p \in Paths, NEW q \in Paths, NEW t
    PROVE  LET x == CASE {p, q} \subseteq Watched[t] -> <<Rec("renamedOld", p, None), Rec("renamedNew", q, p)>>
                      [] p \in Watched[t] /\ q \notin Watched[t] -> <<Rec("removed", p, None)>>
                      [] p \notin Watched[t] /\ q \in Watched[t] -> <<Rec("added", q, None)>>
                      [] OTHER -> <<>>
           IN  x \in Buffer /\ OldFollowed(x)
<1> DEFINE R == ChangeRecord \union {NoBytes}
           a == Rec("renamedOld", p, None)
           b == Rec("renamedNew", q, p)
           c == Rec("removed", p, None)
           d == Rec("added", q, None)
<1>1. a \in R /\ b \in R /\ c \in R /\ d \in R
    BY DEF Rec, ChangeRecord
<1>2. /\ b.action = "renamedNew" /\ b.from = a.path
      /\ c.action # "renamedOld" /\ d.action # "renamedOld"
    BY DEF Rec
<1> HIDE DEF R, a, b, c, d
<1>3. \A e, f \in R : /\ <<e>> \in Seq(R) /\ <<>> \in Seq(R) /\ Len(<<e>>) = 1 /\ <<e>>[1] = e
                      /\ <<e, f>> \in Seq(R) /\ Len(<<e, f>>) = 2 /\ <<e, f>>[1] = e /\ <<e, f>>[2] = f
    OBVIOUS
<1>4. Len(<<>>) = 0
    BY EmptySeq
<1>5. OldFollowed(<<>>)
    BY <1>4 DEF OldFollowed
<1>6. OldFollowed(<<c>>) /\ OldFollowed(<<d>>)
    BY <1>1, <1>2, <1>3 DEF OldFollowed
<1>7. OldFollowed(<<a, b>>)
  <2>1. Len(<<a, b>>) = 2 /\ <<a, b>>[1] = a /\ <<a, b>>[2] = b
      BY <1>1, <1>3
  <2>2. ASSUME NEW i \in 1..2, <<a, b>>[i].action = "renamedOld"
        PROVE  /\ i + 1 \in 1..2
               /\ <<a, b>>[i + 1].action = "renamedNew" /\ <<a, b>>[i + 1].from = <<a, b>>[i].path
    <3>1. i = 1
        BY <1>2, <2>1, <2>2
    <3>2. QED
        BY <1>2, <2>1, <3>1
  <2>3. QED
      BY <2>1, <2>2 DEF OldFollowed
<1>8. <<a, b>> \in Buffer /\ <<c>> \in Buffer /\ <<d>> \in Buffer /\ <<>> \in Buffer
    BY <1>1, <1>3 DEF Buffer, R
<1>9. QED
    BY <1>5, <1>6, <1>7, <1>8, Zenon DEF a, b, c, d

(* A change of the file system keeps PairInv.                                *)
LEMMA PairChange ==
    ASSUME TypeInv, PairInv, NEW seen, NEW touched, Changes([t \in Targets |-> seen[t]], touched),
           \A t \in Targets : seen[t] \in Buffer /\ OldFollowed(seen[t])
    PROVE  PairInv'
<1> SUFFICES ASSUME NEW t \in Targets
             PROVE  Paired(records'[t], renameQueue'[t], watcher'[t], shaken'[t])
    BY DEF PairInv
<1>1. records[t] \in Buffer
    BY DEF TypeInv, IInv, EventsAreTyped, Buffer
<1>2. Paired(records[t], renameQueue[t], watcher[t], shaken[t])
    BY DEF PairInv
<1>3. renameQueue'[t] = renameQueue[t] /\ watcher'[t] = watcher[t] /\ shaken'[t] = shaken[t]
    BY DEF Changes
<1>4. records'[t] = records[t] \o seen[t] \/ records'[t] = records[t]
    BY DEF Changes
<1>5. CASE records'[t] = records[t]
    BY <1>2, <1>3, <1>5
<1>6. CASE records'[t] = records[t] \o seen[t]
  <2>1. Paired(records[t] \o seen[t], renameQueue[t], watcher[t], shaken[t])
      BY <1>1, <1>2, PairedConcat
  <2>2. QED
      BY <1>3, <1>6, <2>1
<1>7. QED
    BY <1>4, <1>5, <1>6

(* Only one target's goroutine or buffer moves.                              *)
LEMMA PairOne ==
    ASSUME TypeInv, PairInv, NEW t \in Targets,
           \A u \in Targets : u # t => /\ records'[u] = records[u] /\ renameQueue'[u] = renameQueue[u]
                                       /\ watcher'[u] = watcher[u] /\ shaken'[u] = shaken[u],
           Paired(records'[t], renameQueue'[t], watcher'[t], shaken'[t])
    PROVE  PairInv'
<1> SUFFICES ASSUME NEW u \in Targets
             PROVE  Paired(records'[u], renameQueue'[u], watcher'[u], shaken'[u])
    BY DEF PairInv
<1>1. CASE u = t
    BY <1>1
<1>2. CASE u # t
  <2>1. Paired(records[u], renameQueue[u], watcher[u], shaken[u])
      BY DEF PairInv
  <2>2. QED
      BY <1>2, <2>1
<1>3. QED
    BY <1>1, <1>2

(* dispatchAction keeps PairInv.                                             *)
LEMMA PairDispatch ==
    ASSUME TypeInv, PairInv, NEW t \in Targets, dispatchAction(t)
    PROVE  PairInv'
<1> DEFINE rs == records[t]
           q  == renameQueue[t]
           s  == shaken[t]
           w  == watcher[t]
<1>1. /\ rs \in Buffer /\ q \in Seq(Waiting) /\ s \in Nat /\ w = "running"
      /\ rs # <<>> /\ Head(rs) # NoBytes /\ Paired(rs, q, w, s)
      /\ records \in [Targets -> Buffer] /\ renameQueue \in [Targets -> Seq(Waiting)]
      /\ shaken \in [Targets -> 0..(renamePairTTL + 1)]
  <2>1. /\ records \in [Targets -> Buffer] /\ renameQueue \in [Targets -> Seq(Waiting)]
        /\ shaken \in [Targets -> 0..(renamePairTTL + 1)]
      BY Zenon DEF TypeInv, IInv, EventsAreTyped, Watchers, Buffer
  <2>2. watcher[t] = "running" /\ records[t] # <<>> /\ Head(records[t]) # NoBytes
      BY Zenon DEF dispatchAction
  <2>3. records[t] \in Buffer /\ renameQueue[t] \in Seq(Waiting) /\ shaken[t] \in 0..(renamePairTTL + 1)
      BY <2>1
  <2>4. shaken[t] \in Nat
      BY <2>3, MonitorAssumption
  <2>5. Paired(records[t], renameQueue[t], watcher[t], shaken[t])
      BY Zenon DEF PairInv
  <2>6. QED
      BY <2>1, <2>2, <2>3, <2>4, <2>5
<1>2. rs[1] = Head(rs) /\ rs[1] \in ChangeRecord
  <2>1. Head(rs) = rs[1] /\ 1 \in 1..Len(rs)
      BY <1>1, BufferFacts
  <2>2. rs[1] \in ChangeRecord \union {NoBytes}
      BY <1>1, <2>1, BufferFacts
  <2>3. QED
      BY <1>1, <2>1, <2>2
<1>3. /\ records' = [records EXCEPT ![t] = Tail(@)] /\ watcher' = watcher
      /\ shaken' = [shaken EXCEPT ![t] = IF @ > 0 /\ Head(records[t]).action = "renamedOld"
                                         THEN renamePairTTL + 1 ELSE @]
    BY DEF dispatchAction
<1>4. \E z : renameQueue' = [renameQueue EXCEPT ![t] = z]
    BY DEF dispatchAction
<1>5. \A u \in Targets : u # t => /\ records'[u] = records[u] /\ renameQueue'[u] = renameQueue[u]
                                  /\ watcher'[u] = watcher[u] /\ shaken'[u] = shaken[u]
    BY <1>1, <1>3, <1>4
<1>6. /\ records'[t] = Tail(rs) /\ watcher'[t] = w
      /\ shaken'[t] = IF s > 0 /\ rs[1].action = "renamedOld" THEN renamePairTTL + 1 ELSE s
    BY <1>1, <1>2, <1>3
<1>7. kept(q) \in Seq(Waiting)
    BY <1>1, KeptElems
<1>8. Paired(records'[t], renameQueue'[t], watcher'[t], shaken'[t])
  <2>1. CASE rs[1].action = "renamedOld"
    <3>1. renameQueue'[t] = Append(kept(q), [path |-> rs[1].path, age |-> 0])
        BY <1>1, <1>2, <2>1 DEF dispatchAction
    <3>2. shaken'[t] = IF s > 0 THEN renamePairTTL + 1 ELSE s
        BY <1>6, <2>1
    <3> HIDE DEF rs, q, s, w
    <3>3. QED
        BY <1>1, <1>2, <1>6, <2>1, <3>1, <3>2, PairedOld
  <2>2. CASE rs[1].action # "renamedOld"
    <3> DEFINE z == renameQueue'[t]
    <3>1. shaken'[t] = s
        BY <1>6, <2>2
    <3>2. \/ z = Tail(kept(q)) /\ kept(q) # <<>> /\ rs[1].action = "renamedNew"
          \/ z = kept(q) /\ (rs[1].action = "renamedNew" => z = <<>>)
      <4>1. CASE rs[1].action = "renamedNew"
        <5>1. renameQueue' = [renameQueue EXCEPT ![t] = IF kept(q) = <<>> THEN kept(q) ELSE Tail(kept(q))]
            BY <1>2, <4>1 DEF dispatchAction
        <5>2. QED
            BY <1>1, <4>1, <5>1
      <4>2. CASE rs[1].action # "renamedNew"
        <5>1. renameQueue' = [renameQueue EXCEPT ![t] = kept(q)]
            BY <1>2, <2>2, <4>2 DEF dispatchAction
        <5>2. QED
            BY <1>1, <4>2, <5>1
      <4>3. QED
          BY <4>1, <4>2
    <3>3. z \in Seq(Waiting)
        BY <1>7, <3>2, HeadTailProperties
    <3> HIDE DEF rs, q, s, w, z
    <3>4. Paired(Tail(rs), z, w, s)
        BY <1>1, <3>2, <3>3, PairedOther
    <3>5. QED
        BY <1>6, <3>1, <3>4 DEF z
  <2>3. QED
      BY <2>1, <2>2
<1>9. QED
    BY <1>5, <1>8, PairOne

(* PairInv holds at first and is kept.                                       *)
LEMMA PairInit == Init => PairInv
<1> SUFFICES ASSUME Init, NEW t \in Targets
             PROVE  Paired(records[t], renameQueue[t], watcher[t], shaken[t])
    BY DEF PairInv
<1>1. records[t] = <<>> /\ renameQueue[t] = <<>>
    BY DEF Init, MonitorInit
<1>2. Len(<<>>) = 0
    BY EmptySeq
<1>3. OldFollowed(<<>>)
    BY <1>2 DEF OldFollowed
<1>4. QED
    BY <1>1, <1>3, PairedEmpty

(* Every step of the monitor keeps PairInv.                                  *)
LEMMA PairMonitor ==
    ASSUME TypeInv, PairInv, MonitorNext
    PROVE  PairInv'
<1> USE MonitorAssumption
<1>1. ASSUME NEW p \in Paths, NEW a \in {"added", "modified", "removed"}, Change(p, a)
      PROVE  PairInv'
  <2> DEFINE seen == [t \in Targets |-> IF p \in Watched[t] THEN <<Rec(a, p, None)>> ELSE <<>>]
  <2>1. Changes(seen, {p})
      BY <1>1 DEF Change
  <2>2. \A t \in Targets : seen[t] \in Buffer /\ OldFollowed(seen[t])
      BY ChangeSeen
  <2>3. seen = [t \in Targets |-> seen[t]]
      OBVIOUS
  <2> HIDE DEF seen
  <2>4. QED
      BY <2>1, <2>2, <2>3, PairChange
<1>2. ASSUME NEW p \in Paths, NEW q \in Paths, Rename(p, q)
      PROVE  PairInv'
  <2> DEFINE x(t) == CASE {p, q} \subseteq Watched[t] -> <<Rec("renamedOld", p, None), Rec("renamedNew", q, p)>>
                      [] p \in Watched[t] /\ q \notin Watched[t] -> <<Rec("removed", p, None)>>
                      [] p \notin Watched[t] /\ q \in Watched[t] -> <<Rec("added", q, None)>>
                      [] OTHER -> <<>>
             seen == [t \in Targets |-> x(t)]
  <2>1. Changes(seen, {p, q})
      BY <1>2 DEF Rename
  <2>2. \A t \in Targets : x(t) \in Buffer /\ OldFollowed(x(t))
      BY RenameSeen
  <2> HIDE DEF x
  <2>3. \A t \in Targets : seen[t] \in Buffer /\ OldFollowed(seen[t])
      BY <2>2
  <2>4. seen = [t \in Targets |-> seen[t]]
      OBVIOUS
  <2> HIDE DEF seen
  <2>5. QED
      BY <2>1, <2>3, <2>4, PairChange
<1>3. /\ records \in [Targets -> Buffer] /\ shaken \in [Targets -> 0..(renamePairTTL + 1)]
      /\ renameQueue \in [Targets -> Seq(Waiting)] /\ watcher \in [Targets -> {"running", "stopped"}]
    BY DEF TypeInv, IInv, EventsAreTyped, Watchers, Buffer
<1>4. ASSUME NEW t \in Targets, overflow(t)
      PROVE  PairInv'
  <2>1. PICK k \in 0..(Len(records[t]) - 1) :
            records' = [records EXCEPT ![t] = Append(SubSeq(records[t], 1, k), NoBytes)]
      BY <1>4 DEF overflow
  <2>2. renameQueue' = renameQueue /\ watcher' = watcher /\ shaken' = shaken
      BY <1>4 DEF overflow
  <2>3. Paired(records[t], renameQueue[t], watcher[t], shaken[t])
      BY DEF PairInv
  <2>4. Paired(Append(SubSeq(records[t], 1, k), NoBytes), renameQueue[t], watcher[t], shaken[t])
      BY <1>3, <2>3, PairedOverflow
  <2>5. /\ records'[t] = Append(SubSeq(records[t], 1, k), NoBytes)
        /\ \A u \in Targets : u # t => records'[u] = records[u]
      BY <1>3, <2>1
  <2>6. QED
      BY <2>2, <2>4, <2>5, PairOne
<1>5. ASSUME NEW t \in Targets, read_nothing(t)
      PROVE  PairInv'
  <2>1. /\ records' = [records EXCEPT ![t] = Tail(@)] /\ records[t] # <<>>
        /\ shaken' = [shaken EXCEPT ![t] = renamePairTTL + 1]
        /\ renameQueue' = renameQueue /\ watcher' = watcher
      BY <1>5 DEF read_nothing
  <2>2. records'[t] = Tail(records[t]) /\ shaken'[t] = renamePairTTL + 1
      BY <1>3, <2>1
  <2>3. \A u \in Targets : u # t => records'[u] = records[u] /\ shaken'[u] = shaken[u]
      BY <1>3, <2>1
  <2>4. OldFollowed(Tail(records[t]))
      BY <1>3, <2>1, FollowedTail DEF PairInv, Paired
  <2>5. \A i \in 1..Len(renameQueue[t]) : renameQueue[t][i] \in Waiting
      BY <1>3, ElementOfSeq
  <2>6. \A i \in 1..Len(renameQueue[t]) : renameQueue[t][i].age + (renamePairTTL + 1) > renamePairTTL
      BY <2>5 DEF Waiting
  <2>7. Paired(Tail(records[t]), renameQueue[t], watcher[t], renamePairTTL + 1)
      BY <2>4, <2>6, PairedShaken
  <2>8. QED
      BY <2>1, <2>2, <2>3, <2>7, PairOne
<1>6. ASSUME NEW t \in Targets, read_fails(t)
      PROVE  PairInv'
  <2>1. renameQueue' = renameQueue /\ shaken' = shaken
      BY <1>6 DEF read_fails
  <2>2. CASE records' = records /\ watcher' = watcher
      BY <2>1, <2>2 DEF PairInv
  <2>3. CASE records' = [records EXCEPT ![t] = <<>>] /\ watcher' = [watcher EXCEPT ![t] = "stopped"]
    <3>1. records'[t] = <<>> /\ watcher'[t] = "stopped"
        BY <1>3, <2>3
    <3>2. \A u \in Targets : u # t => records'[u] = records[u] /\ watcher'[u] = watcher[u]
        BY <1>3, <2>3
    <3>3. Len(<<>>) = 0
        BY EmptySeq
    <3>4. OldFollowed(<<>>)
        BY <3>3 DEF OldFollowed
    <3>5. Paired(<<>>, renameQueue[t], "stopped", shaken[t])
        BY <3>4 DEF PairInv, Paired
    <3>6. QED
        BY <2>1, <3>1, <3>2, <3>5, PairOne
  <2>4. QED
      BY <1>6, <2>2, <2>3 DEF read_fails
<1>7. QED
    BY <1>1, <1>2, <1>4, <1>5, <1>6, PairDispatch DEF MonitorNext

(* Every step keeps PairInv.                                                 *)
LEMMA PairStep == TypeInv /\ PairInv /\ [Next]_vars => PairInv'
<1> SUFFICES ASSUME TypeInv, PairInv, [Next]_vars
             PROVE  PairInv'
    OBVIOUS
<1>1. CASE MonitorNext
    BY <1>1, PairMonitor
<1>2. CASE Tick
  <2> SUFFICES ASSUME NEW t \in Targets
               PROVE  Paired(records'[t], renameQueue'[t], watcher'[t], shaken'[t])
      BY DEF PairInv
  <2>1. /\ renameQueue[t] \in Seq(Waiting) /\ shaken[t] \in Nat
        /\ Paired(records[t], renameQueue[t], watcher[t], shaken[t])
      BY MonitorAssumption DEF TypeInv, IInv, EventsAreTyped, Watchers, PairInv
  <2>2. /\ renameQueue'[t] = [i \in DOMAIN renameQueue[t] |-> [renameQueue[t][i] EXCEPT !.age = Capped(@)]]
        /\ shaken'[t] = IF shaken[t] = 0 THEN 0 ELSE shaken[t] - 1
        /\ records' = records /\ watcher' = watcher
      BY <1>2 DEF Tick, MonitorAges
  <2>3. QED
      BY <2>1, <2>2, PairedTick
<1>3. CASE UNCHANGED <<records, renameQueue, watcher, shaken>>
    BY <1>3 DEF PairInv
<1>4. CASE SetBackupEnabled \/ consume \/ UNCHANGED vars
    BY <1>3, <1>4 DEF SetBackupEnabled, consume, vars, monitorVars, monVars, hisVars
<1>5. CASE \E j \in Jobs : Goroutine(j)
    BY <1>3, <1>5 DEF Goroutine, poll, deadline, backupFile, upload_done, upload_fails, deferred, Set, GivesUp,
       monitorVars, monVars, hisVars
<1>6. QED
    BY <1>1, <1>2, <1>4, <1>5 DEF Next

(* RenamesPairRight: however records are lost and whatever old names they    *)
(* leave in the queue of a watcher, once it is no longer shaken every rename *)
(* event joins the two names of one rename.                                  *)
THEOREM PairsAreRight == Spec => []RenamesPairRight
<1>1. TypeInv /\ PairInv => RenamesPairRight
  <2> SUFFICES ASSUME TypeInv, PairInv, NEW t \in Targets, records[t] # <<>>,
                      Head(records[t]).action = "renamedNew", shaken[t] = 0, kept(renameQueue[t]) # <<>>
               PROVE  Head(kept(renameQueue[t])).path = Head(records[t]).from
      BY DEF RenamesPairRight
  <2>1. watcher[t] = "running"
      BY DEF TypeInv, Watchers
  <2>2. /\ records[t] \in Buffer /\ renameQueue[t] \in Seq(Waiting)
        /\ Paired(records[t], renameQueue[t], watcher[t], shaken[t])
      BY DEF TypeInv, IInv, EventsAreTyped, PairInv, Buffer
  <2>3. Head(records[t]) = records[t][1]
      BY <2>2, BufferFacts
  <2>4. records[t][1] # NoBytes
      BY <2>3 DEF NoBytes, Rec
  <2>5. PICK x \in Waiting : kept(renameQueue[t]) = <<x>> /\ x.path = records[t][1].from
      BY <2>1, <2>2, <2>4, KeptRight
  <2>6. Head(<<x>>) = x
      OBVIOUS
  <2>7. QED
      BY <2>3, <2>5, <2>6
<1>2. QED
    BY <1>1, TypeInit, TypeStep, PairInit, PairStep, PTL DEF Spec

-----------------------------------------------------------------------------
(* NothingForgotten.                                                         *)

\* The record says that there is a p now.
Here(r, p) == r.path = p /\ r.action \in {"added", "modified", "renamedNew"}

\* A record, or an event, still says that p has changed.
InBuffer(p)  == \E t \in Targets : \E i \in 1..Len(records[t]) : Here(records[t][i], p)
InChannel(p) == \E i \in 1..Len(out) : out[i].path = p /\ out[i].action \in Scheduled

\* A goroutine has p's file to read yet, or has read it as it is.
Going(p) ==
    \E j \in Jobs : /\ job[j].path = p
                    /\ \/ job[j].stage \in {"settle", "ready"}
                       \/ job[j].stage = "upload" /\ job[j].read = disk[p]

\* The last backup of p is right, and no upload will replace it.
Settled(p) == backup[p] = disk[p] /\ \A j \in Jobs : job[j].path = p => job[j].stage # "upload"

\* An existing file whose change was not given up is in hand.
NothingForgotten ==
    \A p \in Monitored \ missed :
        disk[p] > Absent => InBuffer(p) \/ InChannel(p) \/ Going(p) \/ Settled(p)

-----------------------------------------------------------------------------
(* A step of the monitor: whatever it takes from the buffers it puts into    *)
(* the channel or gives up.                                                  *)
LEMMA InHand ==
    ASSUME TypeInv, NothingForgotten, UNCHANGED <<job, backup>>,
           \A p \in Monitored \ missed' : disk'[p] > Absent =>
               \/ InBuffer(p)' \/ InChannel(p)'
               \/ /\ p \notin missed /\ disk'[p] = disk[p]
                  /\ InBuffer(p) \/ InChannel(p) => InBuffer(p)' \/ InChannel(p)'
    PROVE  NothingForgotten'
<1> SUFFICES ASSUME NEW p \in Monitored, p \notin missed', disk'[p] > Absent
             PROVE  InBuffer(p)' \/ InChannel(p)' \/ Going(p)' \/ Settled(p)'
    BY Zenon DEF NothingForgotten
<1>1. CASE InBuffer(p)' \/ InChannel(p)'
    BY <1>1
<1>2. CASE /\ p \notin missed /\ disk'[p] = disk[p]
           /\ InBuffer(p) \/ InChannel(p) => InBuffer(p)' \/ InChannel(p)'
  <2>1. InBuffer(p) \/ InChannel(p) \/ Going(p) \/ Settled(p)
      BY <1>2 DEF NothingForgotten
  <2>2. Going(p) => Going(p)'
      BY <1>2 DEF Going
  <2>3. Settled(p) => Settled(p)'
      BY <1>2 DEF Settled
  <2>4. QED
      BY <1>2, <2>1, <2>2, <2>3
<1>3. QED
    BY <1>1, <1>2

(* Buffers that only grow.                                                   *)
LEMMA BuffersGrow ==
    ASSUME TypeInv, NEW seen, \A t \in Targets : seen[t] \in Buffer,
           \A t \in Targets : records'[t] = records[t] \o seen[t] \/ records'[t] = records[t],
           NEW p, InBuffer(p)
    PROVE  InBuffer(p)'
<1>0. PICK t \in Targets : \E i \in 1..Len(records[t]) : Here(records[t][i], p)
    BY DEF InBuffer
<1>1. PICK i \in 1..Len(records[t]) : Here(records[t][i], p)
    BY <1>0
<1>2. records[t] \in Buffer /\ seen[t] \in Buffer
    BY DEF TypeInv, IInv, EventsAreTyped, Buffer
<1>3. i \in 1..Len(records'[t]) /\ records'[t][i] = records[t][i]
  <2>1. CASE records'[t] = records[t]
      BY <2>1
  <2>2. CASE records'[t] = records[t] \o seen[t]
    <3>1. i \in 1..Len(records[t] \o seen[t]) /\ (records[t] \o seen[t])[i] = records[t][i]
        BY <1>2, ConcatFacts
    <3>2. QED
        BY <2>2, <3>1
  <2>3. QED
      BY <2>1, <2>2
<1>4. Here(records'[t][i], p)
    BY <1>1, <1>3
<1>5. QED
    BY <1>3, <1>4 DEF InBuffer

(* A record that a change has added.                                         *)
LEMMA RecordAdded ==
    ASSUME TypeInv, NEW t \in Targets, NEW x \in Buffer, records'[t] = records[t] \o x,
           NEW i \in 1..Len(x), NEW p, Here(x[i], p)
    PROVE  InBuffer(p)'
<1>1. records[t] \in Buffer
    BY DEF TypeInv, IInv, EventsAreTyped, Buffer
<1>2. Len(records[t] \o x) = Len(records[t]) + Len(x) /\ (records[t] \o x)[i + Len(records[t])] = x[i]
    BY <1>1, ConcatFacts
<1>3. Len(records[t]) \in Nat /\ Len(x) \in Nat
    BY <1>1, BufferFacts
<1>4. i + Len(records[t]) \in 1..Len(records'[t])
    BY <1>2, <1>3
<1>5. Here(records'[t][i + Len(records[t])], p)
    BY <1>2
<1>6. QED
    BY <1>4, <1>5 DEF InBuffer

(* Creating, writing or removing a file.                                     *)
LEMMA ForgetChange ==
    ASSUME TypeInv, NothingForgotten, UNCHANGED schedVars,
           NEW p \in Paths, NEW a \in {"added", "modified", "removed"}, Change(p, a)
    PROVE  NothingForgotten'
<1> DEFINE x(t) == IF p \in Watched[t] THEN <<Rec(a, p, None)>> ELSE <<>>
           seen == [t \in Targets |-> x(t)]
<1>1. /\ records' = [t \in Targets |-> IF watcher[t] = "running" THEN records[t] \o seen[t] ELSE records[t]]
      /\ missed' = (missed \union {q \in {p} \intersect Monitored :
                          \A t \in Targets : q \in Watched[t] => watcher[t] = "stopped"})
                   \union {q \in Paths \ {p} : disk'[q] # disk[q]}
      /\ out' = out
    BY DEF Change, Changes
<1>2. \A t \in Targets : x(t) \in Buffer
    BY ChangeSeen
<1> HIDE DEF x
<1>3. \A t \in Targets : seen[t] \in Buffer /\ seen[t] = x(t)
    BY <1>2
<1> HIDE DEF seen
<1>4. \A t \in Targets : records'[t] = records[t] \o seen[t] \/ records'[t] = records[t]
    BY <1>1
<1>5. ASSUME NEW q \in Monitored, q \notin missed', disk'[q] > Absent
      PROVE  \/ InBuffer(q)'
             \/ /\ q \notin missed /\ disk'[q] = disk[q]
                /\ InBuffer(q) \/ InChannel(q) => InBuffer(q)' \/ InChannel(q)'
  <2>1. q \in Paths
      BY MonitorAssumption DEF Monitored
  <2>2. CASE q = p
    <3>1. PICK t \in Targets : p \in Watched[t] /\ watcher[t] # "stopped"
        BY <1>1, <1>5, <2>2
    <3>2. watcher[t] = "running"
        BY <3>1 DEF TypeInv, Watchers
    <3>3. records'[t] = records[t] \o <<Rec(a, p, None)>>
        BY <1>1, <1>3, <3>1, <3>2 DEF x
    <3>4. a # "removed"
      <4>1. a = "removed" => disk'[p] = Absent
          BY DEF Change, TypeInv, IInv, EventsAreTyped
      <4>2. QED
          BY <1>5, <2>2, <4>1 DEF Absent
    <3>5. Here(Rec(a, p, None), p)
        BY <3>4 DEF Here, Rec
    <3>6. <<Rec(a, p, None)>> \in Buffer
        BY <1>2, <3>1 DEF x
    <3>7. 1 \in 1..Len(<<Rec(a, p, None)>>) /\ <<Rec(a, p, None)>>[1] = Rec(a, p, None)
        OBVIOUS
    <3>8. Here(<<Rec(a, p, None)>>[1], p)
        BY <3>5, <3>7
    <3>9. InBuffer(p)'
        BY <3>3, <3>6, <3>7, <3>8, RecordAdded
    <3>10. QED
        BY <2>2, <3>9
  <2>3. CASE q # p
    <3>1. disk'[q] = disk[q]
        BY <2>1, <2>3 DEF Change, TypeInv, IInv, EventsAreTyped
    <3>2. q \notin missed
        BY <1>1, <1>5
    <3>3. InBuffer(q) => InBuffer(q)'
        BY <1>3, <1>4, BuffersGrow
    <3>4. InChannel(q) => InChannel(q)'
        BY <1>1 DEF InChannel
    <3>5. QED
        BY <3>1, <3>2, <3>3, <3>4
  <2>4. QED
      BY <2>2, <2>3
<1>6. UNCHANGED <<job, backup>>
    BY DEF schedVars
<1>7. QED
    BY <1>5, <1>6, InHand

(* Its old name is gone and its new one exists.                              *)
LEMMA RenameDisk ==
    ASSUME NEW p \in Paths, NEW n \in Paths, Rename(p, n)
    PROVE  disk'[p] = Absent /\ disk'[n] = disk[p] /\ disk'[n] # Absent
<1>1. PICK arrived \in [Below[n] -> {Absent, Directory, ops + 1}] :
          disk' = [r \in Paths |-> IF r = n THEN disk[p]
                                   ELSE IF r \in {p} \union Below[p] THEN Absent
                                   ELSE IF r \in Below[n] THEN arrived[r] ELSE disk[r]]
    BY DEF Rename
<1>2. p # n /\ disk[p] # Absent
    BY DEF Rename
<1>3. QED
    BY <1>1, <1>2

(* Renaming or moving a file or a directory.                                 *)
LEMMA ForgetRename ==
    ASSUME TypeInv, NothingForgotten, UNCHANGED schedVars,
           NEW p \in Paths, NEW n \in Paths, Rename(p, n)
    PROVE  NothingForgotten'
<1> DEFINE x(t) == CASE {p, n} \subseteq Watched[t] -> <<Rec("renamedOld", p, None), Rec("renamedNew", n, p)>>
                     [] p \in Watched[t] /\ n \notin Watched[t] -> <<Rec("removed", p, None)>>
                     [] p \notin Watched[t] /\ n \in Watched[t] -> <<Rec("added", n, None)>>
                     [] OTHER -> <<>>
           seen == [t \in Targets |-> x(t)]
<1>1. /\ records' = [t \in Targets |-> IF watcher[t] = "running" THEN records[t] \o seen[t] ELSE records[t]]
      /\ missed' = (missed \union {q \in {p, n} \intersect Monitored :
                          \A t \in Targets : q \in Watched[t] => watcher[t] = "stopped"})
                   \union {q \in Paths \ {p, n} : disk'[q] # disk[q]}
      /\ out' = out
    BY DEF Rename, Changes
<1>2. \A t \in Targets : x(t) \in Buffer
    BY RenameSeen
<1>3. ASSUME NEW t \in Targets, n \in Watched[t]
      PROVE  \E i \in 1..Len(x(t)) : Here(x(t)[i], n)
  <2>1. CASE p \in Watched[t]
    <3>1. x(t) = <<Rec("renamedOld", p, None), Rec("renamedNew", n, p)>>
        BY <1>3, <2>1
    <3>2. Here(Rec("renamedNew", n, p), n)
        BY DEF Here, Rec
    <3> HIDE DEF x
    <3>3. 2 \in 1..Len(x(t)) /\ x(t)[2] = Rec("renamedNew", n, p)
        BY <3>1
    <3>4. QED
        BY <3>2, <3>3
  <2>2. CASE p \notin Watched[t]
    <3>1. x(t) = <<Rec("added", n, None)>>
        BY <1>3, <2>2
    <3>2. Here(Rec("added", n, None), n)
        BY DEF Here, Rec
    <3> HIDE DEF x
    <3>3. 1 \in 1..Len(x(t)) /\ x(t)[1] = Rec("added", n, None)
        BY <3>1
    <3>4. QED
        BY <3>2, <3>3
  <2>3. QED
      BY <2>1, <2>2
<1> HIDE DEF x
<1>4. \A t \in Targets : seen[t] \in Buffer /\ seen[t] = x(t)
    BY <1>2
<1> HIDE DEF seen
<1>5. \A t \in Targets : records'[t] = records[t] \o seen[t] \/ records'[t] = records[t]
    BY <1>1
<1>6. disk'[p] = Absent
    BY RenameDisk
<1>7. ASSUME NEW q \in Monitored, q \notin missed', disk'[q] > Absent
      PROVE  \/ InBuffer(q)'
             \/ /\ q \notin missed /\ disk'[q] = disk[q]
                /\ InBuffer(q) \/ InChannel(q) => InBuffer(q)' \/ InChannel(q)'
  <2>1. q \in Paths
      BY MonitorAssumption DEF Monitored
  <2>2. CASE q = n
    <3>1. PICK t \in Targets : n \in Watched[t] /\ watcher[t] # "stopped"
        BY <1>1, <1>7, <2>2
    <3>2. watcher[t] = "running"
        BY <3>1 DEF TypeInv, Watchers
    <3>3. records'[t] = records[t] \o x(t) /\ x(t) \in Buffer
        BY <1>1, <1>2, <1>4, <3>2
    <3>4. PICK i \in 1..Len(x(t)) : Here(x(t)[i], n)
        BY <1>3, <3>1
    <3>5. InBuffer(n)'
        BY <3>3, <3>4, RecordAdded
    <3>6. QED
        BY <2>2, <3>5
  <2>3. CASE q # n
    <3>1. q # p
      <4>1. disk'[p] = Absent
          BY <1>6
      <4>2. QED
          BY <1>7, <4>1 DEF Absent
    <3>2. disk'[q] = disk[q]
        BY <1>1, <1>7, <2>1, <2>3, <3>1
    <3>3. q \notin missed
        BY <1>1, <1>7
    <3>4. InBuffer(q) => InBuffer(q)'
        BY <1>4, <1>5, BuffersGrow
    <3>5. InChannel(q) => InChannel(q)'
        BY <1>1 DEF InChannel
    <3>6. QED
        BY <3>2, <3>3, <3>4, <3>5
  <2>4. QED
      BY <2>2, <2>3
<1>8. UNCHANGED <<job, backup>>
    BY DEF schedVars
<1>9. QED
    BY <1>7, <1>8, InHand

(* The kernel loses records.                                                 *)
LEMMA ForgetOverflow ==
    ASSUME TypeInv, NothingForgotten, UNCHANGED schedVars, NEW t \in Targets, overflow(t)
    PROVE  NothingForgotten'
<1> DEFINE rs == records[t]
<1>1. /\ disk' = disk /\ out' = out
      /\ UNCHANGED <<job, backup>>
    BY DEF overflow, schedVars
<1>2. PICK k \in 0..(Len(rs) - 1) :
          /\ records' = [records EXCEPT ![t] = Append(SubSeq(rs, 1, k), NoBytes)]
          /\ missed' = missed \union PathsOf(SubSeq(rs, k + 1, Len(rs)))
    BY DEF overflow
<1>3. records \in [Targets -> Buffer]
    BY DEF TypeInv, IInv, EventsAreTyped, Buffer
<1>4. /\ records'[t] = Append(SubSeq(rs, 1, k), NoBytes)
      /\ \A u \in Targets : u # t => records'[u] = records[u]
    BY <1>2, <1>3
<1>5. Len(records'[t]) = k + 1 /\ \A i \in 1..k : records'[t][i] = rs[i]
    BY <1>3, <1>4, OverflowFacts
<1>6. ASSUME NEW i \in (k + 1)..Len(rs), rs[i].path \in Paths
      PROVE  rs[i].path \in missed'
  <2> DEFINE d == SubSeq(rs, k + 1, Len(rs))
             R == ChangeRecord \union {NoBytes}
  <2>1. Len(rs) \in Nat /\ \A m \in 1..Len(rs) : rs[m] \in R
      BY <1>3, BufferFacts
  <2> HIDE DEF R, rs
  <2>2. k \in Nat /\ \A m \in (k + 1)..Len(rs) : rs[m] \in R
      BY <2>1
  <2>3. /\ Len(d) = IF k + 1 <= Len(rs) THEN Len(rs) - (k + 1) + 1 ELSE 0
        /\ \A m \in 1..(Len(rs) - (k + 1) + 1) : d[m] = rs[(k + 1) + m - 1]
        /\ d \in Seq(R)
      BY <2>1, <2>2, SubSeqProperties
  <2>4. DOMAIN d = 1..Len(d)
      BY <2>3, LenProperties
  <2> HIDE DEF d
  <2>5. i - k \in 1..Len(d) /\ i - k \in 1..(Len(rs) - (k + 1) + 1) /\ (k + 1) + (i - k) - 1 = i
      BY <2>1, <2>2, <2>3
  <2>6. d[i - k] = rs[i]
      BY <2>3, <2>5
  <2>7. rs[i].path # None
      BY <1>6, MonitorAssumption
  <2>8. rs[i].path \in PathsOf(d)
      BY <2>4, <2>5, <2>6, <2>7 DEF PathsOf
  <2>9. QED
      BY <1>2, <2>8 DEF d, rs
<1>7. ASSUME NEW p \in Monitored, p \notin missed'
      PROVE  /\ p \notin missed /\ disk'[p] = disk[p]
             /\ InBuffer(p) \/ InChannel(p) => InBuffer(p)' \/ InChannel(p)'
  <2>1. p \in Paths
      BY MonitorAssumption DEF Monitored
  <2>2. InChannel(p) => InChannel(p)'
      BY <1>1 DEF InChannel
  <2>3. ASSUME InBuffer(p)
        PROVE  InBuffer(p)'
    <3>1. PICK u \in Targets : \E i \in 1..Len(records[u]) : Here(records[u][i], p)
        BY <2>3 DEF InBuffer
    <3>2. PICK i \in 1..Len(records[u]) : Here(records[u][i], p)
        BY <3>1
    <3>3. CASE u # t
      <4>1. records'[u] = records[u]
          BY <1>4, <3>3
      <4>2. QED
          BY <3>2, <4>1 DEF InBuffer
    <3>4. CASE u = t
      <4>1. Len(rs) \in Nat
          BY <1>3, BufferFacts
      <4>2. i \notin (k + 1)..Len(rs)
          BY <1>6, <1>7, <2>1, <3>2, <3>4 DEF Here
      <4>3. i \in 1..k
          BY <3>4, <4>1, <4>2
      <4>4. i \in 1..Len(records'[t]) /\ records'[t][i] = rs[i]
          BY <1>5, <4>3
      <4>5. Here(records'[t][i], p)
          BY <3>2, <3>4, <4>4
      <4>6. QED
          BY <4>4, <4>5 DEF InBuffer
    <3>5. QED
        BY <3>3, <3>4
  <2>4. p \notin missed
      BY <1>2, <1>7
  <2>5. QED
      BY <1>1, <2>2, <2>3, <2>4
<1>8. QED
    BY <1>1, <1>7, InHand

(* What emitEvent does with the events in the channel and its own.           *)
LEMMA EmitKeeps ==
    ASSUME NEW evts \in Seq(Event), out \in Seq(Event), emitEvent(evts), NEW p, p \notin missed'
    PROVE  /\ p \notin missed
           /\ InChannel(p) => InChannel(p)'
           /\ (\E i \in 1..Len(evts) : evts[i].path = p /\ evts[i].action \in Scheduled) => InChannel(p)'
<1> USE MonitorAssumption
<1> DEFINE all == out \o evts
           n   == Fits(all)
<1>1. /\ all \in Seq(Event) /\ Len(all) = Len(out) + Len(evts)
      /\ \A i \in 1 .. Len(out) + Len(evts) : all[i] = IF i <= Len(out) THEN out[i] ELSE evts[i - Len(out)]
    BY ConcatProperties
<1>2. Len(out) \in Nat /\ Len(evts) \in Nat /\ Len(all) \in Nat
    BY <1>1, LenProperties
<1>3. n \in Nat /\ n <= Len(all)
    BY <1>2 DEF Fits, Smaller
<1>4. out' = SubSeq(all, 1, n) /\ missed' = missed \union {all[i].path : i \in (n + 1)..Len(all)}
    BY DEF emitEvent
<1>5. \A i \in 1..Len(all) : all[i] \in Event
    BY <1>1, ElementOfSeq
<1> HIDE DEF all, n
<1>6. Len(out') = n /\ \A i \in 1..n : out'[i] = all[i]
  <2>1. \A i \in 1..n : all[i] \in Event
      BY <1>2, <1>3, <1>5
  <2>2. /\ Len(SubSeq(all, 1, n)) = IF 1 <= n THEN n - 1 + 1 ELSE 0
        /\ \A i \in 1..(n - 1 + 1) : SubSeq(all, 1, n)[i] = all[1 + i - 1]
      BY <1>3, <2>1, SubSeqProperties
  <2>3. \A i \in 1..n : i \in 1..(n - 1 + 1) /\ 1 + i - 1 = i
      BY <1>3
  <2>4. Len(SubSeq(all, 1, n)) = n
      BY <1>3, <2>2
  <2>5. \A i \in 1..n : SubSeq(all, 1, n)[i] = all[i]
      BY <2>2, <2>3
  <2>6. QED
      BY <1>4, <2>4, <2>5
<1>7. ASSUME NEW i \in 1..Len(all), all[i].path = p, all[i].action \in Scheduled
      PROVE  InChannel(p)'
  <2>1. i \notin (n + 1)..Len(all)
      BY <1>4, <1>7
  <2>2. i \in 1..n
      BY <1>2, <1>3, <2>1
  <2>3. i \in 1..Len(out') /\ out'[i] = all[i]
      BY <1>6, <2>2
  <2>4. Scheduled' = Scheduled
      BY DEF Scheduled
  <2>5. QED
      BY <1>7, <2>3, <2>4 DEF InChannel
<1>8. InChannel(p) => InChannel(p)'
  <2> SUFFICES ASSUME NEW i \in 1..Len(out), out[i].path = p, out[i].action \in Scheduled
               PROVE  InChannel(p)'
      BY DEF InChannel
  <2>1. i \in 1..Len(all) /\ all[i] = out[i]
      BY <1>1, <1>2
  <2>2. QED
      BY <1>7, <2>1
<1>9. ASSUME NEW i \in 1..Len(evts), evts[i].path = p, evts[i].action \in Scheduled
      PROVE  InChannel(p)'
  <2>1. i + Len(out) \in 1..Len(all) /\ ~(i + Len(out) <= Len(out)) /\ (i + Len(out)) - Len(out) = i
      BY <1>1, <1>2
  <2>2. all[i + Len(out)] = evts[i]
      BY <1>1, <2>1
  <2>3. QED
      BY <1>7, <1>9, <2>1, <2>2
<1>10. p \notin missed
    BY <1>4
<1>11. QED
    BY <1>8, <1>9, <1>10

(* The event that dispatchAction makes of a record that says p is here.      *)
LEMMA EmitsHere ==
    ASSUME TypeInv, NEW t \in Targets, dispatchAction(t)
    PROVE  \E evts \in Seq(Event) :
               /\ emitEvent(evts)
               /\ \A p \in Paths : Here(records[t][1], p) =>
                      \E i \in 1..Len(evts) : evts[i].path = p /\ evts[i].action \in Scheduled
<1> DEFINE r == Head(records[t])
           q == kept(renameQueue[t])
           f == flushed(renameQueue[t])
<1>1. records[t] # <<>> /\ r # NoBytes /\ records[t] \in Buffer /\ renameQueue[t] \in Seq(Waiting)
    BY DEF dispatchAction, TypeInv, IInv, EventsAreTyped, Buffer
<1>2. records[t][1] = r /\ r \in ChangeRecord
  <2>1. Head(records[t]) = records[t][1] /\ 1 \in 1..Len(records[t])
      BY <1>1, BufferFacts
  <2>2. records[t][1] \in ChangeRecord \union {NoBytes}
      BY <1>1, <2>1, BufferFacts
  <2>3. QED
      BY <1>1, <2>1, <2>2
<1>3. f \in Seq(Event) /\ q \in Seq(Waiting)
    BY <1>1, FlushTyped
<1> HIDE DEF f, q
<1>4. q # <<>> => Head(q) \in Waiting
    BY <1>3, HeadTailProperties
<1>5. RenameEvent(r, q) \in Event /\ RenameEvent(r, q).path = r.path /\ RenameEvent(r, q).action \in Scheduled
    BY <1>2, <1>4 DEF RenameEvent, Evt, Event, Actions, ChangeRecord, Waiting, Scheduled
<1>6. r.action \notin {"renamedOld", "renamedNew"} =>
          /\ PlainEvent(r) \in Event /\ PlainEvent(r).path = r.path
          /\ r.action # "removed" => PlainEvent(r).action \in Scheduled
    BY <1>2 DEF PlainEvent, Evt, Event, Actions, ChangeRecord, Scheduled
<1>7. ASSUME NEW e \in Event
      PROVE  Append(f, e) \in Seq(Event) /\ Len(f) + 1 \in 1..Len(Append(f, e)) /\ Append(f, e)[Len(f) + 1] = e
  <2>1. Len(f) \in Nat
      BY <1>3, LenProperties
  <2>2. Append(f, e) \in Seq(Event) /\ Len(Append(f, e)) = Len(f) + 1 /\ Append(f, e)[Len(f) + 1] = e
      BY <1>3, AppendProperties
  <2>3. QED
      BY <2>1, <2>2
<1>8. CASE r.action = "renamedOld"
  <2>1. emitEvent(f)
      BY <1>8 DEF dispatchAction, f, q
  <2>2. \A p \in Paths : ~Here(records[t][1], p)
      BY <1>2, <1>8 DEF Here
  <2>3. QED
      BY <1>3, <2>1, <2>2
<1>9. CASE r.action = "renamedNew"
  <2>1. emitEvent(Append(f, RenameEvent(r, q)))
      BY <1>9 DEF dispatchAction, f, q
  <2> DEFINE e == RenameEvent(r, q)
  <2>2. e \in Event /\ e.path = r.path /\ e.action \in Scheduled
      BY <1>5
  <2> HIDE DEF e
  <2>3. /\ Append(f, e) \in Seq(Event) /\ Len(f) + 1 \in 1..Len(Append(f, e)) /\ Append(f, e)[Len(f) + 1] = e
      BY <1>7, <2>2
  <2>4. \A p \in Paths : Here(records[t][1], p) => r.path = p
      BY <1>2 DEF Here
  <2>5. \A p \in Paths : Here(records[t][1], p) =>
            \E i \in 1..Len(Append(f, e)) : Append(f, e)[i].path = p /\ Append(f, e)[i].action \in Scheduled
      BY <2>2, <2>3, <2>4
  <2>6. QED
      BY <2>1, <2>3, <2>5 DEF e
<1>10. CASE r.action \notin {"renamedOld", "renamedNew"}
  <2>1. emitEvent(Append(f, PlainEvent(r)))
      BY <1>10 DEF dispatchAction, f, q
  <2> DEFINE e == PlainEvent(r)
  <2>2. e \in Event /\ e.path = r.path /\ (r.action # "removed" => e.action \in Scheduled)
      BY <1>6, <1>10
  <2> HIDE DEF e
  <2>3. /\ Append(f, e) \in Seq(Event) /\ Len(f) + 1 \in 1..Len(Append(f, e)) /\ Append(f, e)[Len(f) + 1] = e
      BY <1>7, <2>2
  <2>4. \A p \in Paths : Here(records[t][1], p) => r.path = p /\ r.action # "removed"
      BY <1>2 DEF Here
  <2>5. \A p \in Paths : Here(records[t][1], p) =>
            \E i \in 1..Len(Append(f, e)) : Append(f, e)[i].path = p /\ Append(f, e)[i].action \in Scheduled
      BY <2>2, <2>3, <2>4
  <2>6. QED
      BY <2>1, <2>3, <2>5 DEF e
<1>11. QED
    BY <1>8, <1>9, <1>10

(* A watcher takes its next record.                                          *)
LEMMA TakesRecord ==
    ASSUME TypeInv, NEW t \in Targets, records[t] # <<>>, records' = [records EXCEPT ![t] = Tail(@)],
           NEW p, InBuffer(p), ~Here(records[t][1], p)
    PROVE  InBuffer(p)'
<1>1. records \in [Targets -> Buffer]
    BY DEF TypeInv, IInv, EventsAreTyped, Buffer
<1>2. records'[t] = Tail(records[t]) /\ \A u \in Targets : u # t => records'[u] = records[u]
    BY <1>1
<1>3. PICK u \in Targets : \E i \in 1..Len(records[u]) : Here(records[u][i], p)
    BY DEF InBuffer
<1>4. PICK i \in 1..Len(records[u]) : Here(records[u][i], p)
    BY <1>3
<1>5. CASE u # t
  <2>1. records'[u] = records[u]
      BY <1>2, <1>5
  <2>2. QED
      BY <1>4, <2>1 DEF InBuffer
<1>6. CASE u = t
  <2>1. /\ Len(records[t]) \in Nat /\ Len(Tail(records[t])) = Len(records[t]) - 1
        /\ \A k \in 1..(Len(records[t]) - 1) : Tail(records[t])[k] = records[t][k + 1]
      BY <1>1, BufferFacts
  <2>2. i # 1
      BY <1>4, <1>6
  <2>3. i - 1 \in 1..(Len(records[t]) - 1) /\ (i - 1) + 1 = i
      BY <1>4, <1>6, <2>1, <2>2
  <2>4. records'[t][i - 1] = records[t][i] /\ i - 1 \in 1..Len(records'[t])
      BY <1>2, <2>1, <2>3
  <2>5. Here(records'[t][i - 1], p)
      BY <1>4, <1>6, <2>4
  <2>6. QED
      BY <2>4, <2>5 DEF InBuffer
<1>7. QED
    BY <1>5, <1>6

(* dispatchAction keeps NothingForgotten: what it takes from the buffer goes *)
(* into the channel, or is missed.                                           *)
LEMMA ForgetDispatch ==
    ASSUME TypeInv, NothingForgotten, UNCHANGED schedVars, NEW t \in Targets, dispatchAction(t)
    PROVE  NothingForgotten'
<1>1. disk' = disk /\ records' = [records EXCEPT ![t] = Tail(@)] /\ records[t] # <<>>
    BY DEF dispatchAction
<1>2. PICK evts \in Seq(Event) :
          /\ emitEvent(evts)
          /\ \A p \in Paths : Here(records[t][1], p) =>
                 \E i \in 1..Len(evts) : evts[i].path = p /\ evts[i].action \in Scheduled
    BY EmitsHere
<1>3. out \in Seq(Event)
    BY DEF TypeInv, IInv, EventsAreTyped
<1>4. ASSUME NEW p \in Monitored, p \notin missed'
      PROVE  /\ p \notin missed /\ disk'[p] = disk[p]
             /\ InBuffer(p) \/ InChannel(p) => InBuffer(p)' \/ InChannel(p)'
  <2>1. p \in Paths
      BY MonitorAssumption DEF Monitored
  <2>2. /\ p \notin missed
        /\ InChannel(p) => InChannel(p)'
        /\ (\E i \in 1..Len(evts) : evts[i].path = p /\ evts[i].action \in Scheduled) => InChannel(p)'
      BY <1>2, <1>3, <1>4, EmitKeeps
  <2>3. CASE Here(records[t][1], p)
      BY <1>1, <1>2, <2>1, <2>2, <2>3
  <2>4. CASE ~Here(records[t][1], p)
    <3>1. InBuffer(p) => InBuffer(p)'
        BY <1>1, <2>4, TakesRecord
    <3>2. QED
        BY <1>1, <2>2, <3>1
  <2>5. QED
      BY <2>3, <2>4
<1>5. UNCHANGED <<job, backup>>
    BY DEF schedVars
<1>6. QED
    BY <1>4, <1>5, InHand

(* A read that returns nothing, and one that fails.                          *)
LEMMA ForgetRead ==
    ASSUME TypeInv, NothingForgotten, UNCHANGED schedVars, NEW t \in Targets,
           read_nothing(t) \/ read_fails(t)
    PROVE  NothingForgotten'
<1>1. disk' = disk /\ out' = out
    BY DEF read_nothing, read_fails, envVars
<1>2. UNCHANGED <<job, backup>>
    BY DEF schedVars
<1>3. records \in [Targets -> Buffer]
    BY DEF TypeInv, IInv, EventsAreTyped, Buffer
<1>4. ASSUME NEW p \in Monitored, p \notin missed'
      PROVE  /\ p \notin missed /\ disk'[p] = disk[p]
             /\ InBuffer(p) \/ InChannel(p) => InBuffer(p)' \/ InChannel(p)'
  <2>1. p \in Paths
      BY MonitorAssumption DEF Monitored
  <2>2. InChannel(p) => InChannel(p)'
      BY <1>1 DEF InChannel
  <2>3. p \notin missed
      BY <1>4 DEF read_nothing, read_fails
  <2>4. InBuffer(p) => InBuffer(p)'
    <3>1. CASE records' = records
        BY <3>1 DEF InBuffer
    <3>2. CASE read_nothing(t)
      <4>1. /\ records[t] # <<>> /\ Head(records[t]) = NoBytes
            /\ records' = [records EXCEPT ![t] = Tail(@)]
          BY <3>2 DEF read_nothing
      <4>2. records[t][1] = NoBytes
          BY <1>3, <4>1, BufferFacts
      <4>3. ~Here(records[t][1], p)
          BY <2>1, <4>2, MonitorAssumption DEF Here, NoBytes, Rec
      <4>4. QED
          BY <4>1, <4>3, TakesRecord
    <3>3. CASE records' = [records EXCEPT ![t] = <<>>] /\ missed' = missed \union PathsOf(records[t])
      <4> SUFFICES ASSUME InBuffer(p)
                   PROVE  InBuffer(p)'
          OBVIOUS
      <4>1. PICK u \in Targets : \E i \in 1..Len(records[u]) : Here(records[u][i], p)
          BY DEF InBuffer
      <4>2. PICK i \in 1..Len(records[u]) : Here(records[u][i], p)
          BY <4>1
      <4>3. u # t
        <5>1. DOMAIN records[u] = 1..Len(records[u])
            BY <1>3, BufferFacts
        <5>2. p \in PathsOf(records[u])
            BY <2>1, <4>2, <5>1, MonitorAssumption DEF PathsOf, Here
        <5>3. QED
            BY <1>4, <3>3, <5>2
      <4>4. records'[u] = records[u]
          BY <1>3, <3>3, <4>3
      <4>5. QED
          BY <4>2, <4>4 DEF InBuffer
    <3>4. QED
        BY <3>1, <3>2, <3>3 DEF read_fails
  <2>5. QED
      BY <1>1, <2>2, <2>3, <2>4
<1>5. QED
    BY <1>2, <1>4, InHand

-----------------------------------------------------------------------------
(* The consumer: the event it takes becomes a goroutine, or is given up.     *)
LEMMA ForgetConsume ==
    ASSUME TypeInv, NothingForgotten, consume
    PROVE  NothingForgotten'
<1> DEFINE e == Head(out)
<1>1. /\ out \in Seq(Event) /\ out # <<>> /\ out' = Tail(out)
      /\ disk' = disk /\ records' = records /\ backup' = backup
    BY DEF consume, TypeInv, IInv, EventsAreTyped, envVars
<1>2. /\ Len(out) \in Nat /\ Len(Tail(out)) = Len(out) - 1
      /\ \A i \in 1..Len(Tail(out)) : Tail(out)[i] = out[i + 1]
      /\ e = out[1]
    BY <1>1, HeadTailProperties, LenProperties
<1> HIDE DEF e
<1>3. ASSUME NEW p
      PROVE  InChannel(p) => InChannel(p)' \/ (e.path = p /\ e.action \in Scheduled)
  <2> SUFFICES ASSUME NEW i \in 1..Len(out), out[i].path = p, out[i].action \in Scheduled, i # 1
               PROVE  InChannel(p)'
      BY <1>2 DEF InChannel
  <2>1. i - 1 \in 1..Len(Tail(out)) /\ (i - 1) + 1 = i
      BY <1>2
  <2>2. i - 1 \in 1..Len(out') /\ out'[i - 1] = out[i]
      BY <1>1, <1>2, <2>1
  <2>3. Scheduled' = Scheduled
      BY DEF Scheduled
  <2>4. QED
      BY <2>2, <2>3 DEF InChannel
<1>4. \/ UNCHANGED job
      \/ /\ Free # {} /\ job' = [job EXCEPT ![NewJob] = Job(e.path)]
    BY DEF consume, scheduleBackup, e
<1>5. e.action \in Scheduled /\ e.path \notin missed' => Free # {} /\ job' = [job EXCEPT ![NewJob] = Job(e.path)]
    BY DEF consume, scheduleBackup, e
<1>6. missed \subseteq missed'
    BY DEF consume, scheduleBackup
<1>7. Free # {} => NewJob \in Jobs /\ job[NewJob].stage = "none"
    BY DEF NewJob, Free
<1>8. job \in [Jobs -> Goroutines]
    BY DEF TypeInv, IInv, Ownership
<1>9. \A p : Job(p).stage = "settle" /\ Job(p).path = p
    BY DEF Job, NoJob
<1>10. ASSUME NEW p, Going(p)
       PROVE  Going(p)'
  <2>1. PICK j \in Jobs : /\ job[j].path = p
                          /\ \/ job[j].stage \in {"settle", "ready"}
                             \/ job[j].stage = "upload" /\ job[j].read = disk[p]
      BY <1>10 DEF Going
  <2>2. job'[j] = job[j]
      BY <1>4, <1>7, <1>8, <2>1
  <2>3. QED
      BY <1>1, <2>1, <2>2 DEF Going
<1>11. ASSUME NEW p, Settled(p)
       PROVE  Settled(p)'
  <2>1. \A j \in Jobs : job'[j] = job[j] \/ job'[j].stage = "settle"
      BY <1>4, <1>7, <1>8, <1>9
  <2>2. QED
      BY <1>1, <1>11, <2>1 DEF Settled
<1>12. ASSUME NEW p \in Monitored, p \notin missed', disk'[p] > Absent
       PROVE  InBuffer(p)' \/ InChannel(p)' \/ Going(p)' \/ Settled(p)'
  <2>1. p \notin missed /\ disk[p] > Absent
      BY <1>1, <1>6, <1>12
  <2>2. InBuffer(p) \/ InChannel(p) \/ Going(p) \/ Settled(p)
      BY <2>1 DEF NothingForgotten
  <2>3. InBuffer(p) => InBuffer(p)'
      BY <1>1 DEF InBuffer
  <2>4. ASSUME e.path = p, e.action \in Scheduled
        PROVE  Going(p)'
    <3>1. job' = [job EXCEPT ![NewJob] = Job(p)] /\ NewJob \in Jobs
        BY <1>5, <1>7, <1>12, <2>4
    <3>2. job'[NewJob].path = p /\ job'[NewJob].stage = "settle"
        BY <1>8, <1>9, <3>1
    <3>3. QED
        BY <3>1, <3>2 DEF Going
  <2>5. QED
      BY <1>3, <1>10, <1>11, <2>2, <2>3, <2>4
<1>13. QED
    BY <1>12, Zenon DEF NothingForgotten

(* The goroutine of a backup.                                                *)
LEMMA ForgetGoroutine ==
    ASSUME TypeInv, NothingForgotten, NEW j \in Jobs, Goroutine(j)
    PROVE  NothingForgotten'
<1>0. PICK o : o = job[j].path
    OBVIOUS
<1>1. UNCHANGED <<disk, records, out>>
    BY DEF Goroutine, poll, deadline, backupFile, upload_done, upload_fails, deferred, Set, GivesUp,
       monitorVars, envVars, monVars
<1>2. /\ job \in [Jobs -> Goroutines] /\ job[j] \in Goroutines /\ job[j].stage # "none" /\ o \in Paths
      /\ \A k \in Jobs : job[k].stage # "none" /\ job[k].path = o => k = j
      /\ backup \in [Paths -> 0..MaxOps] /\ disk \in [Paths -> {Absent, Directory} \union (1..MaxOps)]
    BY <1>0 DEF Goroutine, poll, deadline, backupFile, upload_done, upload_fails, deferred, TypeInv, IInv, Ownership,
       BackupsTyped, EventsAreTyped
<1>3. \A p : InBuffer(p) \/ InChannel(p) => InBuffer(p)' \/ InChannel(p)'
    BY <1>1 DEF InBuffer, InChannel, Scheduled
\* What the step does: g is the goroutine's new state.
<1>4. ASSUME NEW g, job' = [job EXCEPT ![j] = g],
             g.path = o \/ g.stage = "none",
             backup' = backup \/ backup' = [backup EXCEPT ![o] = job[j].read],
             NEW p \in Paths, p # o, Going(p) \/ Settled(p)
      PROVE  Going(p)' \/ Settled(p)'
  <2>1. backup'[p] = backup[p]
      BY <1>2, <1>4
  <2>2. \A k \in Jobs : k # j => job'[k] = job[k]
      BY <1>2, <1>4
  <2>3. job'[j] = g
      BY <1>2, <1>4
  <2>4. Going(p) => Going(p)'
    <3> SUFFICES ASSUME NEW k \in Jobs, job[k].path = p,
                        \/ job[k].stage \in {"settle", "ready"}
                        \/ job[k].stage = "upload" /\ job[k].read = disk[p]
                 PROVE  Going(p)'
        BY DEF Going
    <3>1. k # j
        BY <1>0, <1>4
    <3>2. job'[k] = job[k]
        BY <2>2, <3>1
    <3>3. QED
        BY <1>1, <3>2 DEF Going
  <2>5. Settled(p) => Settled(p)'
    <3>1. g.path = p => g.stage # "upload"
        BY <1>4
    <3>2. QED
        BY <1>1, <2>1, <2>2, <2>3, <3>1 DEF Settled
  <2>6. QED
      BY <1>4, <2>4, <2>5
<1>5. ASSUME NEW g, job' = [job EXCEPT ![j] = g],
             g.path = o \/ g.stage = "none",
             backup' = backup \/ backup' = [backup EXCEPT ![o] = job[j].read],
             missed \subseteq missed' \union {o},
             o \in Monitored \ missed' /\ disk[o] > Absent =>
                 InBuffer(o)' \/ InChannel(o)' \/ Going(o)' \/ Settled(o)'
      PROVE  NothingForgotten'
  <2> SUFFICES ASSUME NEW p \in Monitored, p \notin missed', disk'[p] > Absent
               PROVE  InBuffer(p)' \/ InChannel(p)' \/ Going(p)' \/ Settled(p)'
      BY Zenon DEF NothingForgotten
  <2>1. p \in Paths
      BY MonitorAssumption DEF Monitored
  <2>2. CASE p = o
      BY <1>1, <1>5, <2>2
  <2>3. CASE p # o
    <3>1. p \notin missed /\ disk[p] > Absent
        BY <1>1, <1>5, <2>3
    <3>2. InBuffer(p) \/ InChannel(p) \/ Going(p) \/ Settled(p)
        BY <3>1 DEF NothingForgotten
    <3>3. QED
        BY <1>3, <1>4, <1>5, <2>1, <2>3, <3>2
  <2>4. QED
      BY <2>2, <2>3
<1>6. ASSUME GivesUp(j)
      PROVE  NothingForgotten'
  <2> DEFINE g == [job[j] EXCEPT !.stage = "ended"]
  <2>1. g.path = o
      BY <1>0, <1>2 DEF Goroutines
  <2>2. job' = [job EXCEPT ![j] = g] /\ backup' = backup /\ missed' = missed \union {o}
      BY <1>0, <1>6 DEF GivesUp
  <2> HIDE DEF g
  <2>3. QED
      BY <1>5, <2>1, <2>2
<1>7. ASSUME NEW g \in Goroutines, g.path = o, g.stage \in {"settle", "ready"}, Set(j, g)
      PROVE  NothingForgotten'
  <2>1. job' = [job EXCEPT ![j] = g] /\ backup' = backup /\ missed' = missed
      BY <1>7 DEF Set, monitorVars, hisVars
  <2>2. job'[j] = g
      BY <1>2, <2>1
  <2>3. Going(o)'
      BY <1>7, <2>2 DEF Going
  <2>4. QED
      BY <1>5, <1>7, <2>1, <2>3
<1>8. CASE poll(j)
  <2>1. job[j].stage = "settle"
      BY <1>8 DEF poll
  <2>2. CASE Set(j, [job[j] EXCEPT !.polls = @ - 1])
    <3> DEFINE g == [job[j] EXCEPT !.polls = @ - 1]
    <3>1. g \in Goroutines /\ g.path = o /\ g.stage = "settle"
        BY <1>0, <1>2, <2>1 DEF Goroutines
    <3> HIDE DEF g
    <3>2. QED
        BY <1>7, <2>2, <3>1 DEF g
  <2>3. CASE Set(j, [job[j] EXCEPT !.stage = "ready"])
    <3> DEFINE g == [job[j] EXCEPT !.stage = "ready"]
    <3>1. g \in Goroutines /\ g.path = o /\ g.stage = "ready"
        BY <1>0, <1>2 DEF Goroutines, Stages
    <3> HIDE DEF g
    <3>2. QED
        BY <1>7, <2>3, <3>1 DEF g
  <2>4. QED
      BY <1>6, <1>8, <2>2, <2>3 DEF poll
<1>9. CASE deadline(j)
  <2>1. CASE Set(j, [job[j] EXCEPT !.stage = "ready"])
    <3> DEFINE g == [job[j] EXCEPT !.stage = "ready"]
    <3>1. g \in Goroutines /\ g.path = o /\ g.stage = "ready"
        BY <1>0, <1>2 DEF Goroutines, Stages
    <3> HIDE DEF g
    <3>2. QED
        BY <1>7, <2>1, <3>1 DEF g
  <2>2. QED
      BY <1>6, <1>9, <2>1 DEF deadline
<1>10. CASE backupFile(j)
  <2>1. CASE /\ disk[o] > Absent
             /\ job' = [job EXCEPT ![j].stage = "upload", ![j].read = disk[o]]
             /\ missed' = missed \ {o}
             /\ backup' = backup
    <3> DEFINE g == [job[j] EXCEPT !.stage = "upload", !.read = disk[o]]
    <3>1. disk[o] \in Int
        BY <1>2, MonitorAssumption DEF Absent, Directory
    <3>2. g.path = o /\ g.stage = "upload" /\ g.read = disk[o]
        BY <1>0, <1>2, <3>1, UploadTyped
    <3>3. job' = [job EXCEPT ![j] = g]
        BY <1>2, <2>1
    <3> HIDE DEF g
    <3>4. job'[j] = g
        BY <1>2, <3>3
    <3>5. job'[j].path = o /\ job'[j].stage = "upload" /\ job'[j].read = disk'[o]
        BY <1>1, <3>2, <3>4
    <3>6. Going(o)'
        BY <3>5 DEF Going
    <3>7. QED
        BY <1>5, <2>1, <3>2, <3>3, <3>6
  <2>2. QED
      BY <1>0, <1>6, <1>10, <2>1 DEF backupFile
<1>11. CASE upload_done(j)
  <2> DEFINE g == [job[j] EXCEPT !.stage = "stored"]
  <2>1. g.path = o /\ g.stage = "stored"
      BY <1>0, <1>2 DEF Goroutines
  <2>2. /\ job[j].stage = "upload" /\ job' = [job EXCEPT ![j] = g] /\ missed' = missed
        /\ backup' = [backup EXCEPT ![o] = job[j].read]
      BY <1>0, <1>11 DEF upload_done, monitorVars, hisVars
  <2> HIDE DEF g
  <2>3. job'[j] = g /\ \A k \in Jobs : k # j => job'[k] = job[k]
      BY <1>2, <2>2
  <2>4. Going(o) => Settled(o)'
    <3> SUFFICES ASSUME Going(o)
                 PROVE  Settled(o)'
        OBVIOUS
    <3>1. job[j].read = disk[o]
        BY <1>0, <1>2, <2>2 DEF Going
    <3>2. backup'[o] = disk'[o]
        BY <1>1, <1>2, <2>2, <3>1
    <3>3. \A k \in Jobs : job'[k].path = o => job'[k].stage # "upload"
        BY <1>2, <2>1, <2>3
    <3>4. QED
        BY <3>2, <3>3 DEF Settled
  <2>5. ~Settled(o)
      BY <1>0, <2>2 DEF Settled
  <2>6. ASSUME o \in Monitored, o \notin missed', disk[o] > Absent
        PROVE  InBuffer(o)' \/ InChannel(o)' \/ Settled(o)'
    <3>1. InBuffer(o) \/ InChannel(o) \/ Going(o)
        BY <2>2, <2>5, <2>6 DEF NothingForgotten
    <3>2. QED
        BY <1>3, <2>4, <3>1
  <2>7. QED
      BY <1>5, <2>1, <2>2, <2>6
<1>12. CASE upload_fails(j)
    BY <1>6, <1>12 DEF upload_fails
<1>13. CASE deferred(j)
  <2>1. /\ job[j].stage \in {"stored", "ended"} /\ job' = [job EXCEPT ![j] = NoJob]
        /\ missed' = missed /\ backup' = backup
      BY <1>13 DEF deferred, monitorVars, hisVars
  <2>2. NoJob.stage = "none"
      BY DEF NoJob
  <2>3. job'[j].stage = "none" /\ \A k \in Jobs : k # j => job'[k] = job[k]
      BY <1>2, <2>1, <2>2
  <2>4. ASSUME o \in Monitored, o \notin missed', disk[o] > Absent
        PROVE  InBuffer(o)' \/ InChannel(o)' \/ Settled(o)'
    <3>1. InBuffer(o) \/ InChannel(o) \/ Going(o) \/ Settled(o)
        BY <2>1, <2>4 DEF NothingForgotten
    <3>2. ~Going(o)
        BY <1>2, <2>1 DEF Going
    <3>3. Settled(o) => Settled(o)'
        BY <1>1, <2>1, <2>3 DEF Settled
    <3>4. QED
        BY <1>3, <3>1, <3>2, <3>3
  <2>5. QED
      BY <1>5, <2>1, <2>2, <2>4
<1>14. QED
    BY <1>8, <1>9, <1>10, <1>11, <1>12, <1>13 DEF Goroutine

(* NothingForgotten holds at first and is kept.                              *)
LEMMA ForgetInit == Init => NothingForgotten
<1> SUFFICES ASSUME Init, NEW p \in Monitored, disk[p] > Absent
             PROVE  p \in missed
    BY DEF NothingForgotten
<1>1. p \in Paths
    BY MonitorAssumption DEF Monitored
<1>2. disk[p] # Absent
    BY DEF Absent
<1>3. QED
    BY <1>1, <1>2 DEF Init, MonitorInit

(* Every step keeps NothingForgotten.                                        *)
LEMMA ForgetStep == TypeInv /\ NothingForgotten /\ [Next]_vars => NothingForgotten'
<1> SUFFICES ASSUME TypeInv, NothingForgotten, [Next]_vars
             PROVE  NothingForgotten'
    OBVIOUS
<1>1. CASE MonitorNext /\ UNCHANGED schedVars
    BY <1>1, ForgetChange, ForgetRename, ForgetOverflow, ForgetDispatch, ForgetRead DEF MonitorNext
<1>2. CASE UNCHANGED <<disk, records, out, missed, job, backup>>
    BY <1>2 DEF NothingForgotten, InBuffer, InChannel, Going, Settled
<1>3. CASE SetBackupEnabled \/ Tick \/ UNCHANGED vars
    BY <1>2, <1>3 DEF SetBackupEnabled, Tick, MonitorAges, vars, schedVars, monitorVars, envVars, monVars, hisVars
<1>4. CASE consume
    BY <1>4, ForgetConsume
<1>5. CASE \E j \in Jobs : Goroutine(j)
    BY <1>5, ForgetGoroutine
<1>6. QED
    BY <1>1, <1>3, <1>4, <1>5 DEF Next

(* LastChangeBackedUp: whatever the interleaving of watchers, consumer,      *)
(* goroutines and writes, at rest the last backup of an existing file is its *)
(* present version, unless its change was given up.                          *)
THEOREM LastChangesBackedUp == Spec => []LastChangeBackedUp
<1>1. TypeInv /\ NothingForgotten => LastChangeBackedUp
  <2> SUFFICES ASSUME TypeInv, NothingForgotten, Quiescent, NEW p \in Monitored, p \notin missed, disk[p] > Absent
               PROVE  backup[p] = disk[p]
      BY DEF LastChangeBackedUp
  <2>1. Len(<<>>) = 0
      BY EmptySeq
  <2>2. ~InBuffer(p) /\ ~InChannel(p)
      BY <2>1 DEF InBuffer, InChannel, Quiescent, Drained
  <2>3. ~Going(p)
      BY DEF Going, Quiescent
  <2>4. QED
      BY <2>2, <2>3 DEF NothingForgotten, Settled
<1>2. QED
    BY <1>1, TypeInit, TypeStep, ForgetInit, ForgetStep, PTL DEF Spec

-----------------------------------------------------------------------------
(* RowsInv.                                                                  *)

\* The record says that there is no p any more, or anything of p at all.
Gone(r, p) == \/ r.action = "removed" /\ r.path = p
              \/ r.action = "renamedNew" /\ r.from = p
Concerns(r, p) == Here(r, p) \/ Gone(r, p)

\* The buffer and the rename queue of a target that watches W, when nothing was
\* lost: the halves of a rename are neighbours, and an old name waits exactly
\* for the next record.
Exact(rs, q, W) ==
    /\ \A i \in 1..Len(rs) : rs[i] # NoBytes /\ \A p \in Paths : Concerns(rs[i], p) => p \in W
    /\ \A i \in 1..Len(rs) : rs[i].action = "renamedNew" =>
          /\ rs[i].from # rs[i].path
          /\ i > 1 => rs[i - 1].action = "renamedOld"
    /\ OldFollowed(rs)
    /\ \/ rs # <<>> /\ rs[1].action = "renamedNew" /\ Len(q) = 1 /\ q[1].path = rs[1].from
       \/ (rs # <<>> => rs[1].action # "renamedNew") /\ q = <<>>

\* The last record of p agrees with the disk: v is p's version.
LastSays(rs, p, v) ==
    \A i \in 1..Len(rs) :
        Concerns(rs[i], p) /\ (\A k \in 1..Len(rs) : k > i => ~Concerns(rs[k], p)) =>
            (Here(rs[i], p) <=> v # Absent)

Pending(p) == \E t \in Targets : \E i \in 1..Len(records[t]) : Concerns(records[t][i], p)

PendingActions == {"create", "modify", "rename", "move"}

\* While nothing is lost: a path without a record has the right row.
RowsInv ==
    ~unrecorded =>
        /\ \A t \in Targets : Exact(records[t], renameQueue[t], Watched[t])
        /\ \A t \in Targets : \A p \in Paths \ silent : LastSays(records[t], p, disk[p])
        /\ \A p \in Monitored \ silent : Pending(p) \/ (row[p] \in PendingActions <=> disk[p] # Absent)

-----------------------------------------------------------------------------
(* The rows that emitEvent writes, for the sequences of events that occur.   *)
LEMMA RowOfNone ==
    ASSUME NEW p
    PROVE  RowOf(p, <<>>) = row[p]
<1>1. DOMAIN <<>> = {}
    OBVIOUS
<1>2. QED
    BY <1>1 DEF RowOf

(* One event decides the rows of its path and of its old path.               *)
LEMMA RowOfOne ==
    ASSUME NEW e \in Event, NEW p
    PROVE  /\ p \notin {e.path, e.old} => RowOf(p, <<e>>) = row[p]
           /\ p = e.path => RowOf(p, <<e>>) = e.action
           /\ p = e.old /\ p # e.path => RowOf(p, <<e>>) = "move_out"
<1> DEFINE s == <<e>>
           S == {i \in DOMAIN s : p \in {s[i].path, s[i].old}}
<1>1. DOMAIN s = 1..1 /\ s[1] = e
    OBVIOUS
<1>2. RowOf(p, s) = IF S = {} THEN row[p]
                    ELSE IF s[Max(S)].path = p THEN s[Max(S)].action ELSE "move_out"
    BY DEF RowOf
<1> HIDE DEF s
<1>3. p \notin {e.path, e.old} => S = {}
    BY <1>1
<1>4. S # {} => Max(S) = 1
  <2>1. S \in SUBSET (1..1)
      BY <1>1
  <2> HIDE DEF S
  <2>2. S # {} => Max(S) \in 1..1
      BY <2>1, MaxFacts
  <2>3. QED
      BY <2>2
<1>5. p \in {e.path, e.old} => S # {}
    BY <1>1
<1> HIDE DEF S
<1>6. /\ p \notin {e.path, e.old} => RowOf(p, s) = row[p]
      /\ p = e.path => RowOf(p, s) = e.action
      /\ p = e.old /\ p # e.path => RowOf(p, s) = "move_out"
    BY <1>1, <1>2, <1>3, <1>4, <1>5
<1>7. QED
    BY <1>6 DEF s

(* A flushed move_out and the event of another path decide their own rows.   *)
LEMMA RowOfTwo ==
    ASSUME NEW c \in Event, NEW e \in Event, NEW p, c.path = c.old, e.old # p, c.path # e.path
    PROVE  /\ p \notin {c.path, e.path} => RowOf(p, <<c, e>>) = row[p]
           /\ p = c.path => RowOf(p, <<c, e>>) = c.action
           /\ p = e.path => RowOf(p, <<c, e>>) = e.action
<1> DEFINE s == <<c, e>>
           S == {i \in DOMAIN s : p \in {s[i].path, s[i].old}}
<1>1. DOMAIN s = 1..2 /\ s[1] = c /\ s[2] = e
    OBVIOUS
<1>2. RowOf(p, s) = IF S = {} THEN row[p]
                    ELSE IF s[Max(S)].path = p THEN s[Max(S)].action ELSE "move_out"
    BY DEF RowOf
<1> HIDE DEF s
<1>3. p \notin {c.path, e.path} => S = {}
  <2>1. \A i \in 1..2 : i = 1 \/ i = 2
      OBVIOUS
  <2>2. QED
      BY <1>1, <2>1
<1>4. p = c.path => S = {1}
  <2>1. \A i \in 1..2 : i = 1 \/ i = 2
      OBVIOUS
  <2>2. QED
      BY <1>1, <2>1
<1>5. p = e.path => S = {2}
  <2>1. \A i \in 1..2 : i = 1 \/ i = 2
      OBVIOUS
  <2>2. QED
      BY <1>1, <2>1
<1>6. Max({1}) = 1 /\ Max({2}) = 2
  <2>1. {1} \in SUBSET (1..2) /\ {2} \in SUBSET (1..2)
      OBVIOUS
  <2>2. Max({1}) \in {1} /\ Max({2}) \in {2}
      BY <2>1, MaxFacts
  <2>3. QED
      BY <2>2
<1> HIDE DEF S
<1>7. /\ p \notin {c.path, e.path} => RowOf(p, s) = row[p]
      /\ p = c.path => RowOf(p, s) = c.action
      /\ p = e.path => RowOf(p, s) = e.action
    BY <1>1, <1>2, <1>3, <1>4, <1>5, <1>6
<1>8. QED
    BY <1>7 DEF s

(* flushExpiredRenames of an empty queue, and of a queue of one.             *)
LEMMA FlushNone == flushed(<<>>) = <<>> /\ kept(<<>>) = <<>>
<1>1. <<>> \in Seq(Waiting) /\ Len(<<>>) = 0
    BY EmptySeq
<1>2. AllExpired(<<>>, Len(<<>>))
    BY <1>1 DEF AllExpired
<1>3. kept(<<>>) = <<>>
    BY <1>1, <1>2, KeptNone
<1>4. Expired(<<>>) = 0
  <2>1. Expired(<<>>) \in 0..0
      BY <1>1, ExpiredBound
  <2>2. QED
      BY <2>1
<1>5. flushed(<<>>) = [i \in 1..0 |-> Evt("move_out", <<>>[i].path, <<>>[i].path)]
    BY <1>4 DEF flushed
<1>6. flushed(<<>>) \in Seq(Event) /\ DOMAIN flushed(<<>>) = 1..0
    BY <1>1, <1>5, FlushTyped
<1>7. Len(flushed(<<>>)) = 0
  <2>1. Len(flushed(<<>>)) \in Nat /\ 1..Len(flushed(<<>>)) = 1..0
      BY <1>6, LenProperties
  <2>2. QED
      BY <2>1
<1>8. flushed(<<>>) = <<>>
    BY <1>6, <1>7, EmptySeq
<1>9. QED
    BY <1>3, <1>8

(* A queue of one is kept whole or flushed whole.                            *)
LEMMA FlushOne ==
    ASSUME NEW x \in Waiting
    PROVE  \/ flushed(<<x>>) = <<>> /\ kept(<<x>>) = <<x>>
           \/ flushed(<<x>>) = <<Evt("move_out", x.path, x.path)>> /\ kept(<<x>>) = <<>>
<1> DEFINE q == <<x>>
<1>1. q \in Seq(Waiting) /\ Len(q) = 1 /\ q[1] = x /\ DOMAIN q = 1..1
    OBVIOUS
<1> HIDE DEF q
<1>2. x.age \in Int
    BY MonitorAssumption DEF Waiting
<1>3. flushed(q) \in Seq(Event) /\ kept(q) \in Seq(Waiting)
    BY <1>1, FlushTyped
<1>4. Expired(q) \in 0..1
    BY <1>1, ExpiredBound
<1>5. CASE x.age > renamePairTTL
  <2>1. AllExpired(q, Len(q))
      BY <1>1, <1>5 DEF AllExpired
  <2>2. kept(q) = <<>>
      BY <1>1, <2>1, KeptNone
  <2>3. Expired(q) = 1
    <3>1. {i \in DOMAIN q : q[i].age > renamePairTTL} = {1}
        BY <1>1, <1>5
    <3>2. Cardinality({1}) = 1
        BY FS_Singleton
    <3>3. QED
        BY <3>1, <3>2 DEF Expired
  <2>4. flushed(q) = [i \in 1..1 |-> Evt("move_out", q[i].path, q[i].path)]
      BY <2>3 DEF flushed
  <2>5. flushed(q) = <<Evt("move_out", x.path, x.path)>>
    <3> DEFINE e == Evt("move_out", x.path, x.path)
    <3>1. flushed(q)[1] = e /\ DOMAIN flushed(q) = 1..1
        BY <1>1, <2>4
    <3>2. Len(flushed(q)) = 1
      <4>1. Len(flushed(q)) \in Nat /\ DOMAIN flushed(q) = 1..Len(flushed(q))
          BY <1>3, LenProperties
      <4>2. QED
          BY <3>1, <4>1
    <3>3. e \in Event
        BY DEF Evt, Event, Actions, Waiting
    <3> HIDE DEF e
    <3>4. <<e>> \in Seq(Event) /\ Len(<<e>>) = 1 /\ <<e>>[1] = e
        BY <3>3
    <3>5. \A i \in 1..Len(flushed(q)) : flushed(q)[i] = <<e>>[i]
        BY <3>1, <3>2, <3>4
    <3>6. \A s, u \in Seq(Event) : Len(s) = Len(u) /\ (\A i \in 1..Len(s) : s[i] = u[i]) => s = u
        BY SeqEqual
    <3>7. flushed(q) = <<e>>
        BY <1>3, <3>2, <3>4, <3>5, <3>6, Zenon
    <3>8. QED
        BY <3>7 DEF e
  <2>6. QED
      BY <2>2, <2>5 DEF q
<1>6. CASE ~(x.age > renamePairTTL)
  <2>1. Expired(q) = 0
    <3>1. {i \in DOMAIN q : q[i].age > renamePairTTL} = {}
        BY <1>1, <1>6
    <3>2. QED
        BY <3>1, FS_EmptySet DEF Expired
  <2>2. kept(q) = q
    <3>1. kept(q) = SubSeq(q, 1, Len(q))
        BY <2>1 DEF kept
    <3>2. QED
        BY <1>1, <3>1, SubSeqFull
  <2>3. flushed(q) = <<>>
    <3>1. DOMAIN flushed(q) = 1..0
        BY <2>1 DEF flushed
    <3>2. Len(flushed(q)) = 0
      <4>1. Len(flushed(q)) \in Nat /\ DOMAIN flushed(q) = 1..Len(flushed(q))
          BY <1>3, LenProperties
      <4>2. QED
          BY <3>1, <4>1
    <3>3. QED
        BY <1>3, <3>2, EmptySeq
  <2>4. QED
      BY <2>2, <2>3 DEF q
<1>7. QED
    BY <1>5, <1>6

(* Two events in a row.                                                      *)
LEMMA AppendOne ==
    ASSUME NEW c \in Event, NEW e \in Event
    PROVE  Append(<<c>>, e) = <<c, e>>
<1> DEFINE a == Append(<<c>>, e)
           b == <<c, e>>
<1>1. <<c>> \in Seq(Event) /\ Len(<<c>>) = 1 /\ <<c>>[1] = c
    OBVIOUS
<1>2. b \in Seq(Event) /\ Len(b) = 2 /\ b[1] = c /\ b[2] = e
    OBVIOUS
<1>3. /\ a \in Seq(Event) /\ Len(a) = Len(<<c>>) + 1
      /\ \A i \in 1..Len(<<c>>) : a[i] = <<c>>[i]
      /\ a[Len(<<c>>) + 1] = e
    BY <1>1, AppendProperties
<1> HIDE DEF a, b
<1>4. Len(a) = 2 /\ a[1] = c /\ a[2] = e
    BY <1>1, <1>3
<1>5. \A i \in 1..Len(a) : a[i] = b[i]
    BY <1>2, <1>4
<1>6. \A s, u \in Seq(Event) : Len(s) = Len(u) /\ (\A i \in 1..Len(s) : s[i] = u[i]) => s = u
    BY SeqEqual
<1>7. a = b
    BY <1>2, <1>3, <1>4, <1>5, <1>6, Zenon
<1>8. QED
    BY <1>7 DEF a, b

-----------------------------------------------------------------------------
(* dispatchAction while nothing is lost: the rows and the queue.             *)
LEMMA RowEffect ==
    ASSUME TypeInv, NEW t \in Targets, dispatchAction(t), ~unrecorded', ~unrecorded,
           Exact(records[t], renameQueue[t], Watched[t])
    PROVE  LET r == records[t][1]
           IN  /\ \A p \in Paths : Here(r, p) => row'[p] \in PendingActions
               /\ \A p \in Paths : Gone(r, p) => row'[p] \notin PendingActions
               /\ \A p \in Paths : ~Concerns(r, p) => row'[p] = row[p]
               /\ r.action = "renamedOld" =>
                     \E x \in Waiting : renameQueue'[t] = <<x>> /\ x.path = r.path
               /\ r.action # "renamedOld" => renameQueue'[t] = <<>>
<1> DEFINE r == records[t][1]
           q == renameQueue[t]
<1>1. /\ records[t] # <<>> /\ records[t] \in Buffer /\ q \in Seq(Waiting) /\ Head(records[t]) # NoBytes
      /\ renameQueue \in [Targets -> Seq(Waiting)] /\ row \in [Paths -> Actions \union {None}]
    BY DEF dispatchAction, TypeInv, IInv, EventsAreTyped, RowsTyped, Buffer
<1>2. Head(records[t]) = r /\ r \in ChangeRecord /\ 1 \in 1..Len(records[t])
  <2>1. Head(records[t]) = r /\ 1 \in 1..Len(records[t])
      BY <1>1, BufferFacts
  <2>2. r \in ChangeRecord \union {NoBytes}
      BY <1>1, <2>1, BufferFacts
  <2>3. QED
      BY <1>1, <2>1, <2>2
<1>3. r.action = "renamedNew" => r.from # r.path
    BY <1>2 DEF Exact
<1>4. \/ r.action = "renamedNew" /\ Len(q) = 1 /\ q[1].path = r.from
      \/ r.action # "renamedNew" /\ q = <<>>
    BY <1>1, Zenon DEF Exact
<1>5. ASSUME NEW evts, emitEvent(evts)
      PROVE  \A p \in Paths : row'[p] = RowOf(p, evts)
    BY <1>5 DEF emitEvent
<1> DEFINE f == flushed(q)
           k == kept(q)
<1>6. CASE r.action = "renamedOld"
  <2>1. q = <<>> /\ f = <<>> /\ k = <<>>
      BY <1>4, <1>6, FlushNone
  <2>2. /\ emitEvent(f)
        /\ renameQueue' = [renameQueue EXCEPT ![t] = Append(k, [path |-> r.path, age |-> 0])]
      BY <1>2, <1>6 DEF dispatchAction
  <2> HIDE DEF f, k, r, q
  <2>3. \A p \in Paths : row'[p] = row[p]
      BY <1>5, <2>1, <2>2, RowOfNone
  <2>4. \A p \in Paths : ~Concerns(r, p)
      BY <1>6 DEF Concerns, Here, Gone
  <2> DEFINE x == [path |-> r.path, age |-> 0]
  <2>5. x \in Waiting /\ x.path = r.path
      BY <1>2, MonitorAssumption DEF Waiting, ChangeRecord
  <2>6. renameQueue'[t] = Append(k, x)
      BY <1>1, <2>2
  <2> HIDE DEF x
  <2>7. renameQueue'[t] = <<x>>
      BY <2>1, <2>6
  <2>8. QED
      BY <1>6, <2>3, <2>4, <2>5, <2>7 DEF Concerns, r
<1>7. CASE r.action = "renamedNew"
  <2>1. q \in Seq(Waiting) /\ Len(q) = 1 /\ q[1].path = r.from
      BY <1>1, <1>4, <1>7
  <2>2. PICK x \in Waiting : q = <<x>> /\ x.path = r.from
    <3>1. 1 \in 1..Len(q)
        BY <2>1
    <3>2. q[1] \in Waiting
        BY <2>1, <3>1, ElementOfSeq
    <3>3. q = <<q[1]>>
      <4>1. <<q[1]>> \in Seq(Waiting) /\ Len(<<q[1]>>) = 1 /\ <<q[1]>>[1] = q[1]
          BY <3>2
      <4>2. \A i \in 1..Len(q) : q[i] = <<q[1]>>[i]
          BY <2>1, <4>1
      <4>3. \A s, u \in Seq(Waiting) : Len(s) = Len(u) /\ (\A i \in 1..Len(s) : s[i] = u[i]) => s = u
          BY SeqEqual
      <4> HIDE DEF q
      <4>4. QED
          BY <2>1, <4>1, <4>2, <4>3, Zenon
    <3>4. QED
        BY <2>1, <3>2, <3>3
  <2>3. \/ f = <<>> /\ k = <<x>>
        \/ f = <<Evt("move_out", x.path, x.path)>> /\ k = <<>>
      BY <2>2, FlushOne
  <2>4. /\ emitEvent(Append(f, RenameEvent(r, k)))
        /\ renameQueue' = [renameQueue EXCEPT ![t] = IF k = <<>> THEN k ELSE Tail(k)]
      BY <1>2, <1>7 DEF dispatchAction
  <2> HIDE DEF f, k, r, q
  <2>5. r.path \in Paths /\ x.path \in Paths
      BY <1>2 DEF ChangeRecord, Waiting
  <2>6. CASE f = <<>> /\ k = <<x>>
    <3> DEFINE e == RenameEvent(r, k)
    <3>1. Head(<<x>>) = x /\ Tail(<<x>>) = <<>> /\ <<x>> # <<>>
        OBVIOUS
    <3>2. e = Evt(IF Dir[x.path] = Dir[r.path] THEN "rename" ELSE "move", r.path, x.path)
        BY <2>6, <3>1 DEF RenameEvent
    <3>3. e \in Event /\ e.path = r.path /\ e.old = x.path /\ e.action \in {"rename", "move"}
        BY <2>5, <3>2 DEF Evt, Event, Actions
    <3> HIDE DEF e
    <3>4. Append(f, e) = <<e>>
        BY <2>6
    <3>5. \A p \in Paths : row'[p] = RowOf(p, <<e>>)
        BY <1>5, <2>4, <3>4 DEF e
    <3>6. renameQueue'[t] = <<>>
        BY <1>1, <2>4, <2>6, <3>1
    <3>7. \A p \in Paths : Here(r, p) => row'[p] \in PendingActions
        BY <3>3, <3>5, RowOfOne DEF Here, PendingActions
    <3>8. \A p \in Paths : Gone(r, p) => row'[p] \notin PendingActions
        BY <1>3, <1>7, <2>2, <3>3, <3>5, RowOfOne DEF Gone, PendingActions, r
    <3>9. \A p \in Paths : ~Concerns(r, p) => row'[p] = row[p]
      <4>1. ASSUME NEW p \in Paths, ~Concerns(r, p)
            PROVE  p \notin {e.path, e.old}
          BY <1>7, <2>2, <3>3, <4>1 DEF Concerns, Here, Gone
      <4>2. QED
          BY <3>3, <3>5, <4>1, RowOfOne
    <3>10. QED
        BY <1>7, <3>6, <3>7, <3>8, <3>9 DEF r
  <2>7. CASE f = <<Evt("move_out", x.path, x.path)>> /\ k = <<>>
    <3> DEFINE e == RenameEvent(r, k)
               c == Evt("move_out", x.path, x.path)
    <3>1. e = Evt("create", r.path, None)
        BY <2>7 DEF RenameEvent
    <3>2. e \in Event /\ e.path = r.path /\ e.old = None /\ e.action = "create"
        BY <2>5, <3>1 DEF Evt, Event, Actions
    <3>3. c \in Event /\ c.path = x.path /\ c.old = x.path /\ c.action = "move_out"
        BY <2>5 DEF Evt, Event, Actions
    <3>4. f = <<c>>
        BY <2>7
    <3> HIDE DEF e, c
    <3>5. Append(f, e) = <<c, e>>
      <4>1. Append(<<c>>, e) = <<c, e>>
          BY <3>2, <3>3, AppendOne
      <4>2. QED
          BY <3>4, <4>1
    <3>6. \A p \in Paths : row'[p] = RowOf(p, <<c, e>>)
        BY <1>5, <2>4, <3>5 DEF e
    <3>7. renameQueue'[t] = <<>>
        BY <1>1, <2>4, <2>7
    <3>8. c.path # e.path /\ c.path = c.old /\ \A p \in Paths : e.old # p
        BY <1>3, <1>7, <2>2, <3>2, <3>3, MonitorAssumption DEF r
    <3>9. \A p \in Paths : /\ p \notin {x.path, r.path} => row'[p] = row[p]
                           /\ p = x.path => row'[p] = "move_out"
                           /\ p = r.path => row'[p] = "create"
        BY <3>2, <3>3, <3>6, <3>8, RowOfTwo
    <3>10. \A p \in Paths : Here(r, p) => row'[p] \in PendingActions
        BY <3>9 DEF Here, PendingActions
    <3>11. \A p \in Paths : Gone(r, p) => row'[p] \notin PendingActions
        BY <1>7, <2>2, <3>9 DEF Gone, PendingActions
    <3>12. \A p \in Paths : ~Concerns(r, p) => row'[p] = row[p]
        BY <1>7, <2>2, <3>9 DEF Concerns, Here, Gone
    <3>13. QED
        BY <1>7, <3>7, <3>10, <3>11, <3>12 DEF r
  <2>8. QED
      BY <2>3, <2>6, <2>7
<1>8. CASE r.action \notin {"renamedOld", "renamedNew"}
  <2>1. q = <<>> /\ f = <<>> /\ k = <<>>
      BY <1>4, <1>8, FlushNone
  <2>2. emitEvent(Append(f, PlainEvent(r))) /\ renameQueue' = [renameQueue EXCEPT ![t] = k]
      BY <1>2, <1>8 DEF dispatchAction
  <2> HIDE DEF f, k, r, q
  <2> DEFINE e == PlainEvent(r)
  <2>3. /\ e \in Event /\ e.path = r.path /\ e.old = None
        /\ r.action = "removed" => e.action = "delete"
        /\ r.action # "removed" => e.action \in {"create", "modify"}
      BY <1>2, <1>8 DEF PlainEvent, Evt, Event, Actions, ChangeRecord
  <2> HIDE DEF e
  <2>4. Append(f, e) = <<e>>
      BY <2>1
  <2>5. \A p \in Paths : row'[p] = RowOf(p, <<e>>)
      BY <1>5, <2>2, <2>4 DEF e
  <2>6. \A p \in Paths : /\ p # r.path => row'[p] = row[p]
                         /\ p = r.path => row'[p] = e.action
      BY <2>3, <2>5, RowOfOne, MonitorAssumption
  <2>7. \A p \in Paths : Here(r, p) => row'[p] \in PendingActions
      BY <2>3, <2>6 DEF Here, PendingActions
  <2>8. \A p \in Paths : Gone(r, p) => row'[p] \notin PendingActions
      BY <1>8, <2>3, <2>6 DEF Gone, PendingActions
  <2>9. \A p \in Paths : ~Concerns(r, p) => row'[p] = row[p]
      BY <1>2, <1>8, <2>6 DEF Concerns, Here, Gone, ChangeRecord
  <2>10. renameQueue'[t] = <<>>
      BY <1>1, <2>1, <2>2
  <2>11. QED
      BY <1>8, <2>7, <2>8, <2>9, <2>10 DEF r
<1>9. QED
    BY <1>6, <1>7, <1>8

-----------------------------------------------------------------------------
(* One record less in a buffer.                                              *)
LEMMA ExactTail ==
    ASSUME NEW rs \in Buffer, rs # <<>>, NEW q, NEW W, Exact(rs, q, W), NEW z,
           rs[1].action = "renamedOld" => \E x \in Waiting : z = <<x>> /\ x.path = rs[1].path,
           rs[1].action # "renamedOld" => z = <<>>
    PROVE  Exact(Tail(rs), z, W)
<1> DEFINE u == Tail(rs)
<1>1. /\ Len(rs) \in Nat /\ Len(rs) > 0 /\ u \in Buffer /\ Len(u) = Len(rs) - 1
      /\ \A i \in 1..(Len(rs) - 1) : u[i] = rs[i + 1]
    BY BufferFacts
<1>2. OldFollowed(rs)
    BY DEF Exact
<1>3. OldFollowed(u)
    BY <1>2, FollowedTail
<1> HIDE DEF u
<1>4. \A i \in 1..Len(u) : i + 1 \in 1..Len(rs) /\ u[i] = rs[i + 1] /\ i + 1 > 1 /\ (i + 1) - 1 = i
    BY <1>1
<1>5. \A i \in 1..Len(u) : u[i] # NoBytes /\ \A p \in Paths : Concerns(u[i], p) => p \in W
    BY <1>4 DEF Exact
<1>6. \A i \in 1..Len(u) : u[i].action = "renamedNew" =>
          u[i].from # u[i].path /\ rs[i].action = "renamedOld"
    BY <1>4 DEF Exact
<1>7. \A i \in 1..Len(u) : u[i].action = "renamedNew" =>
          /\ u[i].from # u[i].path
          /\ i > 1 => u[i - 1].action = "renamedOld"
  <2>1. ASSUME NEW i \in 1..Len(u), i > 1
        PROVE  u[i - 1] = rs[i]
    <3>1. i - 1 \in 1..Len(u) /\ (i - 1) + 1 = i
        BY <1>1, <2>1
    <3>2. QED
        BY <1>4, <3>1
  <2>2. QED
      BY <1>6, <2>1
<1>8. u # <<>> => 1 \in 1..Len(u)
    BY <1>1, BufferFacts
<1>9. CASE rs[1].action = "renamedOld"
  <2>1. PICK x \in Waiting : z = <<x>> /\ x.path = rs[1].path
      BY <1>9
  <2>2. Len(z) = 1 /\ z[1] = x
      BY <2>1
  <2>3. 1 + 1 \in 1..Len(rs) /\ (rs[1 + 1] # NoBytes => rs[1 + 1].action = "renamedNew" /\ rs[1 + 1].from = rs[1].path)
    <3>1. 1 \in 1..Len(rs)
        BY <1>1
    <3>2. QED
        BY <1>2, <1>9, <3>1 DEF OldFollowed
  <2>4. 1 \in 1..Len(u) /\ u[1] = rs[1 + 1]
      BY <1>1, <2>3
  <2>5. u # <<>>
    <3>1. Len(u) > 0
        BY <1>1, <2>4
    <3>2. QED
        BY <1>1, <3>1, BufferFacts
  <2>6. u[1] # NoBytes
      BY <1>5, <2>4
  <2>7. u[1].action = "renamedNew" /\ Len(z) = 1 /\ z[1].path = u[1].from
      BY <2>1, <2>2, <2>3, <2>4, <2>6
  <2>8. Exact(u, z, W)
      BY <1>3, <1>5, <1>7, <2>5, <2>7, Zenon DEF Exact
  <2>9. QED
      BY <2>8 DEF u
<1>10. CASE rs[1].action # "renamedOld"
  <2>1. u # <<>> => u[1].action # "renamedNew"
      BY <1>6, <1>8, <1>10
  <2>2. z = <<>>
      BY <1>10
  <2>3. Exact(u, z, W)
      BY <1>3, <1>5, <1>7, <2>1, <2>2, Zenon DEF Exact
  <2>4. QED
      BY <2>3 DEF u
<1>11. QED
    BY <1>9, <1>10

(* Taking the first record leaves the last record of every path the last.    *)
LEMMA LastSaysTail ==
    ASSUME NEW rs \in Buffer, rs # <<>>, NEW p, NEW v, LastSays(rs, p, v)
    PROVE  LastSays(Tail(rs), p, v)
<1> DEFINE u == Tail(rs)
<1>1. /\ Len(rs) \in Nat /\ Len(rs) > 0 /\ Len(u) = Len(rs) - 1
      /\ \A i \in 1..(Len(rs) - 1) : u[i] = rs[i + 1]
    BY BufferFacts
<1> HIDE DEF u
<1>2. ASSUME NEW i \in 1..Len(u), Concerns(u[i], p), \A k \in 1..Len(u) : k > i => ~Concerns(u[k], p)
      PROVE  Here(u[i], p) <=> v # Absent
  <2>1. i + 1 \in 1..Len(rs) /\ rs[i + 1] = u[i]
      BY <1>1
  <2>2. ASSUME NEW k \in 1..Len(rs), k > i + 1
        PROVE  ~Concerns(rs[k], p)
    <3>1. k - 1 \in 1..Len(u) /\ k - 1 > i /\ (k - 1) + 1 = k
        BY <1>1, <2>2
    <3>2. u[k - 1] = rs[k]
        BY <1>1, <3>1
    <3>3. QED
        BY <1>2, <3>1, <3>2
  <2>3. Here(rs[i + 1], p) <=> v # Absent
      BY <1>2, <2>1, <2>2 DEF LastSays
  <2>4. QED
      BY <2>1, <2>3
<1>3. LastSays(u, p, v)
    BY <1>2 DEF LastSays
<1>4. QED
    BY <1>3 DEF u

(* If nothing but the first record concerns p, it agrees with the disk.      *)
LEMMA LastIsFirst ==
    ASSUME NEW rs \in Buffer, rs # <<>>, NEW p, NEW v, LastSays(rs, p, v), Concerns(rs[1], p),
           \A i \in 1..Len(Tail(rs)) : ~Concerns(Tail(rs)[i], p)
    PROVE  Here(rs[1], p) <=> v # Absent
<1>1. /\ Len(rs) \in Nat /\ Len(rs) > 0 /\ Len(Tail(rs)) = Len(rs) - 1
      /\ \A i \in 1..(Len(rs) - 1) : Tail(rs)[i] = rs[i + 1]
    BY BufferFacts
<1>2. ASSUME NEW k \in 1..Len(rs), k > 1
      PROVE  ~Concerns(rs[k], p)
  <2>1. k - 1 \in 1..(Len(rs) - 1) /\ (k - 1) + 1 = k
      BY <1>1, <1>2
  <2>2. Tail(rs)[k - 1] = rs[k]
      BY <1>1, <2>1
  <2>3. QED
      BY <1>1, <2>1, <2>2
<1>3. 1 \in 1..Len(rs)
    BY <1>1
<1>4. QED
    BY <1>2, <1>3 DEF LastSays

(* dispatchAction keeps RowsInv.                                             *)
LEMMA RowsDispatch ==
    ASSUME TypeInv, RowsInv, NEW t \in Targets, dispatchAction(t)
    PROVE  RowsInv'
<1> SUFFICES ASSUME ~unrecorded'
             PROVE  /\ \A u \in Targets : Exact(records'[u], renameQueue'[u], Watched[u])
                    /\ \A u \in Targets : \A p \in Paths \ silent' : LastSays(records'[u], p, disk'[p])
                    /\ \A p \in Monitored \ silent' : Pending(p)' \/ (row'[p] \in PendingActions <=> disk'[p] # Absent)
    BY Zenon DEF RowsInv, PendingActions
<1>1. ~unrecorded
  <2>1. \E evts \in Seq(Event) : emitEvent(evts)
      BY Emits DEF TypeInv
  <2>2. QED
      BY <2>1, Zenon DEF emitEvent
<1>2. /\ \A u \in Targets : Exact(records[u], renameQueue[u], Watched[u])
      /\ \A u \in Targets : \A p \in Paths \ silent : LastSays(records[u], p, disk[p])
      /\ \A p \in Monitored \ silent : Pending(p) \/ (row[p] \in PendingActions <=> disk[p] # Absent)
    BY <1>1 DEF RowsInv
<1>3. /\ records[t] # <<>> /\ records \in [Targets -> Buffer] /\ renameQueue \in [Targets -> Seq(Waiting)]
      /\ records' = [records EXCEPT ![t] = Tail(@)] /\ disk' = disk /\ silent' = silent
    BY DEF dispatchAction, TypeInv, IInv, EventsAreTyped, Buffer
<1>4. records'[t] = Tail(records[t]) /\ \A u \in Targets : u # t => records'[u] = records[u]
    BY <1>3
<1>5. \A u \in Targets : u # t => renameQueue'[u] = renameQueue[u]
  <2>1. \E z : renameQueue' = [renameQueue EXCEPT ![t] = z]
      BY DEF dispatchAction
  <2>2. QED
      BY <1>3, <2>1
<1> DEFINE r == records[t][1]
<1>6. /\ \A p \in Paths : Here(r, p) => row'[p] \in PendingActions
      /\ \A p \in Paths : Gone(r, p) => row'[p] \notin PendingActions
      /\ \A p \in Paths : ~Concerns(r, p) => row'[p] = row[p]
      /\ r.action = "renamedOld" => \E x \in Waiting : renameQueue'[t] = <<x>> /\ x.path = r.path
      /\ r.action # "renamedOld" => renameQueue'[t] = <<>>
    BY <1>1, <1>2, RowEffect
<1>7. ASSUME NEW u \in Targets
      PROVE  Exact(records'[u], renameQueue'[u], Watched[u])
  <2>1. CASE u = t
    <3>1. Exact(Tail(records[t]), renameQueue'[t], Watched[t])
        BY <1>2, <1>3, <1>6, ExactTail
    <3>2. QED
        BY <1>4, <2>1, <3>1
  <2>2. CASE u # t
      BY <1>2, <1>4, <1>5, <2>2
  <2>3. QED
      BY <2>1, <2>2
<1>8. ASSUME NEW u \in Targets, NEW p \in Paths \ silent'
      PROVE  LastSays(records'[u], p, disk'[p])
  <2>1. LastSays(records[u], p, disk'[p])
      BY <1>2, <1>3
  <2>2. CASE u = t
      BY <1>3, <1>4, <2>1, <2>2, LastSaysTail
  <2>3. CASE u # t
      BY <1>4, <2>1, <2>3
  <2>4. QED
      BY <2>2, <2>3
<1>9. ASSUME NEW p \in Monitored \ silent', ~Pending(p)'
      PROVE  row'[p] \in PendingActions <=> disk'[p] # Absent
  <2>1. p \in Paths
      BY MonitorAssumption DEF Monitored
  <2>2. \A u \in Targets : \A i \in 1..Len(records'[u]) : ~Concerns(records'[u][i], p)
      BY <1>9 DEF Pending
  <2>3. CASE Concerns(r, p)
    <3>1. \A i \in 1..Len(Tail(records[t])) : ~Concerns(Tail(records[t])[i], p)
        BY <1>4, <2>2
    <3>2. LastSays(records[t], p, disk[p]) /\ records[t] \in Buffer
        BY <1>2, <1>3, <2>1
    <3>3. Here(r, p) <=> disk[p] # Absent
        BY <1>3, <2>3, <3>1, <3>2, LastIsFirst
    <3>4. Here(r, p) \/ Gone(r, p)
        BY <2>3 DEF Concerns
    <3>5. row'[p] \in PendingActions <=> Here(r, p)
        BY <1>6, <2>1, <3>4, Zenon
    <3>6. QED
        BY <1>3, <3>3, <3>5, Zenon
  <2>4. CASE ~Concerns(r, p)
    <3>1. ~Pending(p)
      <4>1. ASSUME NEW u \in Targets, NEW i \in 1..Len(records[u]), Concerns(records[u][i], p)
            PROVE  FALSE
        <5>1. CASE u # t
          <6>1. records'[u] = records[u]
              BY <1>4, <5>1
          <6>2. QED
              BY <2>2, <4>1, <6>1
        <5>2. CASE u = t
          <6>1. /\ Len(records[t]) \in Nat /\ Len(Tail(records[t])) = Len(records[t]) - 1
                /\ \A k \in 1..(Len(records[t]) - 1) : Tail(records[t])[k] = records[t][k + 1]
              BY <1>3, BufferFacts
          <6>2. i # 1
              BY <2>4, <4>1, <5>2
          <6>3. i - 1 \in 1..(Len(records[t]) - 1) /\ (i - 1) + 1 = i
              BY <4>1, <5>2, <6>1, <6>2
          <6>4. Tail(records[t])[i - 1] = records[t][i]
              BY <6>1, <6>3
          <6>5. QED
              BY <1>4, <2>2, <4>1, <5>2, <6>1, <6>3, <6>4
        <5>3. QED
            BY <5>1, <5>2
      <4>2. QED
          BY <4>1 DEF Pending
    <3>2. row[p] \in PendingActions <=> disk[p] # Absent
        BY <1>2, <1>3, <3>1
    <3>3. row'[p] = row[p]
        BY <1>6, <2>1, <2>4
    <3>4. QED
        BY <1>3, <3>2, <3>3
  <2>5. QED
      BY <2>3, <2>4
<1>10. QED
    BY <1>7, <1>8, <1>9

-----------------------------------------------------------------------------
(* Records of a change at the end of a buffer.                               *)

\* x are records that a change of the paths T makes for a target that watches W,
\* and that leaves the disk as d says.
Tells(x, T, W, d) ==
    /\ x \in Buffer /\ OldFollowed(x)
    /\ \A i \in 1..Len(x) : x[i] # NoBytes /\ \A p \in Paths : Concerns(x[i], p) => p \in W
    /\ \A i \in 1..Len(x) : x[i].action = "renamedNew" =>
          /\ x[i].from # x[i].path
          /\ i > 1 /\ x[i - 1].action = "renamedOld"
    /\ \A p \in T : p \in W => \E i \in 1..Len(x) : Concerns(x[i], p)
    /\ \A i \in 1..Len(x) : \A p \in Paths : Concerns(x[i], p) => (Here(x[i], p) <=> d[p] # Absent)

(* Records that tell a change completely keep a buffer exact.                *)
LEMMA ExactConcat ==
    ASSUME NEW rs \in Buffer, NEW x, NEW T, NEW W, NEW d, Tells(x, T, W, d), NEW q, Exact(rs, q, W)
    PROVE  Exact(rs \o x, q, W)
<1> DEFINE a == rs \o x
           m == Len(rs)
<1>0. x \in Buffer /\ OldFollowed(x)
    BY DEF Tells
<1>1. /\ a \in Buffer /\ Len(a) = m + Len(x)
      /\ \A i \in 1..m : i \in 1..Len(a) /\ a[i] = rs[i]
      /\ \A i \in 1..Len(x) : a[i + m] = x[i]
      /\ \A i \in 1..Len(a) : i \in 1..m \/ i - m \in 1..Len(x)
    BY <1>0, ConcatFacts
<1>2. m \in Nat /\ Len(x) \in Nat /\ (rs # <<>> <=> m > 0) /\ (x # <<>> <=> Len(x) > 0)
    BY <1>0, BufferFacts
<1>3. OldFollowed(a)
    BY <1>0, FollowedConcat DEF Exact
<1> HIDE DEF a
<1>4. \A i \in 1..Len(a) : i \notin 1..m => i - m \in 1..Len(x) /\ a[i] = x[i - m] /\ (i - m) + m = i
  <2> SUFFICES ASSUME NEW i \in 1..Len(a), i \notin 1..m
               PROVE  i - m \in 1..Len(x) /\ a[i] = x[i - m] /\ (i - m) + m = i
      OBVIOUS
  <2>1. i - m \in 1..Len(x) /\ (i - m) + m = i
      BY <1>1, <1>2
  <2>2. a[(i - m) + m] = x[i - m]
      BY <1>1, <2>1
  <2>3. QED
      BY <2>1, <2>2
<1>5. \A i \in 1..Len(a) : a[i] # NoBytes /\ \A p \in Paths : Concerns(a[i], p) => p \in W
  <2> SUFFICES ASSUME NEW i \in 1..Len(a)
               PROVE  a[i] # NoBytes /\ \A p \in Paths : Concerns(a[i], p) => p \in W
      OBVIOUS
  <2>1. CASE i \in 1..m
      BY <1>1, <2>1 DEF Exact
  <2>2. CASE i \notin 1..m
      BY <1>4, <2>2 DEF Tells
  <2>3. QED
      BY <2>1, <2>2
<1>6. ASSUME NEW i \in 1..Len(a), a[i].action = "renamedNew"
      PROVE  a[i].from # a[i].path /\ (i > 1 => a[i - 1].action = "renamedOld")
  <2>1. CASE i \in 1..m
    <3>1. a[i] = rs[i]
        BY <1>1, <2>1
    <3>2. rs[i].from # rs[i].path /\ (i > 1 => rs[i - 1].action = "renamedOld")
        BY <1>6, <2>1, <3>1 DEF Exact
    <3>3. i > 1 => i - 1 \in 1..m
        BY <1>2, <2>1
    <3>4. QED
        BY <1>1, <3>1, <3>2, <3>3
  <2>2. CASE i \notin 1..m
    <3>1. i - m \in 1..Len(x) /\ a[i] = x[i - m]
        BY <1>4, <2>2
    <3>2. x[i - m].from # x[i - m].path /\ i - m > 1 /\ x[(i - m) - 1].action = "renamedOld"
        BY <1>6, <3>1 DEF Tells
    <3>3. (i - m) - 1 \in 1..Len(x) /\ ((i - m) - 1) + m = i - 1
        BY <1>2, <3>1, <3>2
    <3>4. a[i - 1] = x[(i - m) - 1]
        BY <1>1, <3>3
    <3>5. QED
        BY <3>1, <3>2, <3>4
  <2>3. QED
      BY <2>1, <2>2
<1>7. \/ a # <<>> /\ a[1].action = "renamedNew" /\ Len(q) = 1 /\ q[1].path = a[1].from
      \/ (a # <<>> => a[1].action # "renamedNew") /\ q = <<>>
  <2>1. \/ rs # <<>> /\ rs[1].action = "renamedNew" /\ Len(q) = 1 /\ q[1].path = rs[1].from
        \/ (rs # <<>> => rs[1].action # "renamedNew") /\ q = <<>>
      BY DEF Exact
  <2>2. CASE rs # <<>>
    <3>1. 1 \in 1..m /\ a[1] = rs[1]
        BY <1>1, <1>2, <2>2
    <3>2. Len(a) > 0
        BY <1>1, <1>2, <2>2
    <3>3. a # <<>>
        BY <1>1, <3>2, BufferFacts
    <3>4. QED
        BY <2>1, <2>2, <3>1, <3>3
  <2>3. CASE rs = <<>>
    <3>1. m = 0 /\ q = <<>>
        BY <1>2, <2>1, <2>3
    <3>2. ASSUME a # <<>>
          PROVE  a[1].action # "renamedNew"
      <4>1. Len(a) > 0
          BY <1>1, <3>2, BufferFacts
      <4>2. 1 \in 1..Len(x) /\ 1 + m = 1
          BY <1>1, <1>2, <3>1, <4>1
      <4>3. a[1] = x[1]
          BY <1>1, <4>2
      <4>4. ~(1 > 1)
          OBVIOUS
      <4>5. QED
          BY <4>2, <4>3, <4>4 DEF Tells
    <3>3. QED
        BY <3>1, <3>2
  <2>4. QED
      BY <2>2, <2>3
<1>8. Exact(a, q, W)
    BY <1>3, <1>5, <1>6, <1>7, Zenon DEF Exact
<1>9. QED
    BY <1>8 DEF a

(* After them the last record of every path agrees with the new disk.        *)
LEMMA LastSaysConcat ==
    ASSUME NEW rs \in Buffer, NEW x, NEW T, NEW W, NEW d, Tells(x, T, W, d), NEW p \in Paths, NEW v,
           \A i \in 1..Len(rs) : Concerns(rs[i], p) => p \in W,
           p \in T \/ (LastSays(rs, p, v) /\ v = d[p])
    PROVE  LastSays(rs \o x, p, d[p])
<1> DEFINE a == rs \o x
           m == Len(rs)
<1>0. x \in Buffer
    BY DEF Tells
<1>1. /\ a \in Buffer /\ Len(a) = m + Len(x)
      /\ \A i \in 1..m : i \in 1..Len(a) /\ a[i] = rs[i]
      /\ \A i \in 1..Len(x) : a[i + m] = x[i]
      /\ \A i \in 1..Len(a) : i \in 1..m \/ i - m \in 1..Len(x)
    BY <1>0, ConcatFacts
<1>2. m \in Nat /\ Len(x) \in Nat
    BY <1>0, BufferFacts
<1> HIDE DEF a
<1>3. ASSUME NEW i \in 1..Len(a), Concerns(a[i], p), \A k \in 1..Len(a) : k > i => ~Concerns(a[k], p)
      PROVE  Here(a[i], p) <=> d[p] # Absent
  <2>1. CASE i \notin 1..m
    <3>1. i - m \in 1..Len(x) /\ (i - m) + m = i
        BY <1>1, <1>2, <2>1
    <3>2. a[(i - m) + m] = x[i - m]
        BY <1>1, <3>1
    <3>3. a[i] = x[i - m]
        BY <3>1, <3>2
    <3>4. QED
        BY <1>3, <3>1, <3>3 DEF Tells
  <2>2. CASE i \in 1..m
    <3>1. a[i] = rs[i]
        BY <1>1, <2>2
    <3>2. ASSUME NEW k \in 1..Len(x)
          PROVE  ~Concerns(x[k], p)
      <4>1. k + m \in 1..Len(a) /\ k + m > i /\ a[k + m] = x[k]
          BY <1>1, <1>2, <2>2
      <4>2. QED
          BY <1>3, <4>1
    <3>3. p \in W
        BY <1>3, <2>2, <3>1
    <3>4. p \notin T
        BY <3>2, <3>3 DEF Tells
    <3>5. ASSUME NEW k \in 1..m, k > i
          PROVE  ~Concerns(rs[k], p)
        BY <1>1, <1>3, <3>5
    <3>6. Here(rs[i], p) <=> v # Absent
        BY <1>3, <2>2, <3>1, <3>4, <3>5 DEF LastSays
    <3>7. QED
        BY <3>1, <3>4, <3>6
  <2>3. QED
      BY <2>1, <2>2
<1>4. LastSays(a, p, d[p])
    BY <1>3 DEF LastSays
<1>5. QED
    BY <1>4 DEF a

(* A change of the paths T keeps RowsInv.                                    *)
LEMMA RowsChange ==
    ASSUME TypeInv, RowsInv, NEW T \in SUBSET Paths, NEW seen, Changes(seen, T),
           \A t \in Targets : Tells(seen[t], T, Watched[t], disk')
    PROVE  RowsInv'
<1> SUFFICES ASSUME ~unrecorded'
             PROVE  /\ \A t \in Targets : Exact(records'[t], renameQueue'[t], Watched[t])
                    /\ \A t \in Targets : \A p \in Paths \ silent' : LastSays(records'[t], p, disk'[p])
                    /\ \A p \in Monitored \ silent' : Pending(p)' \/ (row'[p] \in PendingActions <=> disk'[p] # Absent)
    BY Zenon DEF RowsInv, PendingActions
<1>1. /\ records' = [t \in Targets |-> IF watcher[t] = "running" THEN records[t] \o seen[t] ELSE records[t]]
      /\ renameQueue' = renameQueue /\ row' = row
      /\ \A p \in Paths \ silent' : p \in T \/ (p \notin silent /\ disk'[p] = disk[p])
    BY DEF Changes
<1>2. /\ ~unrecorded
      /\ \A p \in T \intersect Monitored : \E t \in Targets : p \in Watched[t] /\ watcher[t] # "stopped"
    BY Zenon DEF Changes
<1>3. /\ \A t \in Targets : Exact(records[t], renameQueue[t], Watched[t])
      /\ \A t \in Targets : \A p \in Paths \ silent : LastSays(records[t], p, disk[p])
      /\ \A p \in Monitored \ silent : Pending(p) \/ (row[p] \in PendingActions <=> disk[p] # Absent)
    BY <1>2 DEF RowsInv
<1>4. /\ records \in [Targets -> Buffer] /\ watcher \in [Targets -> {"running", "stopped"}]
      /\ \A t \in Targets : watcher[t] = "stopped" => records[t] = <<>>
    BY DEF TypeInv, IInv, EventsAreTyped, Buffer, Watchers
<1>5. \A t \in Targets : \/ watcher[t] = "running" /\ records'[t] = records[t] \o seen[t]
                         \/ watcher[t] = "stopped" /\ records[t] = <<>> /\ records'[t] = <<>>
    BY <1>1, <1>4
<1>6. ASSUME NEW t \in Targets
      PROVE  Exact(records'[t], renameQueue'[t], Watched[t])
  <2>1. CASE records'[t] = records[t] \o seen[t]
    <3>1. Exact(records[t] \o seen[t], renameQueue[t], Watched[t])
        BY <1>3, <1>4, ExactConcat
    <3>2. QED
        BY <1>1, <2>1, <3>1
  <2>2. CASE records'[t] = records[t]
      BY <1>1, <1>3, <2>2
  <2>3. QED
      BY <1>5, <2>1, <2>2
<1>7. ASSUME NEW t \in Targets, NEW p \in Paths \ silent'
      PROVE  LastSays(records'[t], p, disk'[p])
  <2>1. CASE records'[t] = records[t] \o seen[t]
    <3>1. \A i \in 1..Len(records[t]) : Concerns(records[t][i], p) => p \in Watched[t]
        BY <1>3 DEF Exact
    <3>2. p \in T \/ (LastSays(records[t], p, disk[p]) /\ disk[p] = disk'[p])
        BY <1>1, <1>3
    <3>3. records[t] \in Buffer /\ Tells(seen[t], T, Watched[t], disk')
        BY <1>4
    <3>4. LastSays(records[t] \o seen[t], p, disk'[p])
        BY <3>1, <3>2, <3>3, LastSaysConcat
    <3>5. QED
        BY <2>1, <3>4
  <2>2. CASE records'[t] = <<>>
    <3>1. Len(<<>>) = 0
        BY EmptySeq
    <3>2. QED
        BY <2>2, <3>1 DEF LastSays
  <2>3. QED
      BY <1>5, <2>1, <2>2
<1>8. ASSUME NEW p \in Monitored \ silent', ~Pending(p)'
      PROVE  row'[p] \in PendingActions <=> disk'[p] # Absent
  <2>1. p \in Paths
      BY MonitorAssumption DEF Monitored
  <2>2. \A t \in Targets : \A i \in 1..Len(records'[t]) : ~Concerns(records'[t][i], p)
      BY <1>8 DEF Pending
  <2>3. p \notin T
    <3> SUFFICES ASSUME p \in T
                 PROVE  FALSE
        OBVIOUS
    <3>1. PICK t \in Targets : p \in Watched[t] /\ watcher[t] # "stopped"
        BY <1>2
    <3>2. records'[t] = records[t] \o seen[t]
        BY <1>5, <3>1
    <3>3. seen[t] \in Buffer /\ records[t] \in Buffer
        BY <1>4 DEF Tells
    <3>4. PICK i \in 1..Len(seen[t]) : Concerns(seen[t][i], p)
        BY <3>1 DEF Tells
    <3> DEFINE m == Len(records[t])
    <3>5. /\ (records[t] \o seen[t])[i + m] = seen[t][i]
          /\ Len(records[t] \o seen[t]) = m + Len(seen[t])
        BY <3>3, ConcatFacts
    <3>6. m \in Nat /\ Len(seen[t]) \in Nat
        BY <3>3, BufferFacts
    <3>7. Concerns(records'[t][i + m], p) /\ Len(records'[t]) = m + Len(seen[t])
        BY <3>2, <3>4, <3>5
    <3> HIDE DEF m
    <3>8. i + m \in 1..Len(records'[t])
        BY <3>4, <3>6, <3>7
    <3>9. QED
        BY <2>2, <3>7, <3>8
  <2>4. ~Pending(p)
    <3>1. ASSUME NEW t \in Targets, NEW i \in 1..Len(records[t]), Concerns(records[t][i], p)
          PROVE  FALSE
      <4>1. CASE records'[t] = records[t] \o seen[t]
        <5>1. seen[t] \in Buffer /\ records[t] \in Buffer
            BY <1>4 DEF Tells
        <5>2. i \in 1..Len(records[t] \o seen[t]) /\ (records[t] \o seen[t])[i] = records[t][i]
            BY <5>1, ConcatFacts
        <5>3. QED
            BY <2>2, <3>1, <4>1, <5>2
      <4>2. CASE records'[t] = records[t]
          BY <2>2, <3>1, <4>2
      <4>3. QED
          BY <1>5, <4>1, <4>2
    <3>2. QED
        BY <3>1 DEF Pending
  <2>5. disk'[p] = disk[p] /\ p \notin silent
      BY <1>1, <2>1, <2>3
  <2>6. QED
      BY <1>1, <1>3, <2>4, <2>5
<1>9. QED
    BY <1>6, <1>7, <1>8

(* No record, and one record that is no half of a rename.                    *)
LEMMA TellsNothing ==
    ASSUME NEW T, NEW W, NEW d, \A p \in T : p \notin W
    PROVE  Tells(<<>>, T, W, d)
<1>1. Len(<<>>) = 0 /\ <<>> \in Buffer
    BY EmptySeq DEF Buffer
<1>2. OldFollowed(<<>>)
    BY <1>1 DEF OldFollowed
<1>3. QED
    BY <1>1, <1>2 DEF Tells

(* One record tells a creation, a write or a removal, also that of one end   *)
(* of a rename.                                                              *)
LEMMA TellsOne ==
    ASSUME NEW p \in Paths, NEW a \in {"added", "modified", "removed"}, NEW T, NEW W, NEW d,
           p \in W, \A q \in T : q \in W => q = p,
           a = "removed" <=> d[p] = Absent
    PROVE  Tells(<<Rec(a, p, None)>>, T, W, d)
<1> DEFINE r == Rec(a, p, None)
           x == <<r>>
<1>1. r \in ChangeRecord /\ r # NoBytes /\ r.action = a /\ r.path = p
    BY MonitorAssumption DEF Rec, ChangeRecord, NoBytes
<1>2. \A q \in Paths : /\ Concerns(r, q) <=> q = p
                       /\ Here(r, q) <=> q = p /\ a # "removed"
    BY <1>1 DEF Concerns, Here, Gone
<1>3. Concerns(r, p)
    BY <1>2
<1>4. r \in ChangeRecord \union {NoBytes}
    BY <1>1
<1> HIDE DEF r
<1>5. x \in Buffer /\ Len(x) = 1 /\ x[1] = r
    BY <1>4 DEF Buffer
<1> HIDE DEF x
<1>6. \A i \in 1..Len(x) : x[i] = r
    BY <1>5
<1>7. 1 \in 1..Len(x)
    BY <1>5
<1>8. OldFollowed(x)
    BY <1>1, <1>6 DEF OldFollowed
<1>9. \A i \in 1..Len(x) : x[i] # NoBytes /\ \A q \in Paths : Concerns(x[i], q) => q \in W
    BY <1>1, <1>2, <1>6
<1>10. \A i \in 1..Len(x) : x[i].action # "renamedNew"
    BY <1>1, <1>6
<1>11. \A q \in T : q \in W => \E i \in 1..Len(x) : Concerns(x[i], q)
    BY <1>3, <1>6, <1>7
<1>12. \A i \in 1..Len(x) : \A q \in Paths : Concerns(x[i], q) => (Here(x[i], q) <=> d[q] # Absent)
    BY <1>2, <1>6
<1>13. Tells(x, T, W, d)
    BY <1>5, <1>8, <1>9, <1>10, <1>11, <1>12, Zenon DEF Tells
<1>14. QED
    BY <1>13 DEF x, r

(* Both halves of a rename.                                                  *)
LEMMA TellsRename ==
    ASSUME NEW p \in Paths, NEW n \in Paths, p # n, NEW W, NEW d, p \in W, n \in W,
           d[p] = Absent, d[n] # Absent
    PROVE  Tells(<<Rec("renamedOld", p, None), Rec("renamedNew", n, p)>>, {p, n}, W, d)
<1> DEFINE a == Rec("renamedOld", p, None)
           b == Rec("renamedNew", n, p)
           x == <<a, b>>
<1>1. /\ a \in ChangeRecord /\ a # NoBytes /\ a.action = "renamedOld" /\ a.path = p
      /\ b \in ChangeRecord /\ b # NoBytes /\ b.action = "renamedNew" /\ b.path = n /\ b.from = p
    BY MonitorAssumption DEF Rec, ChangeRecord, NoBytes
<1>2. \A q : /\ ~Concerns(a, q)
             /\ Concerns(b, q) <=> q \in {p, n}
             /\ Here(b, q) <=> q = n
    BY <1>1 DEF Concerns, Here, Gone
<1>3. a \in ChangeRecord \union {NoBytes} /\ b \in ChangeRecord \union {NoBytes}
    BY <1>1
<1> HIDE DEF a, b
<1>4. x \in Buffer /\ Len(x) = 2 /\ x[1] = a /\ x[2] = b
    BY <1>3 DEF Buffer
<1> HIDE DEF x
<1>5. \A i \in 1..Len(x) : (i = 1 /\ x[i] = a) \/ (i = 2 /\ x[i] = b)
    BY <1>4
<1>6. 1 \in 1..Len(x) /\ 2 \in 1..Len(x)
    BY <1>4
<1>7. OldFollowed(x)
  <2>1. ASSUME NEW i \in 1..Len(x), x[i].action = "renamedOld"
        PROVE  i + 1 \in 1..Len(x) /\ x[i + 1].action = "renamedNew" /\ x[i + 1].from = x[i].path
    <3>1. i = 1 /\ x[i] = a
        BY <1>1, <1>5, <2>1
    <3>2. QED
        BY <1>1, <1>4, <1>6, <3>1
  <2>2. QED
      BY <2>1 DEF OldFollowed
<1>8. \A i \in 1..Len(x) : x[i] # NoBytes /\ \A q \in Paths : Concerns(x[i], q) => q \in W
    BY <1>1, <1>2, <1>5
<1>9. \A i \in 1..Len(x) : x[i].action = "renamedNew" =>
          /\ x[i].from # x[i].path
          /\ i > 1 /\ x[i - 1].action = "renamedOld"
  <2> SUFFICES ASSUME NEW i \in 1..Len(x), x[i].action = "renamedNew"
               PROVE  x[i].from # x[i].path /\ i > 1 /\ x[i - 1].action = "renamedOld"
      OBVIOUS
  <2>1. i = 2 /\ x[i] = b
      BY <1>1, <1>5
  <2>2. i - 1 = 1 /\ i > 1
      BY <2>1
  <2>3. QED
      BY <1>1, <1>4, <2>1, <2>2
<1>10. \A q \in {p, n} : q \in W => \E i \in 1..Len(x) : Concerns(x[i], q)
    BY <1>2, <1>4, <1>6
<1>11. \A i \in 1..Len(x) : \A q \in Paths : Concerns(x[i], q) => (Here(x[i], q) <=> d[q] # Absent)
    BY <1>2, <1>5
<1>12. Tells(x, {p, n}, W, d)
    BY <1>4, <1>7, <1>8, <1>9, <1>10, <1>11, Zenon DEF Tells
<1>13. QED
    BY <1>12 DEF x, a, b

(* Creating, writing or removing a file or a directory.                      *)
LEMMA RowsOfChange ==
    ASSUME TypeInv, RowsInv, NEW p \in Paths, NEW a \in {"added", "modified", "removed"}, Change(p, a)
    PROVE  RowsInv'
<1> DEFINE seen == [t \in Targets |-> IF p \in Watched[t] THEN <<Rec(a, p, None)>> ELSE <<>>]
<1>1. Changes(seen, {p})
    BY DEF Change
<1>2. /\ disk \in [Paths -> {Absent, Directory} \union (1..MaxOps)] /\ ops \in Nat
    BY MonitorAssumption DEF TypeInv, IInv, EventsAreTyped
<1>3. a = "removed" <=> disk'[p] = Absent
    BY <1>2 DEF Change, Absent, Directory
<1>4. ASSUME NEW t \in Targets
      PROVE  Tells(seen[t], {p}, Watched[t], disk')
  <2>1. CASE p \in Watched[t]
      BY <1>3, <2>1, TellsOne
  <2>2. CASE p \notin Watched[t]
      BY <2>2, TellsNothing
  <2>3. QED
      BY <2>1, <2>2
<1> HIDE DEF seen
<1>5. {p} \in SUBSET Paths
    OBVIOUS
<1>6. QED
    BY <1>1, <1>4, <1>5, RowsChange

(* Renaming or moving one.                                                   *)
LEMMA RowsOfRename ==
    ASSUME TypeInv, RowsInv, NEW p \in Paths, NEW n \in Paths, Rename(p, n)
    PROVE  RowsInv'
<1> DEFINE seen == [t \in Targets |->
              CASE {p, n} \subseteq Watched[t] -> <<Rec("renamedOld", p, None), Rec("renamedNew", n, p)>>
                [] p \in Watched[t] /\ n \notin Watched[t] -> <<Rec("removed", p, None)>>
                [] p \notin Watched[t] /\ n \in Watched[t] -> <<Rec("added", n, None)>>
                [] OTHER -> <<>>]
<1>1. Changes(seen, {p, n}) /\ p # n
    BY DEF Rename
<1>3. disk'[p] = Absent /\ disk'[n] # Absent
    BY RenameDisk
<1>4. ASSUME NEW t \in Targets
      PROVE  Tells(seen[t], {p, n}, Watched[t], disk')
  <2>1. CASE p \in Watched[t] /\ n \in Watched[t]
    <3>1. seen[t] = <<Rec("renamedOld", p, None), Rec("renamedNew", n, p)>>
        BY <2>1
    <3> HIDE DEF seen
    <3>2. QED
        BY <1>1, <1>3, <2>1, <3>1, TellsRename
  <2>2. CASE p \in Watched[t] /\ n \notin Watched[t]
    <3>1. seen[t] = <<Rec("removed", p, None)>>
        BY <2>2
    <3> HIDE DEF seen
    <3>2. "removed" \in {"added", "modified", "removed"} /\ \A q \in {p, n} : q \in Watched[t] => q = p
        BY <2>2
    <3>3. QED
        BY <1>3, <2>2, <3>1, <3>2, TellsOne
  <2>3. CASE p \notin Watched[t] /\ n \in Watched[t]
    <3>1. seen[t] = <<Rec("added", n, None)>>
        BY <2>3
    <3> HIDE DEF seen
    <3>2. "added" \in {"added", "modified", "removed"} /\ \A q \in {p, n} : q \in Watched[t] => q = n
        BY <2>3
    <3>3. QED
        BY <1>3, <2>3, <3>1, <3>2, TellsOne
  <2>4. CASE p \notin Watched[t] /\ n \notin Watched[t]
    <3>1. seen[t] = <<>>
        BY <2>4
    <3> HIDE DEF seen
    <3>2. QED
        BY <2>4, <3>1, TellsNothing
  <2>5. QED
      BY <2>1, <2>2, <2>3, <2>4
<1>5. {p, n} \in SUBSET Paths
    OBVIOUS
<1> HIDE DEF seen
<1>6. QED
    BY <1>1, <1>4, <1>5, RowsChange

(* RowsInv holds at first and is kept.                                       *)
LEMMA RowsInit == Init => RowsInv
<1> SUFFICES ASSUME Init
             PROVE  /\ \A t \in Targets : Exact(records[t], renameQueue[t], Watched[t])
                    /\ \A t \in Targets : \A p \in Paths \ silent : LastSays(records[t], p, disk[p])
                    /\ \A p \in Monitored \ silent : Pending(p) \/ (row[p] \in PendingActions <=> disk[p] # Absent)
    BY Zenon DEF RowsInv, PendingActions
<1>1. Len(<<>>) = 0
    BY EmptySeq
<1>2. OldFollowed(<<>>)
    BY <1>1 DEF OldFollowed
<1>3. \A W : Exact(<<>>, <<>>, W)
    BY <1>1, <1>2 DEF Exact
<1>4. \A t \in Targets : records[t] = <<>> /\ renameQueue[t] = <<>>
    BY DEF Init, MonitorInit
<1>5. \A t \in Targets : \A p \in Paths \ silent : LastSays(records[t], p, disk[p])
    BY <1>1, <1>4 DEF LastSays
<1>6. ASSUME NEW p \in Monitored \ silent
      PROVE  row[p] \in PendingActions <=> disk[p] # Absent
  <2>1. p \in Paths
      BY MonitorAssumption DEF Monitored
  <2>2. row[p] = None /\ disk[p] = Absent
      BY <2>1 DEF Init, MonitorInit
  <2>3. QED
      BY <2>2, MonitorAssumption DEF PendingActions, Actions
<1>7. QED
    BY <1>3, <1>4, <1>5, <1>6

(* Ageing changes no path that waits.                                        *)
LEMMA ExactTick ==
    ASSUME NEW rs, NEW q \in Seq(Waiting), NEW W, Exact(rs, q, W)
    PROVE  Exact(rs, [i \in DOMAIN q |-> [q[i] EXCEPT !.age = Capped(@)]], W)
<1> DEFINE z == [i \in DOMAIN q |-> [q[i] EXCEPT !.age = Capped(@)]]
<1>1. Len(q) \in Nat /\ DOMAIN q = 1..Len(q) /\ \A i \in 1..Len(q) : q[i] \in Waiting
    BY LenProperties, ElementOfSeq
<1>2. Len(z) = Len(q) /\ DOMAIN z = 1..Len(q)
    BY <1>1
<1>3. ASSUME Len(q) = 1
      PROVE  Len(z) = 1 /\ z[1].path = q[1].path
  <2>1. 1 \in DOMAIN q /\ q[1] \in Waiting
      BY <1>1, <1>3
  <2>2. z[1] = [q[1] EXCEPT !.age = Capped(@)]
      BY <2>1
  <2>3. \A x \in Waiting : [x EXCEPT !.age = Capped(@)].path = x.path
      BY DEF Waiting
  <2>4. QED
      BY <1>2, <1>3, <2>1, <2>2, <2>3
<1>4. ASSUME q = <<>>
      PROVE  z = <<>>
    BY <1>4
<1> HIDE DEF z
<1>5. Exact(rs, z, W)
    BY <1>3, <1>4 DEF Exact
<1>6. QED
    BY <1>5 DEF z

(* A read that returns nothing cannot happen before a record is lost, and a  *)
(* failing read leaves the buffers as they are or loses records.             *)
LEMMA RowsRead ==
    ASSUME TypeInv, RowsInv, NEW t \in Targets, read_nothing(t) \/ read_fails(t)
    PROVE  RowsInv'
<1> SUFFICES ASSUME ~unrecorded'
             PROVE  RowsInv'
    BY Zenon DEF RowsInv
<1>1. /\ records \in [Targets -> Buffer] /\ disk' = disk /\ row' = row /\ renameQueue' = renameQueue
      /\ silent' = silent
    BY DEF TypeInv, IInv, EventsAreTyped, Buffer, read_nothing, read_fails, envVars
<1>2. ~unrecorded
    BY Zenon DEF read_nothing, read_fails
<1>3. ~read_nothing(t)
  <2> SUFFICES ASSUME read_nothing(t)
               PROVE  FALSE
      OBVIOUS
  <2>1. records[t] # <<>> /\ Head(records[t]) = NoBytes
      BY DEF read_nothing
  <2>2. records[t] \in Buffer
      BY <1>1
  <2>3. Head(records[t]) = records[t][1] /\ 1 \in 1..Len(records[t])
      BY <2>1, <2>2, BufferFacts
  <2>4. Exact(records[t], renameQueue[t], Watched[t])
      BY <1>2 DEF RowsInv
  <2>5. QED
      BY <2>1, <2>3, <2>4 DEF Exact
<1>4. records' = records
  <2>1. CASE /\ records' = [records EXCEPT ![t] = <<>>]
             /\ unrecorded' = (unrecorded \/ records[t] # <<>> \/ renameQueue[t] # <<>>)
    <3>1. records[t] = <<>>
        BY <2>1, Zenon
    <3>2. QED
        BY <1>1, <2>1, <3>1
  <2>2. CASE records' = records
      BY <2>2
  <2>3. QED
      BY <1>3, <2>1, <2>2 DEF read_fails
<1>5. QED
    BY <1>1, <1>2, <1>4 DEF RowsInv, Pending

(* A second that passes keeps RowsInv.                                       *)
LEMMA RowsTick ==
    ASSUME TypeInv, RowsInv, Tick
    PROVE  RowsInv'
<1>1. records' = records /\ disk' = disk /\ row' = row /\ unrecorded' = unrecorded /\ silent' = silent
    BY DEF Tick, MonitorAges, envVars
<1>2. ASSUME NEW t \in Targets, ~unrecorded
      PROVE  Exact(records'[t], renameQueue'[t], Watched[t])
  <2>1. renameQueue[t] \in Seq(Waiting) /\ Exact(records[t], renameQueue[t], Watched[t])
      BY <1>2 DEF TypeInv, IInv, EventsAreTyped, RowsInv
  <2>2. renameQueue'[t] = [i \in DOMAIN renameQueue[t] |-> [renameQueue[t][i] EXCEPT !.age = Capped(@)]]
      BY DEF Tick, MonitorAges
  <2>3. QED
      BY <1>1, <2>1, <2>2, ExactTick
<1>3. ASSUME NEW p, Pending(p)
      PROVE  Pending(p)'
    BY <1>1, <1>3 DEF Pending
<1>4. QED
    BY <1>1, <1>2, <1>3 DEF RowsInv

(* Every step.                                                               *)
LEMMA RowsKept == TypeInv /\ RowsInv /\ [Next]_vars => RowsInv'
<1> SUFFICES ASSUME TypeInv, RowsInv, [Next]_vars
             PROVE  RowsInv'
    OBVIOUS
<1>1. CASE MonitorNext
  <2>1. ASSUME NEW t \in Targets, overflow(t)
        PROVE  RowsInv'
    <3>1. unrecorded'
        BY <2>1 DEF overflow
    <3>2. QED
        BY <3>1, Zenon DEF RowsInv
  <2>2. QED
      BY <1>1, <2>1, RowsOfChange, RowsOfRename, RowsDispatch, RowsRead DEF MonitorNext
<1>2. CASE Tick
    BY <1>2, RowsTick
<1>3. CASE UNCHANGED <<records, renameQueue, disk, row, unrecorded, silent>>
    BY <1>3 DEF RowsInv, Pending
<1>4. CASE SetBackupEnabled \/ consume \/ UNCHANGED vars
    BY <1>3, <1>4 DEF SetBackupEnabled, consume, vars, monitorVars, envVars, monVars, hisVars
<1>5. CASE \E j \in Jobs : Goroutine(j)
    BY <1>3, <1>5 DEF Goroutine, poll, deadline, backupFile, upload_done, upload_fails, deferred, Set, GivesUp,
       monitorVars, envVars, monVars, hisVars
<1>6. QED
    BY <1>1, <1>2, <1>4, <1>5 DEF Next

(* RowsFollowDisk: while no record and no row is lost, the rows of the       *)
(* monitored paths that have had a record since they were last found or      *)
(* moved without one agree with the disk whenever all records have been      *)
(* read, however many targets watch a path and in whichever order they read  *)
(* it.                                                                       *)
THEOREM RowsAreRight == Spec => []RowsFollowDisk
<1>1. RowsInv => RowsFollowDisk
  <2> SUFFICES ASSUME RowsInv, Drained, ~unrecorded, NEW p \in Monitored \ silent
               PROVE  row[p] \in PendingActions <=> disk[p] # Absent
      BY Zenon DEF RowsFollowDisk, ChangePending, PendingActions
  <2>1. Len(<<>>) = 0
      BY EmptySeq
  <2>2. ~Pending(p)
      BY <2>1 DEF Pending, Drained
  <2>3. QED
      BY <2>2 DEF RowsInv
<1>2. QED
    BY <1>1, TypeInit, TypeStep, RowsInit, RowsKept, PTL DEF Spec
=============================================================================
