------------------------ MODULE FileTreeSync_proofs ------------------------
(***************************************************************************)
(* Theorems about FileTreeSync for any finite tree of paths, any limit of  *)
(* rows per sync and any number of frames in flight.                       *)
(*                                                                         *)
(* NoOrphans: only the fallback of a failed delete takes a folder off the  *)
(* list (FoldersStay), because the ids that an agent reports are never     *)
(* folder ids (IdsOfFiles).                                                *)
(*                                                                         *)
(* OneItemPerFile: every file id that the backend has, that is on the wire *)
(* or that the running sync has built is the id stored in the row, unless  *)
(* it could not be stored (OneId).                                         *)
(* The sync works on a copy of the rows; it never overwrites an id, since  *)
(* the paths of a query differ and only the sync writes ids (BatchCopy).   *)
(*                                                                         *)
(* SyncedReachedBackend: nothing ever claims that a file that was never    *)
(* removed is gone (Truthful), every row of the query is in the frame or   *)
(* was skipped (BuiltFromBatch), so a cleared row is either listed or its  *)
(* change is still on the wire (Delivered).                                *)
(***************************************************************************)
EXTENDS FileTreeSync, Subsequence_proofs, FiniteSetTheorems

FrameType == Seq(Change) \ {<<>>}

\* The changes of a sequence of frames.
ChangesOf(w) == UNION {Elems(frame) : frame \in Elems(w)}

OnWire == ChangesOf(wire)

Reported == OnWire \union (Elems(changes) \ {NoChange})

IdsOfFiles ==
    /\ \A p \in Paths : rows[p] # NoRow => rows[p].at > 0
    /\ \A r \in Elems(batch) : r.row.at > 0
    /\ \A c \in Reported : c.id[2] > 0

FoldersStay ==
    \A q \in Paths \ byPath : FolderId(q) \in items => FolderId(q) \in live

OneId ==
    /\ \A id \in items \ unstored :
          id[2] > 0 => rows[id[1]] # NoRow /\ rows[id[1]].item = id[2]
    /\ \A c \in Reported :
          c.id \notin unstored => rows[c.id[1]] # NoRow /\ rows[c.id[1]].item = c.id[2]

BatchCopy ==
    /\ \A i, j \in 1..Len(batch) : i # j => batch[i].path # batch[j].path
    /\ \A i \in 1..Len(batch) :
          /\ rows[batch[i].path] # NoRow
          /\ i > Len(changes) => rows[batch[i].path].item = batch[i].row.item

BuiltFromBatch ==
    /\ \A i \in 1..Len(changes) :
          IF changes[i] = NoChange THEN batch[i].path \in skipped
          ELSE changes[i].id[1] = batch[i].path
    /\ \A c \in Reported : c.id[1] \notin Dirs => ~c.isDir
    /\ sync = "clear" => Len(changes) = Len(batch)

Truthful ==
    \A p \in Paths \ removed :
        /\ \A e \in Elems(events) : e[2] = p => p \in present /\ e[1] \notin Gone
        /\ rows[p] # NoRow => p \in present /\ rows[p].action \notin Gone
        /\ \A r \in Elems(batch) : r.path = p => r.row.action \notin Gone
        /\ \A c \in Reported : c.id[1] = p => ~c.deleted
        /\ \A id \in items : id[1] = p => id \in live

Known(p) == FileIdsOf(p) # {} \/ \E c \in OnWire : c.id[1] = p

Delivered ==
    ~dropped =>
        \A p \in Paths \ (Dirs \union removed \union skipped) :
            /\ rows[p] # NoRow /\ ~rows[p].pending => Known(p)
            /\ sync = "clear" /\ InBatch(p) => Known(p)

IInv ==
    /\ TypeOK
    /\ IdsOfFiles
    /\ FoldersStay
    /\ NoOrphans
    /\ OneId
    /\ BatchCopy
    /\ BuiltFromBatch
    /\ Truthful
    /\ Delivered

-----------------------------------------------------------------------------
(* The folders above a path are directories, and so are the ones above them. *)
LEMMA AboveFacts ==
    ASSUME NEW p \in Paths, NEW q \in Above(p)
    PROVE  /\ q \in Dirs /\ q \in Paths
           /\ \A x \in Above(q) : x \in Above(p) /\ Len(x) <= Len(q)
<1>1. p \in Seq(Range(p)) /\ Len(p) \in Nat /\ q \in Dirs /\ q \in Paths
    BY TreeAssumption, LenProperties
<1>2. PICK n \in 1..(Len(p) - 1) : q = SubSeq(p, 1, n)
    BY DEF Above
<1>3. n \in 1..Len(p) /\ 1 \in 1..Len(p) /\ n \in Int
    BY <1>1, <1>2
<1>4. q \in Seq(Range(p)) /\ Len(q) = n
  <2>1. \A i \in 1..n : p[i] \in Range(p)
      BY <1>1, <1>3, ElementOfSeq
  <2>2. QED
      BY <1>2, <1>3, <2>1, SubSeqProperties
<1>5. ASSUME NEW x \in Above(q)
      PROVE  x \in Above(p) /\ Len(x) <= Len(q)
  <2>1. PICK m \in 1..(n - 1) : x = SubSeq(q, 1, m)
      BY <1>4 DEF Above
  <2>2. m \in 1..(n - 1 + 1) /\ 1 \in 1..(n - 1 + 1) /\ m \in Int
      BY <1>3, <2>1
  <2>3. x = SubSeq(p, 1 + 1 - 1, 1 + m - 1)
      BY <1>1, <1>2, <1>3, <2>1, <2>2, SubSeqOfSubSeq
  <2>4. x = SubSeq(p, 1, m)
      BY <2>2, <2>3
  <2>5. m \in 1..(Len(p) - 1) /\ m <= n
      BY <1>1, <1>3, <2>1
  <2>6. Len(x) = m
    <3>1. \A i \in 1..m : p[i] \in Range(p)
        BY <1>1, <1>3, <2>1, ElementOfSeq
    <3>2. QED
        BY <2>2, <2>4, <3>1, SubSeqProperties
  <2>7. QED
      BY <1>4, <2>4, <2>5, <2>6 DEF Above
<1>6. QED
    BY <1>1, <1>5

(* The set of elements and the range of a sequence.                          *)
LEMMA RangeElems ==
    ASSUME NEW M, NEW q \in Seq(M)
    PROVE  Range(q) = Elems(q) /\ Elems(q) \subseteq M
BY RangeEquality, RangeOfSeq DEF Elems

(* Sequences that do not change keep their elements.                         *)
LEMMA SameElems ==
    /\ batch' = batch => Elems(batch)' = Elems(batch)
    /\ events' = events => Elems(events)' = Elems(events)
    /\ wire' = wire => OnWire' = OnWire
    /\ wire' = wire /\ changes' = changes => Reported' = Reported
BY DEF Elems, OnWire, ChangesOf, Reported

(* The elements after a step are those of the new sequences.                 *)
LEMMA PrimedElems ==
    /\ Elems(batch)' = Elems(batch') /\ Elems(events)' = Elems(events')
    /\ Elems(changes)' = Elems(changes') /\ OnWire' = ChangesOf(wire')
    /\ Reported' = OnWire' \union (Elems(changes') \ {NoChange})
BY DEF Elems, OnWire, ChangesOf, Reported

(* The mark of a failed stat is not a change.                                *)
LEMMA ChangeIsNoNoChange == NoChange \notin Change
BY DEF NoChange, Change

(* A frame has exactly the changes that were built.                          *)
LEMMA FrameElems ==
    ASSUME TypeOK
    PROVE  /\ Frame \in Seq(Change)
           /\ Elems(Frame) = Elems(changes) \ {NoChange}
           /\ Elems(changes) \ {NoChange} \subseteq Change
<1> DEFINE M == Change \union {NoChange}
           S == Range(changes) \ {NoChange}
<1>1. changes \in Seq(M)
    BY DEF TypeOK
<1>2. Range(changes) = Elems(changes) /\ Elems(changes) \subseteq M
    BY <1>1, RangeElems
<1>3. Frame \in Seq(M) /\ Elems(Frame) = Elems(changes) \intersect S
    BY <1>1, SubsequenceElems DEF Frame
<1>4. Elems(Frame) = Elems(changes) \ {NoChange} /\ Elems(changes) \ {NoChange} \subseteq Change
    BY <1>2, <1>3
<1>5. Frame \in Seq(Change)
  <2>1. Frame \in Seq(Elems(Frame))
      BY <1>3, SeqOfRange, RangeElems
  <2>2. QED
      BY <2>1, <1>4, SeqMonotonic
<1>6. QED
    BY <1>4, <1>5

(* The wire: the head frame has a head change; to apply a change takes away   *)
(* no other one, and adds none.                                              *)
LEMMA HeadOnWire ==
    ASSUME wire \in Seq(FrameType), wire # <<>>
    PROVE  /\ Head(wire) \in Seq(Change) /\ Head(wire) # <<>> /\ HeadChange \in Change
           /\ Tail(wire) \in Seq(FrameType) /\ Len(Tail(wire)) = Len(wire) - 1 /\ Len(wire) \in Nat \ {0}
           /\ ChangesOf(wire) = {HeadChange} \union Elems(Tail(Head(wire))) \union ChangesOf(Tail(wire))
<1>1. /\ Head(wire) \in FrameType /\ Tail(wire) \in Seq(FrameType)
      /\ Len(Tail(wire)) = Len(wire) - 1 /\ Len(wire) \in Nat \ {0}
      /\ Elems(wire) = {Head(wire)} \union Elems(Tail(wire))
    BY HeadTailElems
<1>2. Head(wire) \in Seq(Change) /\ Head(wire) # <<>>
    BY <1>1 DEF FrameType
<1>3. HeadChange \in Change /\ Elems(Head(wire)) = {HeadChange} \union Elems(Tail(Head(wire)))
    BY <1>2, HeadTailElems DEF HeadChange
<1>4. ChangesOf(wire) = Elems(Head(wire)) \union ChangesOf(Tail(wire))
    BY <1>1, Zenon DEF ChangesOf
<1>5. QED
    BY <1>1, <1>2, <1>3, <1>4

(* Going to the next change takes the first one off the wire.                *)
LEMMA NextChangeWire ==
    ASSUME wire \in Seq(FrameType), wire # <<>>, NextChange
    PROVE  /\ wire' \in Seq(FrameType) /\ Len(wire') <= Len(wire)
           /\ OnWire = {HeadChange} \union OnWire'
<1>1. /\ Head(wire) \in Seq(Change) /\ Head(wire) # <<>> /\ HeadChange \in Change
      /\ Tail(wire) \in Seq(FrameType) /\ Len(Tail(wire)) = Len(wire) - 1 /\ Len(wire) \in Nat \ {0}
      /\ ChangesOf(wire) = {HeadChange} \union Elems(Tail(Head(wire))) \union ChangesOf(Tail(wire))
    BY HeadOnWire
<1>2. /\ Tail(Head(wire)) \in Seq(Change) /\ Len(Tail(Head(wire))) = Len(Head(wire)) - 1
      /\ Len(Head(wire)) \in Nat \ {0}
    BY <1>1, HeadTailElems
<1>3. CASE Len(Head(wire)) = 1
  <2>1. wire' = Tail(wire)
      BY <1>3 DEF NextChange
  <2>2. Elems(Tail(Head(wire))) = {}
      BY <1>2, <1>3 DEF Elems
  <2>3. QED
      BY <1>1, <2>1, <2>2, PrimedElems DEF OnWire
<1>4. CASE Len(Head(wire)) # 1
  <2> DEFINE t == Tail(Head(wire))
  <2>1. wire' = <<t>> \o Tail(wire)
      BY <1>4 DEF NextChange
  <2>2. t \in FrameType
    <3>1. Len(t) # 0
        BY <1>2, <1>4
    <3>2. QED
        BY <1>2, <3>1, EmptySeq DEF FrameType
  <2> HIDE DEF t
  <2>3. <<t>> \in Seq(FrameType) /\ Len(<<t>>) = 1 /\ Elems(<<t>>) = {t}
    <3>1. <<t>> \in Seq(FrameType) /\ Len(<<t>>) = 1 /\ <<t>>[1] = t
        BY <2>2
    <3>2. 1..1 = {1}
        OBVIOUS
    <3>3. QED
        BY <3>1, <3>2, Zenon DEF Elems
  <2>4. wire' \in Seq(FrameType) /\ Len(wire') = 1 + Len(Tail(wire))
      BY <1>1, <2>1, <2>3, ConcatProperties
  <2>5. Elems(wire') = {t} \union Elems(Tail(wire))
    <3>1. Range(<<t>> \o Tail(wire)) = Range(<<t>>) \union Range(Tail(wire))
        BY <1>1, <2>3, RangeConcatenation
    <3>2. Range(wire') = Elems(wire') /\ Range(Tail(wire)) = Elems(Tail(wire))
        BY <1>1, <2>4, RangeElems
    <3>3. Range(<<t>>) = {t}
        BY <2>3, RangeElems
    <3>4. QED
        BY <2>1, <3>1, <3>2, <3>3
  <2>6. ChangesOf(wire') = Elems(t) \union ChangesOf(Tail(wire))
      BY <2>5, Zenon DEF ChangesOf
  <2>7. QED
      BY <1>1, <2>4, <2>6, PrimedElems DEF OnWire, t
<1>5. QED
    BY <1>3, <1>4

(* Giving a frame up takes its changes off the wire.                         *)
LEMMA TailWire ==
    ASSUME wire \in Seq(FrameType), wire # <<>>, wire' = Tail(wire)
    PROVE  /\ wire' \in Seq(FrameType) /\ Len(wire') <= Len(wire)
           /\ OnWire' \subseteq OnWire /\ HeadChange \in OnWire
BY HeadOnWire, PrimedElems DEF OnWire

-----------------------------------------------------------------------------
(* Types.                                                                    *)
LEMMA TypeInit == Init => TypeOK
<1> SUFFICES ASSUME Init PROVE TypeOK
    OBVIOUS
<1>1. /\ <<>> \in Seq(Actions \X Paths) /\ <<>> \in Seq(Selected)
      /\ <<>> \in Seq(Change \union {NoChange}) /\ <<>> \in Seq(Seq(Change) \ {<<>>})
      /\ Len(<<>>) = 0
    BY EmptySeq
<1>2. rows \in [Paths -> Row \union {NoRow}]
    BY DEF Init
<1>3. /\ events \in Seq(Actions \X Paths) /\ batch \in Seq(Selected)
      /\ changes \in Seq(Change \union {NoChange}) /\ wire \in Seq(Seq(Change) \ {<<>>})
    BY <1>1, Zenon DEF Init
<1>4. Len(batch) <= Limit /\ Len(changes) <= Len(batch) /\ Len(wire) <= MaxWire
    BY <1>1, TreeAssumption DEF Init
<1>5. ops \in 0..MaxOps /\ faults \in 0..MaxFaults /\ clock \in Nat /\ made \in Nat /\ unstored \subseteq Ids
    BY TreeAssumption DEF Init
<1>6. QED
    BY <1>2, <1>3, <1>4, <1>5, Zenon DEF Init, TypeOK

(* The wire is a bounded sequence of frames.                                 *)
LEMMA WireType == TypeOK => wire \in Seq(FrameType) /\ Len(wire) <= MaxWire /\ Len(wire) \in Nat
<1>1. TypeOK => wire \in Seq(FrameType) /\ Len(wire) <= MaxWire
    BY DEF TypeOK, FrameType
<1>2. QED
    BY <1>1, LenProperties

(* What the user does keeps the types.                                       *)
LEMMA DiskType ==
    ASSUME TypeOK, NEW p \in Paths, Make(p) \/ Write(p) \/ Unlink(p) \/ MoveAway(p)
    PROVE  TypeOK'
<1>1. PICK action \in Actions, after \in SUBSET Paths :
          DiskOp(action, p, after) /\ watches' \subseteq watches
  <2>1. CASE Make(p)
      BY <2>1 DEF Make, TypeOK, Actions
  <2>2. CASE Write(p)
      BY <2>2 DEF Write, TypeOK, Actions
  <2>3. CASE Unlink(p)
      BY <2>3 DEF Unlink, TypeOK, Actions
  <2>4. CASE MoveAway(p)
      BY <2>4 DEF MoveAway, TypeOK, Actions
  <2>5. QED
      BY <2>1, <2>2, <2>3, <2>4
<1>2. events' \in Seq(Actions \X Paths)
  <2> DEFINE E == Actions \X Paths
             x == <<action, p>>
  <2>1. events \in Seq(E) /\ x \in E
      BY DEF TypeOK
  <2>2. Append(events, x) \in Seq(E)
    <3> HIDE DEF E, x
    <3> QED BY <2>1, AppendProperties
  <2>3. events' = Append(events, x) \/ events' = events
      BY <1>1 DEF DiskOp
  <2>4. QED
      BY <2>1, <2>2, <2>3
<1>3. /\ ops' \in 0..MaxOps /\ present' \subseteq Paths /\ removed' \subseteq Paths
      /\ missed' \subseteq Paths /\ watches' \subseteq Dirs
    BY <1>1, TreeAssumption DEF DiskOp, TypeOK
<1>4. UNCHANGED <<watchedDir, clock, rows, sync, batch, changes, skipped, made, unstored, wire, items,
                  live, dropped, byPath, faults>>
    BY <1>1 DEF DiskOp, monVars, syncVars, treeVars
<1>5. QED
    BY <1>2, <1>3, <1>4 DEF TypeOK

(* A row that is there has its fields.                                       *)
LEMMA RowFacts ==
    ASSUME TypeOK, NEW p \in Paths, rows[p] # NoRow
    PROVE  /\ rows[p] \in Row
           /\ rows[p].action \in Actions /\ rows[p].at \in Nat /\ rows[p].backup \in Nat
           /\ rows[p].pending \in BOOLEAN /\ rows[p].item \in Nat
<1>1. rows[p] \in Row
    BY DEF TypeOK
<1>2. QED
    BY <1>1 DEF Row

(* The absence of a row is not a row.                                        *)
LEMMA RowIsRow == NoRow \notin Row
BY DEF NoRow, Row

(* What the handler of an event does to the rows.                            *)
LEMMA HandledEvent ==
    ASSUME TypeOK, handleEvent
    PROVE  \E action \in Actions, p \in Paths :
              /\ <<action, p>> \in Elems(events)
              /\ events' \in Seq(Actions \X Paths) /\ Elems(events') \subseteq Elems(events)
              /\ rows' \in [Paths -> Row \union {NoRow}]
              /\ \A q \in Paths \ {p} : rows'[q] = rows[q]
              /\ \/ rows'[p] = rows[p]
                 \/ /\ rows'[p].action = action /\ rows'[p].at = clock + 1
                    /\ rows'[p].pending = (action \notin Gone)
              /\ rows[p] # NoRow => rows'[p] # NoRow /\ rows'[p].item = rows[p].item
              /\ watches' \subseteq Dirs /\ watchedDir' \subseteq Dirs
<1> DEFINE action == Head(events)[1]
           p == Head(events)[2]
           E == Actions \X Paths
<1>1. events \in Seq(E) /\ events # <<>>
    BY DEF TypeOK, handleEvent
<1>2. /\ Head(events) \in E /\ Tail(events) \in Seq(E)
      /\ Elems(events) = {Head(events)} \union Elems(Tail(events))
  <2> HIDE DEF E
  <2> QED BY <1>1, HeadTailElems
<1>3. action \in Actions /\ p \in Paths /\ <<action, p>> = Head(events)
    BY <1>2
<1>4. events' = Tail(events)
    BY DEF handleEvent
<1>5. persistMonitoredFile(p, action) \/ rows' = rows
    BY DEF handleEvent, persist_fails
<1>6. watches' \subseteq Dirs /\ watchedDir' \subseteq Dirs
  <2>1. \/ watchRecursive(p)
        \/ UNCHANGED <<watches, watchedDir>>
        \/ removeWatch(p)
      BY DEF handleEvent
  <2>2. QED
      BY <2>1 DEF TypeOK, watchRecursive, removeWatch
<1>7. events' \in Seq(Actions \X Paths)
    BY <1>2, <1>4
<1>8. <<action, p>> \in Elems(events) /\ Elems(events') \subseteq Elems(events)
    BY <1>2, <1>3, <1>4
<1> HIDE DEF action, p, E
<1>9. CASE rows' = rows
  <2>1. rows' \in [Paths -> Row \union {NoRow}]
      BY <1>9 DEF TypeOK
  <2>2. QED
      BY <1>3, <1>6, <1>7, <1>8, <1>9, <2>1, Zenon
<1>10. CASE persistMonitoredFile(p, action)
  <2> DEFINE b == IF rows[p] = NoRow THEN 0 ELSE rows[p].backup
             it == IF rows[p] = NoRow THEN 0 ELSE rows[p].item
             pend == shouldMarkPending(action)
             new == [action |-> action, at |-> clock + 1, backup |-> b, pending |-> pend, item |-> it]
  <2>1. rows' = [rows EXCEPT ![p] = new] /\ rows \in [Paths -> Row \union {NoRow}] /\ clock + 1 \in Nat
      BY <1>10 DEF persistMonitoredFile, TypeOK
  <2>2. b \in Nat /\ it \in Nat
      BY <1>3, RowFacts
  <2>3. pend \in BOOLEAN /\ pend = (action \notin Gone)
      BY DEF shouldMarkPending
  <2>4. rows[p] # NoRow => it = rows[p].item
      OBVIOUS
  <2> HIDE DEF b, it, pend
  <2>5. new \in Row
      BY <1>3, <2>1, <2>2, <2>3 DEF Row
  <2>6. new.action = action /\ new.at = clock + 1 /\ new.pending = pend /\ new.item = it
      OBVIOUS
  <2> HIDE DEF new
  <2>7. /\ rows'[p] = new /\ rows' \in [Paths -> Row \union {NoRow}]
        /\ \A q \in Paths \ {p} : rows'[q] = rows[q]
      BY <1>3, <2>1, <2>5
  <2>8. rows'[p] # NoRow
      BY <2>5, <2>7, RowIsRow
  <2>9. /\ rows'[p].action = action /\ rows'[p].at = clock + 1
        /\ rows[p] # NoRow => rows'[p].item = rows[p].item
      BY <2>4, <2>6, <2>7
  <2>10. rows'[p].pending = (action \notin Gone)
      BY <2>3, <2>6, <2>7, Zenon
  <2>11. QED
      BY <1>3, <1>6, <1>7, <1>8, <2>7, <2>8, <2>9, <2>10, Zenon
<1>11. QED
    BY <1>5, <1>9, <1>10

(* One row is stored, the others stay.                                       *)
LEMMA RowUpdated ==
    ASSUME NEW S, NEW rs \in [Paths -> S], NEW p \in Paths, NEW x \in S
    PROVE  /\ [rs EXCEPT ![p] = x] \in [Paths -> S]
           /\ [rs EXCEPT ![p] = x][p] = x
           /\ \A q \in Paths \ {p} : [rs EXCEPT ![p] = x][q] = rs[q]
OBVIOUS

(* What the end of a backup does to the rows.                                *)
LEMMA BackedUp ==
    ASSUME TypeOK, NEW p \in Paths, backed_up(p)
    PROVE  /\ rows' \in [Paths -> Row \union {NoRow}]
           /\ \A q \in Paths \ {p} : rows'[q] = rows[q]
           /\ rows[p] # NoRow /\ rows'[p] # NoRow
           /\ rows'[p].action = rows[p].action /\ rows'[p].at = rows[p].at
           /\ rows'[p].pending = rows[p].pending /\ rows'[p].item = rows[p].item
<1> DEFINE r == rows[p]
           new == [r EXCEPT !.backup = clock]
<1>1. rows' = [rows EXCEPT ![p] = new] /\ r # NoRow /\ clock \in Nat
    BY DEF backed_up, TypeOK
<1>2. r \in Row
    BY <1>1, RowFacts
<1> HIDE DEF r
<1>3. new \in Row
    BY <1>1, <1>2 DEF Row
<1>4. new.action = r.action /\ new.at = r.at /\ new.pending = r.pending /\ new.item = r.item
    BY <1>2 DEF Row
<1> HIDE DEF new
<1>5. /\ rows' \in [Paths -> Row \union {NoRow}] /\ rows'[p] = new
      /\ \A q \in Paths \ {p} : rows'[q] = rows[q]
    BY <1>1, <1>3, RowUpdated DEF TypeOK
<1>6. QED
    BY <1>1, <1>3, <1>4, <1>5, RowIsRow, Zenon DEF r

(* What the query returns.                                                   *)
LEMMA Queried ==
    ASSUME TypeOK, sync_query
    PROVE  /\ batch' \in Seq(Selected) /\ Len(batch') <= Limit /\ Len(batch') \in Nat
           /\ \A i \in 1..Len(batch') :
                 /\ batch'[i].path \in Paths /\ rows[batch'[i].path] # NoRow
                 /\ batch'[i].row = rows[batch'[i].path]
           /\ \A i, j \in 1..Len(batch') : i # j => batch'[i].path # batch'[j].path
           /\ changes' = <<>>
<1> DEFINE found == {p \in Paths : NeedsSync(p)}
           size == IF Cardinality(found) < Limit THEN Cardinality(found) ELSE Limit
<1>1. PICK taken \in Oldest(found) :
          batch' = [i \in DOMAIN taken |-> [path |-> taken[i], row |-> rows[taken[i]]]]
    BY DEF sync_query
<1>2. size \in Nat /\ size <= Limit
  <2>1. IsFiniteSet(found)
      BY FS_Subset, TreeAssumption
  <2>2. Cardinality(found) \in Nat
      BY <2>1, FS_CardinalityType
  <2> HIDE DEF found
  <2>3. QED
      BY <2>2, TreeAssumption
<1>3. /\ taken \in [1..size -> found]
      /\ \A i, j \in 1..size : i < j => taken[i] # taken[j]
    BY DEF Oldest
<1>4. \A p \in found : p \in Paths /\ rows[p] # NoRow /\ rows[p] \in Row
    BY RowFacts DEF NeedsSync
<1> HIDE DEF found, size
<1>5. batch' = [i \in 1..size |-> [path |-> taken[i], row |-> rows[taken[i]]]]
    BY <1>1, <1>3
<1>6. \A i \in 1..size : [path |-> taken[i], row |-> rows[taken[i]]] \in Selected
    BY <1>3, <1>4 DEF Selected
<1>7. batch' \in [1..size -> Selected]
    BY <1>5, <1>6
<1>8. batch' \in Seq(Selected) /\ Len(batch') = size
    BY <1>2, <1>5, <1>7
<1>9. \A i \in 1..size : batch'[i].path = taken[i] /\ batch'[i].row = rows[taken[i]]
    BY <1>5
<1>10. ASSUME NEW i \in 1..size, NEW j \in 1..size, i # j
       PROVE  taken[i] # taken[j]
    BY <1>2, <1>3, <1>10
<1>11. QED
    BY <1>2, <1>3, <1>4, <1>8, <1>9, <1>10 DEF sync_query

(* What one turn of the loop does: the id goes to the change and, unless the  *)
(* store fails, to the row.                                                   *)
LEMMA BuiltChange ==
    ASSUME TypeOK, BatchCopy, IdsOfFiles, sync_build
    PROVE  LET n == Len(changes) + 1
               r == batch[n]
               p == r.path
               c == changes'[n]
           IN  /\ n \in 1..Len(batch) /\ r \in Selected /\ r \in Elems(batch)
               /\ p \in Paths /\ rows[p] # NoRow /\ rows[p].item = r.row.item
               /\ changes' \in Seq(Change \union {NoChange}) /\ Len(changes') = n
               /\ \A i \in 1..Len(changes) : changes'[i] = changes[i]
               /\ Elems(changes') = Elems(changes) \union {c}
               /\ c \in Change /\ c # NoChange
               /\ c.id = <<p, ItemIDFor(r)>> /\ ItemIDFor(r) \in Nat /\ ItemIDFor(r) > 0
               /\ rows[p].item # 0 => ItemIDFor(r) = rows[p].item
               /\ c.isDir => p \in Dirs
               /\ c.deleted => r.row.action \in Gone
               /\ rows' \in [Paths -> Row \union {NoRow}]
               /\ \A q \in Paths \ {p} : rows'[q] = rows[q]
               /\ rows'[p] # NoRow
               /\ rows'[p].item = ItemIDFor(r) \/ (rows' = rows /\ <<p, ItemIDFor(r)>> \in unstored')
               /\ unstored \subseteq unstored' /\ unstored' \subseteq Ids /\ made' \in Nat
               /\ faults' \in 0..MaxFaults
               /\ rows'[p].action = rows[p].action /\ rows'[p].at = rows[p].at
               /\ rows'[p].pending = rows[p].pending
<1> DEFINE n == Len(changes) + 1
           r == batch[n]
           p == r.path
           M == Change \union {NoChange}
           id == ItemIDFor(r)
           here == p \in present
           new == [id |-> <<p, id>>, isDir |-> here /\ p \in Dirs,
                   deleted |-> ~here /\ r.row.action \in Gone]
           row == rows[p]
           nrow == [row EXCEPT !.item = id]
<1>1. changes \in Seq(M) /\ Len(changes) \in Nat /\ batch \in Seq(Selected) /\ Len(batch) \in Nat
    BY LenProperties DEF TypeOK
<1>2. n \in 1..Len(batch) /\ n > Len(changes)
    BY <1>1 DEF sync_build
<1>3. r \in Selected /\ r \in Elems(batch)
    BY <1>1, <1>2, ElementOfSeq DEF Elems
<1>4. p \in Paths /\ r.row \in Row
    BY <1>3 DEF Selected
<1>5. row # NoRow /\ row.item = r.row.item
    BY <1>2 DEF BatchCopy
<1>6. row \in Row
    BY <1>4, <1>5, RowFacts
<1>7. r.row.at > 0 /\ r.row.at \in Nat /\ r.row.item \in Nat
    BY <1>3, <1>4 DEF IdsOfFiles, Row
<1>8. id \in Nat /\ id > 0 /\ (row.item # 0 => id = row.item)
    BY <1>5, <1>7 DEF ItemIDFor, TypeOK
<1>9. store_item_id(r) /\ changes' = Append(changes, new)
    BY DEF sync_build
<1>10. /\ \/ rows' = rows /\ (row.item = id \/ <<p, id>> \in unstored')
          \/ rows' = [rows EXCEPT ![p] = nrow]
       /\ unstored' = unstored \/ unstored' = unstored \union {<<p, id>>}
       /\ made' = made \/ made' = made + 1
       /\ faults' = faults \/ Fault
    BY <1>5, <1>8, <1>9 DEF store_item_id
<1>11. unstored \subseteq unstored' /\ unstored' \subseteq Ids /\ made' \in Nat /\ faults' \in 0..MaxFaults
  <2> HIDE DEF p, id
  <2>1. <<p, id>> \in Ids
      BY <1>4, <1>8 DEF Ids
  <2>2. unstored \subseteq Ids /\ made \in Nat /\ faults \in 0..MaxFaults
      BY DEF TypeOK
  <2>3. QED
      BY <1>10, <2>1, <2>2, TreeAssumption DEF Fault
<1>12. new \in Change
  <2> HIDE DEF id, p, here
  <2>1. <<p, id>> \in Ids
      BY <1>4, <1>8 DEF Ids
  <2>2. QED
      BY <2>1 DEF Change
<1>13. new.id = <<p, id>> /\ (new.isDir => p \in Dirs) /\ (new.deleted => r.row.action \in Gone)
  <2> HIDE DEF id, p, here, r
  <2> QED OBVIOUS
<1> HIDE DEF id, p, here, row
<1>14. nrow \in Row
    BY <1>6, <1>8 DEF Row
<1>15. nrow.item = id /\ nrow.action = row.action /\ nrow.at = row.at /\ nrow.pending = row.pending
    BY <1>6 DEF Row
<1> HIDE DEF new, nrow, M, r
<1>16. new \in M /\ new # NoChange
    BY <1>12, ChangeIsNoNoChange DEF M
<1>17. /\ changes' \in Seq(M) /\ Len(changes') = n /\ changes'[n] = new
       /\ \A i \in 1..Len(changes) : changes'[i] = changes[i]
       /\ Elems(changes') = Elems(changes) \union {new}
    BY <1>1, <1>9, <1>16, AppendElems
<1>18. /\ rows' \in [Paths -> Row \union {NoRow}]
       /\ \A q \in Paths \ {p} : rows'[q] = rows[q]
       /\ rows'[p] # NoRow
       /\ rows'[p].item = id \/ (rows' = rows /\ <<p, id>> \in unstored')
       /\ rows'[p].action = row.action /\ rows'[p].at = row.at
       /\ rows'[p].pending = row.pending
  <2>1. CASE rows' = rows /\ (row.item = id \/ <<p, id>> \in unstored')
      BY <1>5, <2>1 DEF TypeOK, row
  <2>2. CASE rows' = [rows EXCEPT ![p] = nrow]
    <3>1. /\ rows' \in [Paths -> Row \union {NoRow}] /\ rows'[p] = nrow
          /\ \A q \in Paths \ {p} : rows'[q] = rows[q]
        BY <1>4, <1>14, <2>2, RowUpdated DEF TypeOK
    <3>2. rows'[p] # NoRow
        BY <1>14, <3>1, RowIsRow
    <3>3. QED
        BY <1>15, <3>1, <3>2, Zenon
  <2>3. QED
      BY <1>10, <2>1, <2>2
<1> HIDE DEF n
<1>19. QED
    BY <1>2, <1>3, <1>4, <1>5, <1>8, <1>12, <1>13, <1>16, <1>17, <1>18, <1>11, Zenon
       DEF n, r, p, id, row, M

(* A failed stat appends the mark to the changes.                            *)
LEMMA StatFailed ==
    ASSUME TypeOK, stat_fails
    PROVE  LET n == Len(changes) + 1
           IN  /\ n \in 1..Len(batch) /\ batch[n].path \in Paths
               /\ changes' \in Seq(Change \union {NoChange}) /\ Len(changes') = n
               /\ changes'[n] = NoChange
               /\ \A i \in 1..Len(changes) : changes'[i] = changes[i]
               /\ Elems(changes') = Elems(changes) \union {NoChange}
<1> DEFINE M == Change \union {NoChange}
<1>1. changes \in Seq(M) /\ Len(changes) \in Nat /\ batch \in Seq(Selected) /\ Len(batch) \in Nat
    BY LenProperties DEF TypeOK
<1>2. Len(changes) + 1 \in 1..Len(batch)
    BY <1>1 DEF stat_fails
<1>3. batch[Len(changes) + 1] \in Selected
    BY <1>1, <1>2, ElementOfSeq
<1>4. changes' = Append(changes, NoChange) /\ NoChange \in M
    BY DEF stat_fails
<1> HIDE DEF M
<1>5. /\ changes' \in Seq(M) /\ Len(changes') = Len(changes) + 1
      /\ changes'[Len(changes) + 1] = NoChange
      /\ \A i \in 1..Len(changes) : changes'[i] = changes[i]
      /\ Elems(changes') = Elems(changes) \union {NoChange}
    BY <1>1, <1>4, AppendElems
<1>6. QED
    BY <1>2, <1>3, <1>5 DEF M, Selected

(* To send moves the built changes to the wire and reports nothing new.       *)
LEMMA Sent ==
    ASSUME TypeOK, sync_send
    PROVE  /\ wire' \in Seq(FrameType) /\ Len(wire') <= MaxWire
           /\ OnWire' = OnWire \union (Elems(changes) \ {NoChange})
           /\ Reported' = Reported
<1>1. wire \in Seq(FrameType) /\ Len(wire) \in Nat
    BY WireType
<1>2. Frame \in FrameType /\ Elems(Frame) = Elems(changes) \ {NoChange}
    BY FrameElems DEF sync_send, FrameType
<1>3. wire' = Append(wire, Frame) /\ Len(wire) < MaxWire /\ changes' = changes
    BY DEF sync_send
<1>4. /\ wire' \in Seq(FrameType) /\ Len(wire') = Len(wire) + 1
      /\ Elems(wire') = Elems(wire) \union {Frame}
    BY <1>1, <1>2, <1>3, AppendElems
<1>5. ChangesOf(wire') = ChangesOf(wire) \union Elems(Frame)
    BY <1>4, Zenon DEF ChangesOf
<1>6. OnWire' = OnWire \union (Elems(changes) \ {NoChange})
    BY <1>2, <1>5, PrimedElems DEF OnWire
<1>7. Reported' = Reported
    BY <1>3, <1>6, PrimedElems DEF Reported
<1>8. Len(wire') <= MaxWire
    BY <1>1, <1>3, <1>4, TreeAssumption
<1>9. QED
    BY <1>4, <1>6, <1>7, <1>8

(* The paths of the query have rows.                                         *)
LEMMA BatchPaths ==
    ASSUME TypeOK, NEW p
    PROVE  InBatch(p) <=> \E i \in 1..Len(batch) : batch[i].path = p
<1>1. Range(batch) = Elems(batch)
    BY RangeElems DEF TypeOK
<1>2. QED
    BY <1>1, Zenon DEF InBatch, Elems

(* Clearing touches change_pending of the queried rows only.                 *)
LEMMA Cleared ==
    ASSUME TypeOK, BatchCopy, sync_clear
    PROVE  /\ rows' \in [Paths -> Row \union {NoRow}]
           /\ \A p \in Paths :
                 /\ rows'[p] = NoRow <=> rows[p] = NoRow
                 /\ rows[p] # NoRow => /\ rows'[p].action = rows[p].action /\ rows'[p].at = rows[p].at
                                       /\ rows'[p].item = rows[p].item
                 /\ ~InBatch(p) => rows'[p] = rows[p]
<1>0. CASE rows' = rows
    BY <1>0 DEF TypeOK
<1> SUFFICES ASSUME rows' # rows PROVE
           /\ rows' \in [Paths -> Row \union {NoRow}]
           /\ \A p \in Paths :
                 /\ rows'[p] = NoRow <=> rows[p] = NoRow
                 /\ rows[p] # NoRow => /\ rows'[p].action = rows[p].action /\ rows'[p].at = rows[p].at
                                       /\ rows'[p].item = rows[p].item
                 /\ ~InBatch(p) => rows'[p] = rows[p]
    BY <1>0
<1>1. rows' = [p \in Paths |-> IF InBatch(p) THEN [rows[p] EXCEPT !.pending = FALSE] ELSE rows[p]]
    BY DEF sync_clear
<1>2. ASSUME NEW p \in Paths
      PROVE  /\ rows'[p] \in Row \union {NoRow}
             /\ rows'[p] = NoRow <=> rows[p] = NoRow
             /\ rows[p] # NoRow => /\ rows'[p].action = rows[p].action /\ rows'[p].at = rows[p].at
                                   /\ rows'[p].item = rows[p].item
             /\ ~InBatch(p) => rows'[p] = rows[p]
  <2>1. CASE ~InBatch(p)
    <3>1. rows'[p] = rows[p]
        BY <1>1, <2>1
    <3>2. QED
        BY <3>1 DEF TypeOK
  <2>2. CASE InBatch(p)
    <3>1. rows[p] # NoRow
        BY <2>2, BatchPaths DEF BatchCopy
    <3> DEFINE r == rows[p]
    <3>2. r \in Row /\ r # NoRow
        BY <3>1, RowFacts
    <3> HIDE DEF r
    <3> DEFINE new == [r EXCEPT !.pending = FALSE]
    <3>3. new \in Row
        BY <3>2 DEF Row
    <3>4. new.action = r.action /\ new.at = r.at /\ new.item = r.item
        BY <3>2 DEF Row
    <3>5. rows'[p] = new
        BY <1>1, <2>2, Zenon DEF r
    <3> HIDE DEF new
    <3>6. QED
        BY <2>2, <3>2, <3>3, <3>4, <3>5, RowIsRow DEF r
  <2>3. QED
      BY <2>1, <2>2
<1>3. rows' \in [Paths -> Row \union {NoRow}]
    BY <1>1, <1>2
<1>4. QED
    BY <1>2, <1>3

-----------------------------------------------------------------------------
(* A step of the backend lists ids together with the folders above them, or   *)
(* takes ids of one path off the list.                                       *)
Adds(ids) ==
    /\ UpsertItems(ids) /\ byPath' = byPath /\ ids \subseteq Ids
    /\ \A id \in ids : /\ id[2] = 0 \/ id = HeadChange.id
                       /\ \A q \in Above(id[1]) : FolderId(q) \in ids
    /\ ~dropped' /\ ~HeadChange.isDir => HeadChange.id \in ids

Removes(gone) ==
    /\ HeadChange.deleted /\ items' = items /\ live' = live \ gone
    /\ byPath \subseteq byPath' /\ byPath' \subseteq Paths
    /\ \A id \in gone : /\ id[1] = HeadChange.id[1]
                        /\ id = HeadChange.id \/ id[1] \in byPath'

(* The change that the backend applies next.                                 *)
LEMMA HeadFacts ==
    ASSUME TypeOK, wire # <<>>
    PROVE  /\ HeadChange \in Change /\ HeadChange.id \in Ids
           /\ HeadChange.id[1] \in Paths /\ HeadChange.id[2] \in Nat
           /\ HeadChange.id = <<HeadChange.id[1], HeadChange.id[2]>>
           /\ HeadChange \in OnWire /\ HeadChange \in Reported
<1>1. HeadChange \in Change /\ HeadChange \in OnWire
    BY WireType, HeadOnWire DEF OnWire
<1>2. HeadChange.id \in Ids
    BY <1>1 DEF Change
<1>3. QED
    BY <1>1, <1>2 DEF Ids, Reported

(* Some folders above a path, the topmost first: closed under Above.         *)
LEMMA FoldersAbove ==
    ASSUME TypeOK, NEW p \in Paths, NEW n \in Nat
    PROVE  LET ids == {FolderId(q) : q \in {x \in Above(p) : Len(x) <= n}}
           IN  /\ ids \subseteq Ids
               /\ \A id \in ids : id[2] = 0 /\ \A q \in Above(id[1]) : FolderId(q) \in ids
<1> DEFINE S == {x \in Above(p) : Len(x) <= n}
           ids == {FolderId(q) : q \in S}
<1>1. ASSUME NEW q \in S
      PROVE  q \in Paths /\ \A x \in Above(q) : x \in S
  <2>1. q \in Paths /\ \A x \in Above(q) : x \in Above(p) /\ Len(x) <= Len(q)
      BY AboveFacts
  <2>2. q \in Seq(Range(q)) /\ Len(q) \in Nat /\ Len(q) <= n
      BY <2>1, TreeAssumption, LenProperties
  <2>3. ASSUME NEW x \in Above(q)
        PROVE  Len(x) <= n
    <3>1. x \in Paths
        BY <2>1, AboveFacts
    <3>2. Len(x) \in Nat
        BY <3>1, TreeAssumption, LenProperties
    <3>3. QED
        BY <2>1, <2>2, <3>2
  <2>4. QED
      BY <2>1, <2>3
<1> HIDE DEF S
<1>2. QED
    BY <1>1 DEF FolderId, Ids, S

(* All folders above a path: closed under Above.                             *)
LEMMA AllFoldersAbove ==
    ASSUME TypeOK, NEW p \in Paths
    PROVE  LET ids == {FolderId(q) : q \in Above(p)}
           IN  /\ ids \subseteq Ids
               /\ \A id \in ids : id[2] = 0 /\ \A q \in Above(id[1]) : FolderId(q) \in ids
<1>1. \A q \in Above(p) : q \in Paths /\ \A x \in Above(q) : x \in Above(p)
    BY AboveFacts
<1>2. QED
    BY <1>1 DEF FolderId, Ids

(* What one step of the backend does to items, live and the wire.            *)
LEMMA Applied ==
    ASSUME TypeOK, handleFileTreeSync
    PROVE  /\ wire # <<>>
           /\ wire' \in Seq(FrameType) /\ Len(wire') <= MaxWire
           /\ OnWire' \subseteq OnWire /\ Reported' \subseteq Reported
           /\ dropped' \/ (~dropped /\ OnWire \subseteq {HeadChange} \union OnWire')
           /\ dropped' \in BOOLEAN /\ faults' \in 0..MaxFaults
           /\ agentUnchanged
           /\ \/ \E ids : Adds(ids)
              \/ \E gone : Removes(gone)
<1>1. wire \in Seq(FrameType) /\ Len(wire) <= MaxWire /\ Len(wire) \in Nat
    BY WireType
<1>2. wire # <<>> /\ agentUnchanged /\ dropped' \in BOOLEAN
    BY DEF handleFileTreeSync, ApplyChanges, upsertPath, DeleteItem, DeleteItemByLogicalPath,
           ApplyChanges_fails, TypeOK
<1>3. faults' \in 0..MaxFaults
  <2>1. faults' = faults \/ Fault
      BY DEF handleFileTreeSync, ApplyChanges, upsertPath, DeleteItem, DeleteItemByLogicalPath,
             ApplyChanges_fails
  <2>2. QED
      BY <2>1, TreeAssumption DEF TypeOK, Fault
<1> DEFINE h == HeadChange
           p == h.id[1]
<1>4. /\ h \in Change /\ h.id \in Ids /\ p \in Paths /\ h.id[2] \in Nat
      /\ h.id = <<p, h.id[2]>>
    BY <1>2, HeadFacts
<1>5. /\ wire' \in Seq(FrameType) /\ Len(wire') <= Len(wire) /\ Len(wire') \in Nat
      /\ OnWire' \subseteq OnWire
      /\ dropped' \/ (~dropped /\ OnWire \subseteq {HeadChange} \union OnWire')
  <2>1. CASE NextChange /\ dropped' = dropped
    <3>1. wire' \in Seq(FrameType) /\ Len(wire') <= Len(wire) /\ OnWire = {HeadChange} \union OnWire'
        BY <1>1, <1>2, <2>1, NextChangeWire
    <3>2. Len(wire') \in Nat
        BY <3>1, LenProperties
    <3>3. QED
        BY <2>1, <3>1, <3>2
  <2>2. CASE wire' = Tail(wire) /\ dropped' = TRUE
    <3>1. wire' \in Seq(FrameType) /\ Len(wire') <= Len(wire) /\ OnWire' \subseteq OnWire
        BY <1>1, <1>2, <2>2, TailWire
    <3>2. Len(wire') \in Nat
        BY <3>1, LenProperties
    <3>3. QED
        BY <2>2, <3>1, <3>2
  <2>3. QED
      BY <2>1, <2>2 DEF handleFileTreeSync, ApplyChanges, upsertPath, DeleteItem,
         DeleteItemByLogicalPath, ApplyChanges_fails
<1>6. Reported' \subseteq Reported
  <2>1. changes' = changes
      BY <1>2 DEF agentUnchanged, syncVars
  <2>2. QED
      BY <1>5, <2>1, PrimedElems DEF Reported
<1>7. ASSUME upsertPath
      PROVE  \E ids : Adds(ids)
  <2> DEFINE F == {FolderId(q) : q \in Above(p)}
             x == IF h.isDir THEN FolderId(p) ELSE h.id
             ids == F \union {x}
  <2>1. UpsertItems(ids) /\ byPath' = byPath
      BY <1>7 DEF upsertPath
  <2>2. F \subseteq Ids /\ \A id \in F : id[2] = 0 /\ \A q \in Above(id[1]) : FolderId(q) \in F
      BY <1>4, AllFoldersAbove
  <2>3. x \in Ids /\ x[1] = p /\ (x[2] = 0 \/ x = h.id) /\ (~h.isDir => x = h.id)
      BY <1>4 DEF FolderId, Ids
  <2>4. \A q \in Above(p) : FolderId(q) \in F
      OBVIOUS
  <2> HIDE DEF F, x, h
  <2>5. Adds(ids)
      BY <2>1, <2>2, <2>3, <2>4 DEF Adds, h
  <2>6. QED
      BY <2>5
<1>8. ASSUME DeleteItem
      PROVE  \E gone : Removes(gone)
  <2>1. Removes({h.id})
      BY <1>8 DEF DeleteItem, Removes, TypeOK
  <2>2. QED
      BY <2>1
<1>9. ASSUME DeleteItemByLogicalPath
      PROVE  \E gone : Removes(gone)
  <2> DEFINE gone == live \ live'
  <2>1. live' = live \ gone /\ \A id \in gone : id[1] = p
    <3>1. \/ live' = live \ {FolderId(p)}
          \/ live' = live
          \/ \E id \in {id \in live : id[1] = p} : live' = live \ {id}
        BY <1>9 DEF DeleteItemByLogicalPath
    <3>2. FolderId(p)[1] = p
        BY DEF FolderId
    <3>3. QED
        BY <3>1, <3>2
  <2> HIDE DEF gone
  <2>2. h.deleted /\ items' = items /\ byPath' = byPath \union {p}
      BY <1>9 DEF DeleteItemByLogicalPath
  <2>3. byPath \subseteq Paths
      BY DEF TypeOK
  <2> HIDE DEF h
  <2>4. Removes(gone)
      BY <1>4, <2>1, <2>2, <2>3 DEF Removes, h
  <2>5. QED
      BY <2>4
<1>10. ASSUME NEW z \in Paths, ApplyChanges_fails(Len(z) - 1)
       PROVE  (\E ids : Adds(ids)) \/ (\E gone : Removes(gone))
  <2>1. byPath' = byPath /\ dropped' = TRUE /\ byPath \subseteq Paths
      BY <1>10 DEF ApplyChanges_fails, TypeOK
  <2>2. CASE h.deleted
    <3>1. items' = items /\ live' = live \ {}
        BY <1>10, <2>2 DEF ApplyChanges_fails
    <3>2. Removes({})
        BY <2>1, <2>2, <3>1 DEF Removes
    <3>3. QED
        BY <3>2
  <2>3. CASE ~h.deleted
    <3> DEFINE n == Len(z) - 1
               ids == {FolderId(q) : q \in {x \in Above(p) : Len(x) <= n}}
    <3>1. UpsertItems(ids)
        BY <1>10, <2>3 DEF ApplyChanges_fails
    <3>2. n \in Nat
      <4>1. z \in Seq(Range(z)) /\ Len(z) > 0
          BY TreeAssumption
      <4>2. Len(z) \in Nat
          BY <4>1, LenProperties
      <4>3. QED
          BY <4>1, <4>2
    <3> HIDE DEF n
    <3>3. ids \subseteq Ids /\ \A id \in ids : id[2] = 0 /\ \A q \in Above(id[1]) : FolderId(q) \in ids
        BY <1>4, <3>2, FoldersAbove
    <3> HIDE DEF ids
    <3>4. Adds(ids)
        BY <2>1, <3>1, <3>3 DEF Adds
    <3>5. QED
        BY <3>4
  <2>4. QED
      BY <2>2, <2>3
<1>11. (\E ids : Adds(ids)) \/ (\E gone : Removes(gone))
    BY <1>7, <1>8, <1>9, <1>10, Zenon DEF handleFileTreeSync, ApplyChanges
<1>12. Len(wire') <= MaxWire
    BY <1>1, <1>5, TreeAssumption
<1>13. QED
    BY <1>2, <1>3, <1>5, <1>6, <1>11, <1>12, Zenon

-----------------------------------------------------------------------------
(* What the user does to the disk: an event at most, and nothing that was     *)
(* never removed disappears.                                                 *)
LEMMA Changed ==
    ASSUME TypeOK, NEW p \in Paths, Make(p) \/ Write(p) \/ Unlink(p) \/ MoveAway(p)
    PROVE  /\ removed \subseteq removed' /\ present \ removed' \subseteq present'
           /\ \A e \in Elems(events') \ Elems(events) :
                 e[2] \notin removed' => e[2] \in present' /\ e[1] \notin Gone
<1>1. PICK action \in Actions, after \in SUBSET Paths :
          /\ DiskOp(action, p, after)
          /\ action \in Gone => p \in present \ after
          /\ action \notin Gone => present \subseteq after /\ p \in after
  <2>1. CASE Make(p)
      BY <2>1 DEF Make, TypeOK, Actions, Gone
  <2>2. CASE Write(p)
      BY <2>2 DEF Write, TypeOK, Actions, Gone
  <2>3. CASE Unlink(p)
    <3>1. /\ DiskOp("delete", p, present \ {p}) /\ present \ {p} \in SUBSET Paths
          /\ p \in present \ (present \ {p})
        BY <2>3 DEF Unlink, TypeOK
    <3>2. "delete" \in Actions /\ "delete" \in Gone
        BY DEF Actions, Gone
    <3>3. QED
        BY <3>1, <3>2
  <2>4. CASE MoveAway(p)
      BY <2>4 DEF MoveAway, TypeOK, Actions, Gone
  <2>5. QED
      BY <2>1, <2>2, <2>3, <2>4
<1>2. removed' = removed \union (present \ after) /\ present' = after
    BY <1>1 DEF DiskOp
<1>3. events' = Append(events, <<action, p>>) \/ events' = events
    BY <1>1 DEF DiskOp
<1>4. Elems(events') \subseteq Elems(events) \union {<<action, p>>}
  <2> DEFINE E == Actions \X Paths
             e == <<action, p>>
  <2>1. events \in Seq(E) /\ e \in E
      BY DEF TypeOK
  <2> HIDE DEF E, e
  <2>2. Elems(Append(events, e)) = Elems(events) \union {e}
      BY <2>1, AppendElems
  <2>3. QED
      BY <1>3, <2>2 DEF e
<1>5. QED
    BY <1>1, <1>2, <1>4

(* What the user does leaves monitor, sync and backend alone.                *)
LEMMA UserUnchanged ==
    ASSUME NEW p \in Paths, Make(p) \/ Write(p) \/ Unlink(p) \/ MoveAway(p)
    PROVE  UNCHANGED <<clock, rows, sync, batch, changes, skipped, made, unstored, wire, items, live,
                       dropped, byPath>>
BY DEF Make, Write, Unlink, MoveAway, DiskOp, monVars, syncVars, treeVars

(* Every step keeps the types.                                               *)
LEMMA TypeStep ==
    ASSUME TypeOK, IdsOfFiles, BatchCopy, [Next]_vars
    PROVE  TypeOK'
<1>1. CASE User
    BY <1>1, DiskType DEF User
<1>2. CASE handleEvent
  <2>1. /\ events' \in Seq(Actions \X Paths) /\ rows' \in [Paths -> Row \union {NoRow}]
        /\ watches' \subseteq Dirs /\ watchedDir' \subseteq Dirs
      BY <1>2, HandledEvent
  <2>2. clock' \in Nat
      BY <1>2 DEF handleEvent, TypeOK
  <2>3. UNCHANGED <<ops, present, removed, sync, batch, changes, skipped, made, unstored, wire, items,
                    live, dropped, byPath>>
      BY <1>2 DEF handleEvent, syncVars, treeVars
  <2>4. missed' \subseteq Paths /\ faults' \in 0..MaxFaults
    <3> DEFINE p == Head(events)[2]
    <3>1. \/ UNCHANGED <<missed, faults>>
          \/ Fault /\ missed' = missed \union {p}
        BY <1>2 DEF handleEvent, persist_fails
    <3>2. p \in Paths
      <4>1. events \in Seq(Actions \X Paths) /\ events # <<>>
          BY <1>2 DEF TypeOK, handleEvent
      <4>2. Head(events) \in Actions \X Paths
          BY <4>1, HeadTailElems
      <4>3. QED
          BY <4>2
    <3> HIDE DEF p
    <3>3. QED
        BY <3>1, <3>2, TreeAssumption DEF TypeOK, Fault
  <2>5. QED
      BY <2>1, <2>2, <2>3, <2>4 DEF TypeOK
<1>3. ASSUME NEW p \in Paths, backed_up(p)
      PROVE  TypeOK'
  <2>1. rows' \in [Paths -> Row \union {NoRow}]
      BY <1>3, BackedUp
  <2>2. UNCHANGED <<ops, present, removed, missed, watches, events, watchedDir, clock, sync, batch,
                    changes, skipped, made, unstored, wire, items, live, dropped, byPath, faults>>
      BY <1>3 DEF backed_up, diskVars, monVars, syncVars, treeVars
  <2>3. QED
      BY <2>1, <2>2 DEF TypeOK
<1> DEFINE Others == UNCHANGED <<ops, present, removed, missed, watches, events, watchedDir, clock, items,
                                 live, dropped, byPath>>
<1>4. CASE sync_query
  <2>1. batch' \in Seq(Selected) /\ Len(batch') <= Limit /\ Len(batch') \in Nat /\ changes' = <<>>
      BY <1>4, Queried
  <2>2. changes' \in Seq(Change \union {NoChange}) /\ Len(changes') = 0
      BY <2>1, EmptySeq
  <2>3. Others /\ UNCHANGED <<rows, skipped, made, unstored, wire, faults>> /\ sync' = "build"
      BY <1>4 DEF sync_query, diskVars, monVars, treeVars
  <2>4. Len(changes') <= Len(batch')
      BY <2>1, <2>2
  <2>5. QED
      BY <2>1, <2>2, <2>3, <2>4 DEF TypeOK
<1>5. CASE sync_build
  <2>1. /\ changes' \in Seq(Change \union {NoChange}) /\ Len(changes') <= Len(batch)
        /\ rows' \in [Paths -> Row \union {NoRow}]
        /\ unstored' \subseteq Ids /\ made' \in Nat /\ faults' \in 0..MaxFaults
      BY <1>5, BuiltChange
  <2>2. Others /\ UNCHANGED <<sync, batch, skipped, wire>>
      BY <1>5 DEF sync_build, diskVars, monVars, treeVars
  <2>3. QED
      BY <2>1, <2>2 DEF TypeOK
<1>6. CASE stat_fails
  <2>1. /\ changes' \in Seq(Change \union {NoChange}) /\ Len(changes') <= Len(batch)
        /\ batch[Len(changes) + 1].path \in Paths
      BY <1>6, StatFailed
  <2>2. Others /\ UNCHANGED <<sync, batch, rows, made, unstored, wire>>
      BY <1>6 DEF stat_fails, diskVars, monVars, treeVars
  <2>3. faults' \in 0..MaxFaults
      BY <1>6, TreeAssumption DEF stat_fails, Fault, TypeOK
  <2>4. skipped' \subseteq Paths
      BY <1>6, <2>1 DEF stat_fails, TypeOK
  <2>5. QED
      BY <2>1, <2>2, <2>3, <2>4 DEF TypeOK
<1>7. CASE sync_send
  <2>1. wire' \in Seq(FrameType) /\ Len(wire') <= MaxWire
      BY <1>7, Sent
  <2>2. Others /\ UNCHANGED <<batch, changes, rows, skipped, made, unstored, faults>> /\ sync' = "clear"
      BY <1>7 DEF sync_send, diskVars, monVars, treeVars
  <2>3. QED
      BY <2>1, <2>2 DEF TypeOK, FrameType
<1>8. ASSUME sync_return
      PROVE  /\ batch' \in Seq(Selected) /\ Len(batch') <= Limit
             /\ changes' \in Seq(Change \union {NoChange}) /\ Len(changes') <= Len(batch')
             /\ sync' \in {"idle", "build", "clear"} /\ skipped' \subseteq Paths
             /\ made' \in Nat /\ unstored' \subseteq Ids
  <2>1. batch' = <<>> /\ changes' = <<>>
      BY <1>8 DEF sync_return
  <2>2. batch' \in Seq(Selected) /\ changes' \in Seq(Change \union {NoChange}) /\ Len(batch') = 0
      BY <2>1, EmptySeq
  <2>3. QED
      BY <1>8, <2>1, <2>2, TreeAssumption DEF sync_return, TypeOK
<1>9. CASE sync_fails
  <2>1. Others /\ UNCHANGED <<rows, wire>>
      BY <1>9 DEF sync_fails, diskVars, monVars, treeVars
  <2>2. faults' \in 0..MaxFaults
      BY <1>9, TreeAssumption DEF sync_fails, Fault, TypeOK
  <2>3. sync_return
      BY <1>9 DEF sync_fails
  <2>4. QED
      BY <1>8, <2>1, <2>2, <2>3 DEF TypeOK
<1>10. CASE sync_clear
  <2>1. Others /\ UNCHANGED wire /\ sync_return
      BY <1>10 DEF sync_clear, diskVars, monVars, treeVars
  <2>2. faults' \in 0..MaxFaults
      BY <1>10, TreeAssumption DEF sync_clear, Fault, TypeOK
  <2>3. rows' \in [Paths -> Row \union {NoRow}]
      BY <1>10, Cleared
  <2>4. QED
      BY <1>8, <2>1, <2>2, <2>3 DEF TypeOK
<1>11. CASE handleFileTreeSync
  <2>1. /\ wire' \in Seq(FrameType) /\ Len(wire') <= MaxWire /\ agentUnchanged
        /\ dropped' \in BOOLEAN /\ faults' \in 0..MaxFaults
        /\ (\E ids : Adds(ids)) \/ (\E gone : Removes(gone))
      BY <1>11, Applied
  <2>2. items' \subseteq Ids /\ live' \subseteq items' /\ byPath' \subseteq Paths
      BY <2>1 DEF Adds, UpsertItems, Removes, TypeOK
  <2>3. UNCHANGED <<ops, present, removed, missed, watches, events, watchedDir, clock, rows, sync,
                    batch, changes, skipped, made, unstored>>
      BY <2>1 DEF agentUnchanged, diskVars, monVars, syncVars
  <2>4. QED
      BY <2>1, <2>2, <2>3 DEF TypeOK, FrameType
<1>12. CASE UNCHANGED vars
    BY <1>12 DEF vars, diskVars, monVars, syncVars, treeVars, TypeOK
<1>13. QED
    BY <1>1, <1>2, <1>3, <1>4, <1>5, <1>6, <1>7, <1>9, <1>10, <1>11, <1>12 DEF Next, Sync

-----------------------------------------------------------------------------
(* Ids that agents report are ids of files.                                  *)
LEMMA IdsStep ==
    ASSUME IInv, [Next]_vars
    PROVE  IdsOfFiles'
<1> USE DEF IInv
<1>1. CASE User
  <2>1. UNCHANGED <<rows, batch, changes, wire>>
      BY <1>1, UserUnchanged DEF User
  <2>2. QED
      BY <2>1, SameElems DEF IdsOfFiles
<1>2. CASE handleEvent
  <2>1. PICK p \in Paths : /\ \A q \in Paths \ {p} : rows'[q] = rows[q]
                           /\ rows'[p] = rows[p] \/ rows'[p].at = clock + 1
      BY <1>2, HandledEvent
  <2>2. UNCHANGED <<batch, changes, wire>> /\ clock \in Nat
      BY <1>2 DEF handleEvent, syncVars, TypeOK
  <2>3. \A q \in Paths : rows'[q] # NoRow => rows'[q].at > 0
      BY <2>1, <2>2 DEF IdsOfFiles
  <2>4. QED
      BY <2>2, <2>3, SameElems DEF IdsOfFiles
<1>3. ASSUME NEW p \in Paths, backed_up(p)
      PROVE  IdsOfFiles'
  <2>1. UNCHANGED <<batch, changes, wire>>
      BY <1>3 DEF backed_up, syncVars
  <2>2. \A q \in Paths : rows'[q] # NoRow => rows'[q].at > 0
      BY <1>3, BackedUp DEF IdsOfFiles
  <2>3. QED
      BY <2>1, <2>2, SameElems DEF IdsOfFiles
<1>4. CASE sync_query
  <2>1. UNCHANGED <<rows, wire>> /\ changes' = <<>>
      BY <1>4 DEF sync_query
  <2>2. \A r \in Elems(batch') : r.row.at > 0
      BY <1>4, Queried DEF Elems, IdsOfFiles
  <2>3. Reported' \subseteq Reported
      BY <2>1, SameElems, PrimedElems, EmptyElems DEF Reported
  <2>4. QED
      BY <2>1, <2>2, <2>3, PrimedElems DEF IdsOfFiles
<1>5. CASE sync_build
  <2>1. PICK c \in Change, p \in Paths :
            /\ Elems(changes') = Elems(changes) \union {c} /\ c.id[2] > 0
            /\ \A q \in Paths \ {p} : rows'[q] = rows[q]
            /\ rows[p] # NoRow /\ rows'[p].at = rows[p].at
      BY <1>5, BuiltChange
  <2>2. UNCHANGED <<batch, wire>>
      BY <1>5 DEF sync_build
  <2>3. \A q \in Paths : rows'[q] # NoRow => rows'[q].at > 0
      BY <2>1 DEF IdsOfFiles
  <2>4. \A x \in Reported' : x \in Reported \/ x = c
      BY <2>1, <2>2, SameElems, PrimedElems DEF Reported
  <2>5. QED
      BY <2>1, <2>2, <2>3, <2>4, SameElems DEF IdsOfFiles
<1>6. CASE stat_fails
  <2>1. Elems(changes') = Elems(changes) \union {NoChange}
      BY <1>6, StatFailed
  <2>2. UNCHANGED <<rows, batch, wire>>
      BY <1>6 DEF stat_fails
  <2>3. Reported' \subseteq Reported
      BY <2>1, <2>2, SameElems, PrimedElems DEF Reported
  <2>4. QED
      BY <2>2, <2>3, SameElems DEF IdsOfFiles
<1>7. CASE sync_send
  <2>1. Reported' = Reported
      BY <1>7, Sent
  <2>2. UNCHANGED <<rows, batch>>
      BY <1>7 DEF sync_send
  <2>3. QED
      BY <2>1, <2>2, SameElems DEF IdsOfFiles
<1>8. CASE sync_fails \/ sync_clear
  <2>1. batch' = <<>> /\ changes' = <<>> /\ wire' = wire
      BY <1>8 DEF sync_fails, sync_clear, sync_return
  <2>2. Elems(batch') = {} /\ Reported' \subseteq Reported
      BY <2>1, SameElems, PrimedElems, EmptyElems DEF Reported
  <2>3. \A p \in Paths : rows'[p] # NoRow => rows'[p].at > 0
    <3>1. CASE sync_fails
        BY <3>1 DEF sync_fails, IdsOfFiles
    <3>2. CASE sync_clear
        BY <3>2, Cleared DEF IdsOfFiles
    <3>3. QED
        BY <1>8, <3>1, <3>2
  <2>4. QED
      BY <2>2, <2>3, PrimedElems DEF IdsOfFiles
<1>9. CASE handleFileTreeSync
  <2>1. Reported' \subseteq Reported /\ agentUnchanged
      BY <1>9, Applied
  <2>2. UNCHANGED <<rows, batch>>
      BY <2>1 DEF agentUnchanged, syncVars
  <2>3. QED
      BY <2>1, <2>2, SameElems DEF IdsOfFiles
<1>10. CASE UNCHANGED vars
  <2>1. UNCHANGED <<rows, batch, changes, wire>>
      BY <1>10 DEF vars, syncVars
  <2>2. QED
      BY <2>1, SameElems DEF IdsOfFiles
<1>11. QED
    BY <1>1, <1>2, <1>3, <1>4, <1>5, <1>6, <1>7, <1>8, <1>9, <1>10 DEF Next, Sync

(* The backend's tables change only in a step of the backend.                 *)
LEMMA AgentStep ==
    ASSUME [Next]_vars, ~handleFileTreeSync
    PROVE  UNCHANGED <<items, live, byPath, dropped>>
<1>1. CASE User
    BY <1>1, UserUnchanged DEF User
<1>2. CASE handleEvent \/ (\E p \in Paths : backed_up(p)) \/ Sync \/ UNCHANGED vars
    BY <1>2 DEF handleEvent, backed_up, Sync, sync_query, sync_build, stat_fails, sync_send, sync_fails,
       sync_clear, vars, treeVars
<1>3. QED
    BY <1>1, <1>2 DEF Next

(* Folders stay listed, and so the chain above every listed item.             *)
LEMMA FoldersStep ==
    ASSUME IInv, [Next]_vars
    PROVE  FoldersStay' /\ NoOrphans'
<1> USE DEF IInv
<1>1. CASE ~handleFileTreeSync
  <2>1. UNCHANGED <<items, live, byPath>>
      BY <1>1, AgentStep
  <2>2. QED
      BY <2>1 DEF FoldersStay, NoOrphans
<1>2. ASSUME wire # <<>>, NEW ids, Adds(ids)
      PROVE  FoldersStay' /\ NoOrphans'
  <2>1. /\ items' = items \union ids /\ live' = live \union (ids \ items) /\ byPath' = byPath
        /\ ids \subseteq Ids
        /\ \A id \in ids : \A q \in Above(id[1]) : FolderId(q) \in ids
      BY <1>2 DEF Adds, UpsertItems
  <2>2. FoldersStay'
      BY <2>1 DEF FoldersStay
  <2>3. ASSUME NEW id \in live', NEW q \in Above(id[1]) \ byPath
        PROVE  FolderId(q) \in live'
    <3>1. CASE id \in live
        BY <2>1, <3>1 DEF NoOrphans
    <3>2. CASE id \in ids
      <4>1. id[1] \in Paths
          BY <2>1, <3>2 DEF Ids
      <4>2. q \in Paths
          BY <4>1, AboveFacts
      <4>3. FolderId(q) \in ids
          BY <2>1, <3>2
      <4>4. QED
          BY <2>1, <4>2, <4>3 DEF FoldersStay
    <3>3. QED
        BY <2>1, <3>1, <3>2
  <2>4. QED
      BY <2>1, <2>2, <2>3 DEF NoOrphans
<1>3. ASSUME wire # <<>>, NEW gone, Removes(gone)
      PROVE  FoldersStay' /\ NoOrphans'
  <2>1. /\ items' = items /\ live' = live \ gone /\ byPath \subseteq byPath'
        /\ \A id \in gone : id = HeadChange.id \/ id[1] \in byPath'
      BY <1>3 DEF Removes
  <2>2. HeadChange.id[2] > 0 /\ HeadChange.id[2] \in Nat
      BY <1>3, HeadFacts DEF IdsOfFiles
  <2>3. \A q : q \notin byPath' => FolderId(q) \notin gone
      BY <2>1, <2>2 DEF FolderId
  <2>4. FoldersStay'
      BY <2>1, <2>3 DEF FoldersStay
  <2>5. NoOrphans'
      BY <2>1, <2>3 DEF NoOrphans
  <2>6. QED
      BY <2>4, <2>5
<1>4. QED
    BY <1>1, <1>2, <1>3, Applied

-----------------------------------------------------------------------------
(* Only a turn of the sync's loop gives a row an id or builds a change.       *)
LEMMA RowsStep ==
    ASSUME IInv, [Next]_vars, ~sync_build, NEW p \in Paths, rows[p] # NoRow
    PROVE  rows'[p] # NoRow /\ rows'[p].item = rows[p].item
<1> USE DEF IInv
<1>1. CASE User
    BY <1>1, UserUnchanged DEF User
<1>2. CASE handleEvent
    BY <1>2, HandledEvent
<1>3. CASE \E q \in Paths : backed_up(q)
    BY <1>3, BackedUp
<1>4. CASE sync_query \/ stat_fails \/ sync_send \/ sync_fails \/ UNCHANGED vars
    BY <1>4 DEF sync_query, stat_fails, sync_send, sync_fails, vars
<1>5. CASE sync_clear
    BY <1>5, Cleared
<1>6. CASE handleFileTreeSync
    BY <1>6, Applied DEF agentUnchanged
<1>7. QED
    BY <1>1, <1>2, <1>3, <1>4, <1>5, <1>6 DEF Next, Sync

(* Only a turn of the loop makes an id.                                      *)
LEMMA StoredStep ==
    ASSUME [Next]_vars, ~handleFileTreeSync, ~sync_build
    PROVE  unstored' = unstored
<1>1. CASE User
    BY <1>1, UserUnchanged DEF User
<1>2. CASE handleEvent \/ (\E p \in Paths : backed_up(p)) \/ Sync \/ UNCHANGED vars
    BY <1>2 DEF handleEvent, backed_up, Sync, sync_query, stat_fails, sync_send, sync_fails,
       sync_clear, sync_return, vars, syncVars
<1>3. QED
    BY <1>1, <1>2 DEF Next

(* Only sync_build adds to what is reported.                                 *)
LEMMA ReportedStep ==
    ASSUME IInv, [Next]_vars, ~sync_build
    PROVE  Reported' \subseteq Reported
<1> USE DEF IInv
<1>1. CASE User
    BY <1>1, UserUnchanged, SameElems DEF User
<1>2. CASE handleEvent \/ (\E q \in Paths : backed_up(q)) \/ UNCHANGED vars
  <2>1. UNCHANGED <<changes, wire>>
      BY <1>2 DEF handleEvent, backed_up, vars, syncVars
  <2>2. QED
      BY <2>1, SameElems
<1>3. CASE sync_query \/ sync_fails \/ sync_clear
  <2>1. changes' = <<>> /\ wire' = wire
      BY <1>3 DEF sync_query, sync_fails, sync_clear, sync_return
  <2>2. QED
      BY <2>1, SameElems, PrimedElems, EmptyElems DEF Reported
<1>4. CASE stat_fails
  <2>1. Elems(changes') = Elems(changes) \union {NoChange} /\ wire' = wire
      BY <1>4, StatFailed DEF stat_fails
  <2>2. QED
      BY <2>1, SameElems, PrimedElems DEF Reported
<1>5. CASE sync_send
    BY <1>5, Sent
<1>6. CASE handleFileTreeSync
    BY <1>6, Applied
<1>7. QED
    BY <1>1, <1>2, <1>3, <1>4, <1>5, <1>6 DEF Next, Sync

(* Reported changes are changes with ids of paths.                           *)
LEMMA ReportedType ==
    ASSUME TypeOK, NEW c \in Reported
    PROVE  c \in Change /\ c.id \in Ids /\ c.id[1] \in Paths /\ c.id[2] \in Nat
<1>1. ASSUME NEW frame \in Elems(wire)
      PROVE  Elems(frame) \subseteq Change
  <2>1. wire \in Seq(FrameType)
      BY WireType
  <2>2. frame \in FrameType
      BY <2>1, RangeElems
  <2>3. QED
      BY <2>2, RangeElems DEF FrameType
<1>2. OnWire \subseteq Change
    BY <1>1 DEF OnWire, ChangesOf
<1>3. c \in Change
    BY <1>2, FrameElems DEF Reported
<1>4. QED
    BY <1>3 DEF Change, Ids

(* The id of a file is the one its row has.                                  *)
LEMMA OneIdStep ==
    ASSUME IInv, [Next]_vars
    PROVE  OneId'
<1> USE DEF IInv
<1>1. CASE ~handleFileTreeSync /\ ~sync_build
  <2>1. items' = items /\ Reported' \subseteq Reported /\ unstored' = unstored
      BY <1>1, AgentStep, ReportedStep, StoredStep
  <2>2. \A id \in items : id[1] \in Paths
      BY DEF TypeOK, Ids
  <2>3. \A c \in Reported : c.id[1] \in Paths
      BY ReportedType
  <2>4. \A p \in Paths : rows[p] # NoRow => rows'[p] # NoRow /\ rows'[p].item = rows[p].item
      BY <1>1, RowsStep
  <2>5. QED
      BY <2>1, <2>2, <2>3, <2>4 DEF OneId
<1>2. CASE sync_build
  <2> DEFINE r == batch[Len(changes) + 1]
             p == r.path
             c == changes'[Len(changes) + 1]
             n == ItemIDFor(r)
  <2>1. /\ p \in Paths /\ rows[p] # NoRow /\ n \in Nat /\ n > 0
        /\ c.id = <<p, n>>
        /\ rows[p].item # 0 => n = rows[p].item
        /\ Elems(changes') = Elems(changes) \union {c}
        /\ \A q \in Paths \ {p} : rows'[q] = rows[q]
        /\ rows'[p] # NoRow
        /\ rows'[p].item = n \/ (rows' = rows /\ <<p, n>> \in unstored')
        /\ unstored \subseteq unstored'
      BY <1>2, BuiltChange
  <2> HIDE DEF r, p, c, n
  <2>2. wire' = wire /\ items' = items
      BY <1>2 DEF sync_build, treeVars
  <2>3. \A x \in Reported' : x \in Reported \/ x = c
      BY <2>1, <2>2, SameElems, PrimedElems DEF Reported
  <2>4. ASSUME NEW id \in items \ unstored, id[2] > 0
        PROVE  rows'[id[1]] # NoRow /\ rows'[id[1]].item = id[2]
    <3>1. id[1] \in Paths /\ id[2] \in Nat /\ rows[id[1]] # NoRow /\ rows[id[1]].item = id[2]
        BY <2>4 DEF OneId, TypeOK, Ids
    <3>2. QED
        BY <2>1, <2>4, <3>1
  <2>5. ASSUME NEW x \in Reported, x.id \notin unstored
        PROVE  rows'[x.id[1]] # NoRow /\ rows'[x.id[1]].item = x.id[2]
    <3>1. /\ x.id[1] \in Paths /\ x.id[2] \in Nat /\ x.id[2] > 0
          /\ rows[x.id[1]] # NoRow /\ rows[x.id[1]].item = x.id[2]
        BY <2>5, ReportedType DEF OneId, IdsOfFiles
    <3>2. QED
        BY <2>1, <3>1
  <2>6. QED
      BY <2>1, <2>2, <2>3, <2>4, <2>5 DEF OneId
<1>3. CASE handleFileTreeSync
  <2>1. /\ wire # <<>> /\ Reported' \subseteq Reported /\ agentUnchanged
        /\ (\E ids : Adds(ids)) \/ (\E gone : Removes(gone))
      BY <1>3, Applied
  <2>2. rows' = rows /\ unstored' = unstored
      BY <2>1 DEF agentUnchanged, syncVars
  <2>3. HeadChange \in Reported
      BY <2>1, HeadFacts
  <2>4. \A id \in items' : id \in items \/ id[2] = 0 \/ id = HeadChange.id
      BY <2>1 DEF Adds, UpsertItems, Removes
  <2>5. QED
      BY <2>1, <2>2, <2>3, <2>4 DEF OneId
<1>4. QED
    BY <1>1, <1>2, <1>3

(* The rows of the query stay a copy of the table as far as the ids of rows    *)
(* still to be reported go.                                                  *)
LEMMA BatchStep ==
    ASSUME IInv, [Next]_vars
    PROVE  BatchCopy'
<1> USE DEF IInv
<1>0. /\ batch \in Seq(Selected) /\ Len(batch) \in Nat /\ Len(changes) \in Nat
      /\ \A i \in 1..Len(batch) : batch[i].path \in Paths
  <2>1. batch \in Seq(Selected) /\ changes \in Seq(Change \union {NoChange})
      BY DEF TypeOK
  <2>2. \A i \in 1..Len(batch) : batch[i] \in Selected
      BY <2>1, ElementOfSeq
  <2>3. QED
      BY <2>1, <2>2, LenProperties DEF Selected
<1>1. ASSUME batch' = batch, Len(changes') \in Nat, Len(changes') >= Len(changes), ~sync_build
      PROVE  BatchCopy'
  <2>1. ASSUME NEW i \in 1..Len(batch)
        PROVE  /\ rows'[batch[i].path] # NoRow
               /\ i > Len(changes') => rows'[batch[i].path].item = batch[i].row.item
    <3>1. rows[batch[i].path] # NoRow /\ batch[i].path \in Paths
        BY <1>0 DEF BatchCopy
    <3>2. /\ rows'[batch[i].path] # NoRow
          /\ rows'[batch[i].path].item = rows[batch[i].path].item
        BY <1>1, <3>1, RowsStep
    <3>3. i > Len(changes') => i > Len(changes)
        BY <1>0, <1>1
    <3>4. QED
        BY <3>2, <3>3 DEF BatchCopy
  <2>2. QED
      BY <1>1, <2>1 DEF BatchCopy
<1>2. CASE User \/ handleEvent \/ (\E p \in Paths : backed_up(p)) \/ sync_send
           \/ handleFileTreeSync \/ UNCHANGED vars
  <2>1. batch' = batch /\ changes' = changes
    <3>1. CASE User
        BY <3>1, UserUnchanged DEF User
    <3>2. CASE handleFileTreeSync
        BY <3>2, Applied DEF agentUnchanged, syncVars
    <3>3. CASE handleEvent \/ (\E p \in Paths : backed_up(p)) \/ sync_send \/ UNCHANGED vars
        BY <3>3 DEF handleEvent, backed_up, sync_send, vars, syncVars
    <3>4. QED
        BY <1>2, <3>1, <3>2, <3>3
  <2>2. CASE ~sync_build
      BY <1>0, <1>1, <2>1, <2>2
  <2>3. ~sync_build
    <3>1. sync_build => Len(changes') # Len(changes)
        BY <1>0, BuiltChange
    <3>2. QED
        BY <2>1, <3>1
  <2>4. QED
      BY <2>2, <2>3
<1>3. CASE sync_query
  <2>1. rows' = rows
      BY <1>3 DEF sync_query
  <2>2. QED
      BY <1>3, <2>1, Queried DEF BatchCopy
<1>4. CASE sync_build
  <2> DEFINE n == Len(changes) + 1
             p == batch[n].path
  <2>1. /\ n \in 1..Len(batch) /\ p \in Paths /\ Len(changes') = n
        /\ \A q \in Paths \ {p} : rows'[q] = rows[q]
        /\ rows'[p] # NoRow
      BY <1>4, BuiltChange
  <2>2. batch' = batch
      BY <1>4 DEF sync_build
  <2>3. ASSUME NEW i \in 1..Len(batch)
        PROVE  /\ rows'[batch[i].path] # NoRow
               /\ i > n => rows'[batch[i].path].item = batch[i].row.item
    <3>1. CASE i = n
        BY <2>1, <3>1
    <3>2. CASE i # n
      <4>1. batch[i].path # p /\ batch[i].path \in Paths
          BY <1>0, <2>1, <3>2 DEF BatchCopy
      <4>2. rows'[batch[i].path] = rows[batch[i].path]
          BY <2>1, <4>1
      <4>3. i > n => i > Len(changes)
          BY <1>0
      <4>4. QED
          BY <4>2, <4>3 DEF BatchCopy
    <3>3. QED
        BY <3>1, <3>2
  <2> HIDE DEF n, p
  <2>4. QED
      BY <2>1, <2>2, <2>3 DEF BatchCopy
<1>5. CASE stat_fails
  <2>1. Len(changes') = Len(changes) + 1 /\ batch' = batch
      BY <1>5, StatFailed DEF stat_fails
  <2>2. ~sync_build
    <3>1. rows' = rows /\ changes'[Len(changes) + 1] = NoChange
        BY <1>5, StatFailed DEF stat_fails
    <3>2. QED
        BY <3>1, BuiltChange
  <2>3. QED
      BY <1>0, <1>1, <2>1, <2>2
<1>6. CASE sync_fails \/ sync_clear
  <2>1. batch' = <<>>
      BY <1>6 DEF sync_fails, sync_clear, sync_return
  <2>2. 1..Len(batch') = {}
      BY <2>1
  <2>3. QED
      BY <2>2 DEF BatchCopy
<1>7. QED
    BY <1>2, <1>3, <1>4, <1>5, <1>6 DEF Next, Sync

(* The changes of the running sync follow its query, row by row.              *)
LEMMA BuiltStep ==
    ASSUME IInv, [Next]_vars
    PROVE  BuiltFromBatch'
<1> USE DEF IInv
<1>0. Len(changes) \in Nat
    BY LenProperties DEF TypeOK
<1>1. ASSUME ~sync_build
      PROVE  \A c \in Reported' : c.id[1] \notin Dirs => ~c.isDir
    BY <1>1, ReportedStep DEF BuiltFromBatch
<1>2. CASE User \/ handleEvent \/ (\E p \in Paths : backed_up(p)) \/ handleFileTreeSync \/ UNCHANGED vars
  <2>1. UNCHANGED <<batch, changes, sync, skipped>>
    <3>1. CASE User
        BY <3>1, UserUnchanged DEF User
    <3>2. CASE handleFileTreeSync
        BY <3>2, Applied DEF agentUnchanged, syncVars
    <3>3. CASE handleEvent \/ (\E p \in Paths : backed_up(p)) \/ UNCHANGED vars
        BY <3>3 DEF handleEvent, backed_up, vars, syncVars
    <3>4. QED
        BY <1>2, <3>1, <3>2, <3>3
  <2>2. ~sync_build
    <3>1. sync_build => Len(changes') # Len(changes)
        BY <1>0, BuiltChange
    <3>2. QED
        BY <2>1, <3>1
  <2>3. QED
      BY <1>1, <2>1, <2>2 DEF BuiltFromBatch
<1>3. CASE sync_query \/ sync_fails \/ sync_clear
  <2>1. changes' = <<>> /\ sync' # "clear"
      BY <1>3 DEF sync_query, sync_fails, sync_clear, sync_return
  <2>2. 1..Len(changes') = {} /\ Len(changes') = 0
      BY <2>1
  <2>3. ~sync_build
      BY <1>0, <2>2, BuiltChange
  <2>4. QED
      BY <1>1, <2>1, <2>2, <2>3 DEF BuiltFromBatch
<1>4. CASE sync_build
  <2> DEFINE n == Len(changes) + 1
             p == batch[n].path
             c == changes'[n]
  <2>1. /\ Len(changes') = n
        /\ \A i \in 1..Len(changes) : changes'[i] = changes[i]
        /\ Elems(changes') = Elems(changes) \union {c}
        /\ c # NoChange /\ c.id[1] = p
        /\ c.isDir => p \in Dirs
      BY <1>4, BuiltChange
  <2>2. UNCHANGED <<batch, sync, skipped, wire>> /\ sync # "clear"
      BY <1>4 DEF sync_build
  <2>3. \A i \in 1..n : i \in 1..Len(changes) \/ i = n
      BY <1>0
  <2>4. c = changes'[n] /\ p = batch[n].path
      OBVIOUS
  <2> HIDE DEF c, n, p
  <2>5. \A x \in Reported' : x \in Reported \/ x = c
      BY <2>1, <2>2, SameElems, PrimedElems DEF Reported
  <2>6. \A i \in 1..n : IF changes'[i] = NoChange THEN batch[i].path \in skipped
                        ELSE changes'[i].id[1] = batch[i].path
      BY <2>1, <2>3, <2>4 DEF BuiltFromBatch
  <2>7. \A x \in Reported' : x.id[1] \notin Dirs => ~x.isDir
      BY <2>1, <2>5 DEF BuiltFromBatch
  <2>8. QED
      BY <2>1, <2>2, <2>6, <2>7 DEF BuiltFromBatch
<1>5. CASE stat_fails
  <2> DEFINE n == Len(changes) + 1
  <2>1. /\ Len(changes') = n /\ changes'[n] = NoChange
        /\ \A i \in 1..Len(changes) : changes'[i] = changes[i]
      BY <1>5, StatFailed
  <2>2. /\ UNCHANGED <<batch, sync, rows>> /\ sync # "clear"
        /\ skipped' = skipped \union {batch[n].path}
      BY <1>5 DEF stat_fails
  <2>3. \A i \in 1..n : i \in 1..Len(changes) \/ i = n
      BY <1>0
  <2>4. ~sync_build
      BY <2>1, BuiltChange
  <2> HIDE DEF n
  <2>5. QED
      BY <1>1, <2>1, <2>2, <2>3, <2>4 DEF BuiltFromBatch
<1>6. CASE sync_send
  <2>1. UNCHANGED <<batch, changes, skipped>> /\ Len(changes) = Len(batch)
      BY <1>6 DEF sync_send, Built
  <2>2. ~sync_build
      BY <1>0, <2>1, BuiltChange
  <2>3. QED
      BY <1>1, <2>1, <2>2 DEF BuiltFromBatch
<1>7. QED
    BY <1>2, <1>3, <1>4, <1>5, <1>6 DEF Next, Sync

-----------------------------------------------------------------------------
(* Nothing says of a file that was never removed that it is gone.             *)
EventsTrue(p) == \A e \in Elems(events) : e[2] = p => p \in present /\ e[1] \notin Gone
RowTrue(p)    == rows[p] # NoRow => p \in present /\ rows[p].action \notin Gone
BatchTrue(p)  == \A r \in Elems(batch) : r.path = p => r.row.action \notin Gone
ReportTrue(p) == \A c \in Reported : c.id[1] = p => ~c.deleted
ListedTrue(p) == \A id \in items : id[1] = p => id \in live

(* Truthful, part by part.                                                   *)
LEMMA TruthfulParts ==
    Truthful <=> \A p \in Paths \ removed :
                    EventsTrue(p) /\ RowTrue(p) /\ BatchTrue(p) /\ ReportTrue(p) /\ ListedTrue(p)
BY Zenon DEF Truthful, EventsTrue, RowTrue, BatchTrue, ReportTrue, ListedTrue

(* Truthful after a step, part by part.                                      *)
LEMMA PrimedTruthful ==
    ASSUME \A p \in Paths \ removed' :
              EventsTrue(p)' /\ RowTrue(p)' /\ BatchTrue(p)' /\ ReportTrue(p)' /\ ListedTrue(p)'
    PROVE  Truthful'
BY DEF Truthful, EventsTrue, RowTrue, BatchTrue, ReportTrue, ListedTrue

(* Every step keeps Truthful.                                                *)
LEMMA TruthfulStep ==
    ASSUME IInv, [Next]_vars
    PROVE  Truthful'
<1> USE DEF IInv
<1>1. removed \subseteq removed' /\ present \ removed' \subseteq present'
  <2>1. CASE User
      BY <2>1, Changed DEF User
  <2>2. CASE handleFileTreeSync
      BY <2>2, Applied DEF agentUnchanged, diskVars
  <2>3. CASE handleEvent \/ (\E p \in Paths : backed_up(p)) \/ Sync \/ UNCHANGED vars
      BY <2>3 DEF handleEvent, backed_up, Sync, sync_query, sync_build, stat_fails, sync_send, sync_fails,
         sync_clear, vars, diskVars
  <2>4. QED
      BY <2>1, <2>2, <2>3 DEF Next
<1> SUFFICES ASSUME NEW p \in Paths \ removed'
             PROVE  EventsTrue(p)' /\ RowTrue(p)' /\ BatchTrue(p)' /\ ReportTrue(p)' /\ ListedTrue(p)'
    BY PrimedTruthful
<1>2. EventsTrue(p) /\ RowTrue(p) /\ BatchTrue(p) /\ ReportTrue(p) /\ ListedTrue(p)
    BY <1>1, TruthfulParts
<1>3. p \in present => p \in present'
    BY <1>1
<1>4. EventsTrue(p)'
  <2>1. \A e \in Elems(events') :
            e \in Elems(events) \/ (e[2] \notin removed' => e[2] \in present' /\ e[1] \notin Gone)
    <3>1. CASE User
        BY <3>1, Changed DEF User
    <3>2. CASE handleEvent
        BY <3>2, HandledEvent
    <3>3. CASE handleFileTreeSync
        BY <3>3, Applied DEF agentUnchanged
    <3>4. CASE (\E q \in Paths : backed_up(q)) \/ Sync \/ UNCHANGED vars
        BY <3>4 DEF backed_up, Sync, sync_query, sync_build, stat_fails, sync_send, sync_fails,
           sync_clear, vars
    <3>5. QED
        BY <3>1, <3>2, <3>3, <3>4 DEF Next
  <2>2. \A e \in Elems(events') : e[2] = p => p \in present' /\ e[1] \notin Gone
      BY <1>2, <1>3, <2>1 DEF EventsTrue
  <2>3. QED
      BY <2>2, PrimedElems DEF EventsTrue
<1>5. RowTrue(p)'
  <2>1. CASE User
      BY <1>2, <1>3, <2>1, UserUnchanged DEF User, RowTrue
  <2>2. CASE handleEvent
    <3>1. PICK action \in Actions, q \in Paths :
              /\ <<action, q>> \in Elems(events)
              /\ \A x \in Paths \ {q} : rows'[x] = rows[x]
              /\ rows'[q] = rows[q] \/ rows'[q].action = action
        BY <2>2, HandledEvent
    <3>2. CASE p = q
      <4>1. p \in present /\ action \notin Gone
          BY <1>2, <3>1, <3>2 DEF EventsTrue
      <4>2. QED
          BY <1>2, <1>3, <3>1, <3>2, <4>1 DEF RowTrue
    <3>3. CASE p # q
        BY <1>2, <1>3, <3>1, <3>3 DEF RowTrue
    <3>4. QED
        BY <3>2, <3>3
  <2>3. CASE \E q \in Paths : backed_up(q)
      BY <1>2, <1>3, <2>3, BackedUp DEF RowTrue
  <2>4. CASE sync_query \/ stat_fails \/ sync_send \/ sync_fails \/ UNCHANGED vars
      BY <1>2, <1>3, <2>4 DEF sync_query, stat_fails, sync_send, sync_fails, vars, RowTrue
  <2>5. CASE sync_build
    <3>1. PICK q \in Paths : /\ \A x \in Paths \ {q} : rows'[x] = rows[x]
                             /\ rows[q] # NoRow /\ rows'[q].action = rows[q].action
        BY <2>5, BuiltChange
    <3>2. QED
        BY <1>2, <1>3, <3>1 DEF RowTrue
  <2>6. CASE sync_clear
      BY <1>2, <1>3, <2>6, Cleared DEF RowTrue
  <2>7. CASE handleFileTreeSync
      BY <1>2, <1>3, <2>7, Applied DEF agentUnchanged, RowTrue
  <2>8. QED
      BY <2>1, <2>2, <2>3, <2>4, <2>5, <2>6, <2>7 DEF Next, Sync
<1>6. BatchTrue(p)'
  <2>1. CASE batch' = batch
      BY <1>2, <2>1, SameElems DEF BatchTrue
  <2>2. CASE batch' = <<>>
      BY <2>2, PrimedElems, EmptyElems DEF BatchTrue
  <2>3. CASE sync_query
    <3>1. \A r \in Elems(batch') : r.path \in Paths /\ rows[r.path] # NoRow /\ r.row = rows[r.path]
        BY <2>3, Queried DEF Elems
    <3>2. \A r \in Elems(batch') : r.path = p => r.row.action \notin Gone
        BY <1>2, <3>1 DEF RowTrue
    <3>3. QED
        BY <3>2, PrimedElems DEF BatchTrue
  <2>4. batch' = batch \/ batch' = <<>> \/ sync_query
    <3>1. CASE User
        BY <3>1, UserUnchanged DEF User
    <3>2. CASE handleFileTreeSync
        BY <3>2, Applied DEF agentUnchanged, syncVars
    <3>3. CASE handleEvent \/ (\E q \in Paths : backed_up(q)) \/ Sync \/ UNCHANGED vars
        BY <3>3 DEF handleEvent, backed_up, Sync, sync_build, stat_fails, sync_send, sync_fails,
           sync_clear, sync_return, vars, syncVars
    <3>4. QED
        BY <3>1, <3>2, <3>3 DEF Next
  <2>5. QED
      BY <2>1, <2>2, <2>3, <2>4
<1>7. ReportTrue(p)'
  <2>1. CASE ~sync_build
      BY <1>2, <2>1, ReportedStep DEF ReportTrue
  <2>2. CASE sync_build
    <3> DEFINE r == batch[Len(changes) + 1]
               c == changes'[Len(changes) + 1]
    <3>1. /\ r \in Elems(batch) /\ c.id[1] = r.path /\ (c.deleted => r.row.action \in Gone)
          /\ Elems(changes') = Elems(changes) \union {c}
        BY <2>2, BuiltChange
    <3> HIDE DEF r, c
    <3>2. wire' = wire
        BY <2>2 DEF sync_build
    <3>3. \A x \in Reported' : x \in Reported \/ x = c
        BY <3>1, <3>2, SameElems, PrimedElems DEF Reported
    <3>4. c.id[1] = p => ~c.deleted
        BY <1>2, <3>1 DEF BatchTrue
    <3>5. QED
        BY <1>2, <3>3, <3>4 DEF ReportTrue
  <2>3. QED
      BY <2>1, <2>2
<1>8. ListedTrue(p)'
  <2>1. CASE ~handleFileTreeSync
      BY <1>2, <2>1, AgentStep DEF ListedTrue
  <2>2. ASSUME NEW ids, Adds(ids)
        PROVE  ListedTrue(p)'
      BY <1>2, <2>2 DEF Adds, UpsertItems, ListedTrue
  <2>3. ASSUME wire # <<>>, NEW gone, Removes(gone)
        PROVE  ListedTrue(p)'
    <3>1. HeadChange.id[1] # p
        BY <1>2, <2>3, HeadFacts DEF ReportTrue, Removes
    <3>2. QED
        BY <1>2, <2>3, <3>1 DEF Removes, ListedTrue
  <2>4. QED
      BY <2>1, <2>2, <2>3, Applied
<1>9. QED
    BY <1>4, <1>5, <1>6, <1>7, <1>8

-----------------------------------------------------------------------------
(* What is known of a file stays known: on the wire first, then listed.       *)
LEMMA KnownStep ==
    ASSUME IInv, [Next]_vars, NEW p \in Paths \ (Dirs \union removed), ~dropped', Known(p)
    PROVE  Known(p)'
<1> USE DEF IInv
<1>1. CASE ~handleFileTreeSync
  <2>1. live' = live
      BY <1>1, AgentStep
  <2>2. OnWire \subseteq OnWire'
    <3>1. CASE wire' = wire
        BY <3>1, SameElems
    <3>2. CASE sync_send
        BY <3>2, Sent
    <3>3. CASE User
        BY <3>1, <3>3, UserUnchanged DEF User
    <3>4. CASE handleEvent \/ (\E q \in Paths : backed_up(q)) \/ Sync \/ UNCHANGED vars
        BY <3>1, <3>2, <3>4 DEF handleEvent, backed_up, Sync, sync_query, sync_build, stat_fails,
           sync_fails, sync_clear, vars
    <3>5. QED
        BY <1>1, <3>3, <3>4 DEF Next
  <2>3. FileIdsOf(p)' = FileIdsOf(p)
      BY <2>1 DEF FileIdsOf
  <2>4. QED
      BY <2>2, <2>3 DEF Known
<1>2. CASE handleFileTreeSync
  <2>1. /\ wire # <<>> /\ OnWire \subseteq {HeadChange} \union OnWire'
        /\ (\E ids : Adds(ids)) \/ (\E gone : Removes(gone))
      BY <1>2, Applied
  <2>2. ListedTrue(p) /\ ReportTrue(p)
      BY TruthfulParts
  <2>3. CASE \E c \in OnWire' : c.id[1] = p
      BY <2>3 DEF Known
  <2>4. ASSUME NEW ids, Adds(ids), ~\E c \in OnWire' : c.id[1] = p
        PROVE  Known(p)'
    <3>1. /\ live' = live \union (ids \ items)
          /\ ~HeadChange.isDir => HeadChange.id \in ids
        BY <2>4 DEF Adds, UpsertItems
    <3>2. CASE FileIdsOf(p) # {}
        BY <3>1, <3>2 DEF FileIdsOf, Known
    <3>3. CASE FileIdsOf(p) = {}
      <4>1. HeadChange.id[1] = p
          BY <2>1, <2>4, <3>3 DEF Known
      <4>2. HeadChange \in Reported /\ HeadChange.id[2] > 0
          BY <2>1, HeadFacts DEF IdsOfFiles
      <4>3. HeadChange.id \in ids
          BY <3>1, <4>1, <4>2 DEF BuiltFromBatch
      <4>4. HeadChange.id \in live'
          BY <2>2, <3>1, <4>1, <4>3 DEF ListedTrue
      <4>5. QED
          BY <4>1, <4>2, <4>4 DEF FileIdsOf, Known
    <3>4. QED
        BY <3>2, <3>3
  <2>5. ASSUME NEW gone, Removes(gone), ~\E c \in OnWire' : c.id[1] = p
        PROVE  Known(p)'
    <3>1. HeadChange.id[1] # p
        BY <2>1, <2>2, <2>5, HeadFacts DEF ReportTrue, Removes
    <3>2. FileIdsOf(p) # {}
        BY <2>1, <2>5, <3>1 DEF Known
    <3>3. FileIdsOf(p) \subseteq FileIdsOf(p)'
        BY <2>5, <3>1 DEF Removes, FileIdsOf
    <3>4. QED
        BY <3>2, <3>3 DEF Known
  <2>6. QED
      BY <2>1, <2>3, <2>4, <2>5
<1>3. QED
    BY <1>1, <1>2

(* A row that is no longer pending was delivered.                             *)
LEMMA DeliveredStep ==
    ASSUME IInv, [Next]_vars
    PROVE  Delivered'
<1> USE DEF IInv
<1> SUFFICES ASSUME ~dropped', NEW p \in Paths \ (Dirs \union removed' \union skipped')
             PROVE  /\ rows'[p] # NoRow /\ ~rows'[p].pending => Known(p)'
                    /\ sync' = "clear" /\ InBatch(p)' => Known(p)'
    BY Zenon DEF Delivered
<1>1. removed \subseteq removed' /\ skipped \subseteq skipped'
  <2>1. CASE User
      BY <2>1, Changed, UserUnchanged DEF User
  <2>2. CASE handleFileTreeSync
      BY <2>2, Applied DEF agentUnchanged, diskVars, syncVars
  <2>3. CASE handleEvent \/ (\E q \in Paths : backed_up(q)) \/ Sync \/ UNCHANGED vars
      BY <2>3 DEF handleEvent, backed_up, Sync, sync_query, sync_build, stat_fails, sync_send, sync_fails,
         sync_clear, sync_return, vars, diskVars, syncVars
  <2>4. QED
      BY <2>1, <2>2, <2>3 DEF Next
<1>2. p \in Paths \ (Dirs \union removed \union skipped)
    BY <1>1
<1>3. ~dropped
  <2>1. handleFileTreeSync => ~dropped
      BY Applied
  <2>2. ~handleFileTreeSync => dropped' = dropped
      BY AgentStep
  <2>3. QED
      BY <2>1, <2>2
<1>4. /\ rows[p] # NoRow /\ ~rows[p].pending => Known(p)
      /\ sync = "clear" /\ InBatch(p) => Known(p)
    BY <1>2, <1>3 DEF Delivered
<1>5. Known(p) => Known(p)'
    BY <1>2, KnownStep
<1>6. rows'[p] # NoRow /\ ~rows'[p].pending => Known(p)'
  <2>1. CASE User
      BY <1>4, <1>5, <2>1, UserUnchanged DEF User
  <2>2. CASE handleEvent
    <3>1. PICK action \in Actions, q \in Paths :
              /\ <<action, q>> \in Elems(events)
              /\ \A x \in Paths \ {q} : rows'[x] = rows[x]
              /\ rows'[q] = rows[q] \/ rows'[q].pending = (action \notin Gone)
        BY <2>2, HandledEvent
    <3>2. CASE p = q
      <4>1. EventsTrue(p)
          BY <1>2, TruthfulParts
      <4>2. action \notin Gone
          BY <3>1, <3>2, <4>1 DEF EventsTrue
      <4>3. QED
          BY <1>4, <1>5, <3>1, <3>2, <4>2, Zenon
    <3>3. CASE p # q
        BY <1>4, <1>5, <3>1, <3>3
    <3>4. QED
        BY <3>2, <3>3
  <2>3. ASSUME NEW q \in Paths, backed_up(q)
        PROVE  rows'[p] # NoRow /\ ~rows'[p].pending => Known(p)'
    <3>1. /\ \A x \in Paths \ {q} : rows'[x] = rows[x]
          /\ rows[q] # NoRow /\ rows'[q].pending = rows[q].pending
        BY <2>3, BackedUp
    <3>2. CASE p = q
        BY <1>4, <1>5, <3>1, <3>2, Zenon
    <3>3. CASE p # q
        BY <1>4, <1>5, <3>1, <3>3
    <3>4. QED
        BY <3>2, <3>3
  <2>4. CASE sync_query \/ stat_fails \/ sync_send \/ sync_fails \/ UNCHANGED vars
      BY <1>4, <1>5, <2>4 DEF sync_query, stat_fails, sync_send, sync_fails, vars
  <2>5. CASE sync_build
    <3>1. PICK q \in Paths : /\ \A x \in Paths \ {q} : rows'[x] = rows[x]
                             /\ rows[q] # NoRow /\ rows'[q].pending = rows[q].pending
        BY <2>5, BuiltChange
    <3>2. CASE p = q
        BY <1>4, <1>5, <3>1, <3>2, Zenon
    <3>3. CASE p # q
        BY <1>4, <1>5, <3>1, <3>3
    <3>4. QED
        BY <3>2, <3>3
  <2>6. CASE sync_clear
    <3>1. ~InBatch(p) => rows'[p] = rows[p]
        BY <2>6, Cleared
    <3>2. sync = "clear"
        BY <2>6 DEF sync_clear
    <3>3. CASE InBatch(p)
        BY <1>4, <1>5, <3>2, <3>3
    <3>4. CASE ~InBatch(p)
        BY <1>4, <1>5, <3>1, <3>4
    <3>5. QED
        BY <3>3, <3>4
  <2>7. CASE handleFileTreeSync
      BY <1>4, <1>5, <2>7, Applied DEF agentUnchanged
  <2>8. QED
      BY <2>1, <2>2, <2>3, <2>4, <2>5, <2>6, <2>7 DEF Next, Sync
<1>7. ASSUME sync' = "clear", InBatch(p)'
      PROVE  Known(p)'
  <2>1. CASE sync = "clear" /\ batch' = batch
    <3>1. InBatch(p)
        BY <1>7, <2>1 DEF InBatch
    <3>2. QED
        BY <1>4, <1>5, <2>1, <3>1
  <2>2. CASE sync_send
    <3>1. batch' = batch /\ Len(changes) = Len(batch)
        BY <2>2 DEF sync_send, Built
    <3>2. InBatch(p)
        BY <1>7, <3>1 DEF InBatch
    <3>3. PICK i \in 1..Len(batch) : batch[i].path = p
        BY <3>2, BatchPaths
    <3>4. changes[i] # NoChange /\ changes[i].id[1] = p
        BY <1>2, <3>1, <3>3 DEF BuiltFromBatch
    <3>5. changes[i] \in OnWire'
        BY <2>2, <3>1, <3>4, Sent DEF Elems
    <3>6. QED
        BY <3>4, <3>5 DEF Known
  <2>3. (sync = "clear" /\ batch' = batch) \/ sync_send
    <3>1. CASE User
        BY <1>7, <3>1, UserUnchanged DEF User
    <3>2. CASE handleFileTreeSync
        BY <1>7, <3>2, Applied DEF agentUnchanged, syncVars
    <3>3. CASE handleEvent \/ (\E q \in Paths : backed_up(q)) \/ Sync \/ UNCHANGED vars
        BY <1>7, <3>3 DEF handleEvent, backed_up, Sync, sync_query, sync_build, stat_fails, sync_fails,
           sync_clear, sync_return, vars, syncVars
    <3>4. QED
        BY <3>1, <3>2, <3>3 DEF Next
  <2>4. QED
      BY <2>1, <2>2, <2>3
<1>8. QED
    BY <1>6, <1>7

-----------------------------------------------------------------------------
(* The initial states satisfy the invariant.                                 *)
LEMMA InvInit == Init => IInv
<1> SUFFICES ASSUME Init PROVE IInv
    OBVIOUS
<1>1. TypeOK
    BY TypeInit
<1>2. /\ batch = <<>> /\ changes = <<>> /\ wire = <<>> /\ events = <<>> /\ items = {} /\ live = {}
      /\ rows = [p \in Paths |-> NoRow] /\ sync = "idle"
    BY DEF Init
<1>3. Elems(batch) = {} /\ Elems(events) = {} /\ Reported = {} /\ OnWire = {} /\ Len(batch) = 0
      /\ Len(changes) = 0
    BY <1>2, EmptyElems DEF Reported, OnWire, ChangesOf
<1>4. \A p \in Paths : rows[p] = NoRow
    BY <1>2
<1>5. IdsOfFiles /\ FoldersStay /\ NoOrphans /\ OneId
    BY <1>2, <1>3, <1>4 DEF IdsOfFiles, FoldersStay, NoOrphans, OneId
<1>6. BatchCopy /\ BuiltFromBatch
    BY <1>2, <1>3 DEF BatchCopy, BuiltFromBatch
<1>7. Truthful
    BY <1>2, <1>3, <1>4 DEF Truthful
<1>8. Delivered
    BY <1>2, <1>4 DEF Delivered
<1>9. QED
    BY <1>1, <1>5, <1>6, <1>7, <1>8 DEF IInv

(* Every step keeps the invariant.                                           *)
LEMMA InvStep == IInv /\ [Next]_vars => IInv'
<1> SUFFICES ASSUME IInv, [Next]_vars PROVE IInv'
    OBVIOUS
<1>1. TypeOK'
    BY TypeStep DEF IInv
<1>2. IdsOfFiles' /\ FoldersStay' /\ NoOrphans' /\ OneId' /\ BatchCopy' /\ BuiltFromBatch' /\ Truthful'
      /\ Delivered'
    BY IdsStep, FoldersStep, OneIdStep, BatchStep, BuiltStep, TruthfulStep, DeliveredStep
<1>3. QED
    BY <1>1, <1>2 DEF IInv

(* The invariant holds in every reachable state.                             *)
LEMMA Invariance == Spec => []IInv
BY InvInit, InvStep, PTL DEF Spec

(* The state keeps its types: the ids, the rows, the changes and the frames    *)
(* are what the code declares, the query returns at most Limit rows and the    *)
(* connection holds at most MaxWire frames.                                  *)
THEOREM TreeTypeCorrect == Spec => []TypeOK
<1>1. IInv => TypeOK
    BY DEF IInv
<1>2. QED
    BY <1>1, Invariance, PTL

(* The backend lists no item without the folders above it, in any tree and     *)
(* whatever frames UpsertItem, DeleteItem and their failures apply in part.    *)
THEOREM ItemsHaveFolders == Spec => []NoOrphans
<1>1. IInv => NoOrphans
    BY DEF IInv
<1>2. QED
    BY <1>1, Invariance, PTL

(* However queries, events, backups and late frames interleave, the agent never *)
(* makes up a second id for a path, unless one could not be stored in its row:  *)
(* apart from those ids the backend lists one file per path.                    *)
THEOREM FilesListedOnce == Spec => []OneItemPerFile
<1>1. ASSUME IInv
      PROVE  OneItemPerFile
  <2> SUFFICES ASSUME NEW p \in Paths
               PROVE  Cardinality(FileIdsOf(p) \ unstored) <= 1
      BY DEF OneItemPerFile
  <2> DEFINE x == <<p, rows[p].item>>
  <2>1. FileIdsOf(p) \ unstored \subseteq {x}
    <3>1. ASSUME NEW id \in FileIdsOf(p) \ unstored
          PROVE  id = x
      <4>1. id \in Ids /\ id \in items \ unstored /\ id[1] = p /\ id[2] > 0
          BY <1>1 DEF FileIdsOf, IInv, TypeOK
      <4>2. rows[p].item = id[2]
          BY <1>1, <4>1 DEF IInv, OneId
      <4>3. id = <<id[1], id[2]>>
          BY <4>1 DEF Ids
      <4>4. QED
          BY <4>1, <4>2, <4>3
    <3>2. QED
        BY <3>1
  <2> HIDE DEF x
  <2>2. IsFiniteSet({x}) /\ Cardinality({x}) = 1
      BY FS_Singleton
  <2>3. QED
      BY <2>1, <2>2, FS_Subset
<1>2. QED
    BY <1>1, Invariance, PTL

(* A file that the sync loop has stopped selecting is listed by the backend:   *)
(* no interleaving of events, backups, queries and clears loses a change.      *)
THEOREM ClearedReachedBackend == Spec => []SyncedReachedBackend
<1>1. ASSUME IInv
      PROVE  SyncedReachedBackend
  <2> SUFFICES ASSUME NEW p \in Paths \ (Dirs \union removed \union skipped),
                      rows[p] # NoRow, ~NeedsSync(p), wire = <<>>, ~dropped
               PROVE  FileIdsOf(p) # {}
      BY DEF SyncedReachedBackend
  <2>1. ~rows[p].pending
      BY DEF NeedsSync
  <2>2. Known(p)
      BY <1>1, <2>1 DEF IInv, Delivered
  <2>3. OnWire = {}
      BY EmptyElems DEF OnWire, ChangesOf
  <2>4. QED
      BY <2>2, <2>3 DEF Known
<1>2. QED
    BY <1>1, Invariance, PTL

=============================================================================
