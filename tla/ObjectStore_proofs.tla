------------------------- MODULE ObjectStore_proofs -------------------------
(***************************************************************************)
(* Proofs about ObjectStore, for any number of objects, requests and       *)
(* revisions: what is catalogued or about to be used is whole, and the     *)
(* storage implements HeadStore, from which it inherits that no revision   *)
(* is published twice.                                                     *)
(***************************************************************************)
EXTENDS ObjectStore, TLAPS

\* Abbreviations that the proofs always look through.
USE DEF get_object_metadata, insert_object_if_absent

\* The stages that a handler enters once it saw the file of its object.
AfterRead == {"catalog", "found", "swap"}

\* What a handler goes on with has a whole file: files never disappear.
TasksAreBacked ==
    \A h \in Handler :
        (task[h] # None /\ task[h].stage \in AfterRead) => IsWhole(task[h].object)

\* What is about to be linked was written to its end.
LinksAreWritten == \A h \in Handler : At(h, "link") => temps[h] = "whole"

Inv == TypeOK /\ FilesAreWhole /\ CatalogIsBacked /\ TasksAreBacked /\ LinksAreWritten

\* The task records of TypeOK.
Task ==
    [op : {"put", "orphan", "get", "update"},
     stage : {"write", "fill", "link", "catalog", "found", "missing", "swap"},
     object : Object, expected : 0..MaxRevision]

\* Everything a step may do to the files: add one whole file, or nothing.
LEMMA FilesGrow ==
    ASSUME TypeOK, FilesAreWhole, LinksAreWritten, NEW h \in Handler, LinkObject(h)
    PROVE  /\ \A o \in DOMAIN files : o \in DOMAIN files' /\ files'[o] = files[o]
           /\ DOMAIN files' = DOMAIN files \cup {task[h].object}
           /\ files' \in [DOMAIN files' -> {"whole", "part"}]
           /\ \A o \in DOMAIN files' : files'[o] = "whole"
  BY DEF TypeOK, FilesAreWhole, LinksAreWritten, IsWhole, LinkObject, WithFile, At

\* The tasks after a step that gives h the task t.
LEMMA TaskStep ==
    ASSUME TypeOK, NEW h \in Handler, NEW t \in Task \cup {None},
           task' = [task EXCEPT ![h] = t]
    PROVE  /\ task' \in [Handler -> {None} \cup Task]
           /\ task'[h] = t
           /\ \A g \in Handler : g # h => task'[g] = task[g]
  BY DEF TypeOK, Task

\* A task that goes on is a task.
LEMMA ContinueStep ==
    ASSUME TypeOK, NEW h \in Handler, task[h] # None,
           NEW stage \in {"write", "fill", "link", "catalog", "found", "missing", "swap"},
           Continue(h, stage)
    PROVE  /\ task' \in [Handler -> {None} \cup Task]
           /\ task'[h].stage = stage /\ task'[h].object = task[h].object
           /\ \A g \in Handler : g # h => task'[g] = task[g]
<1>1. task[h] \in Task
  BY DEF TypeOK, Task
<1>2. task' = [task EXCEPT ![h] = [task[h] EXCEPT !.stage = stage]]
  BY DEF Continue
<1>3. [task[h] EXCEPT !.stage = stage] \in Task
  BY <1>1 DEF Task
<1> QED
  BY <1>1, <1>2, <1>3, TaskStep DEF Task

\* A handler that starts: the new task.
LEMMA BeginStep ==
    ASSUME TypeOK, NEW h \in Handler, NEW op \in {"put", "orphan", "get", "update"},
           NEW stage \in {"write", "fill", "link", "catalog", "found", "missing", "swap"},
           NEW o \in Object, NEW expected \in 0..MaxRevision,
           Begin(h, op, stage, o, expected)
    PROVE  /\ task' \in [Handler -> {None} \cup Task]
           /\ task'[h].stage = stage /\ task'[h].object = o
           /\ \A g \in Handler : g # h => task'[g] = task[g]
<1> DEFINE t == [op |-> op, stage |-> stage, object |-> o, expected |-> expected]
<1>1. t \in Task
  BY DEF Task
<1>2. task' = [task EXCEPT ![h] = t]
  BY DEF Begin
<1> QED
  BY <1>1, <1>2, TaskStep

-----------------------------------------------------------------------------
(* The invariant.                                                          *)

LEMMA InitInv == Init => Inv
  BY StoreAssumption
     DEF Init, Inv, TypeOK, FilesAreWhole, CatalogIsBacked, TasksAreBacked, LinksAreWritten, At,
         IsWhole

\* A step that leaves the files alone keeps them whole; what is left to show is that
\* rows and tasks only name objects that have one.
LEMMA SameFiles ==
    ASSUME Inv, TypeOK', files' = files,
           \A o \in rows' \ rows : IsWhole(o),
           NEW h \in Handler,
           \A g \in Handler : g # h => task'[g] = task[g],
           (task'[h] # None /\ task'[h].stage \in AfterRead) => IsWhole(task'[h].object),
           \A g \in Handler : g # h => temps'[g] = temps[g],
           At(h, "link")' => temps'[h] = "whole"
    PROVE  Inv'
  BY DEF Inv, FilesAreWhole, CatalogIsBacked, TasksAreBacked, LinksAreWritten, At, IsWhole

LEMMA PutKeepsInv ==
    ASSUME Inv, NEW h \in Handler, PutObject(h)
    PROVE  Inv'
<1> DEFINE stageOf(o) == IF o \in DOMAIN files THEN "catalog" ELSE "write"
<1>1. PICK o \in Object : Begin(h, "put", stageOf(o), o, 0)
  BY DEF PutObject
<1>2. /\ task' \in [Handler -> {None} \cup Task]
      /\ task'[h].stage = stageOf(o) /\ task'[h].object = o
      /\ \A g \in Handler : g # h => task'[g] = task[g]
  BY <1>1, BeginStep, StoreAssumption DEF Inv
<1>3. TypeOK'
  BY <1>2 DEF PutObject, Inv, TypeOK, Task, HeadValue
<1>4. task'[h].stage \in AfterRead => IsWhole(task'[h].object)
  BY <1>2 DEF AfterRead, Inv, FilesAreWhole
<1> QED
  BY <1>2, <1>3, <1>4, SameFiles DEF PutObject, At

LEMMA WriteKeepsInv ==
    ASSUME Inv, NEW h \in Handler, CreateTemp(h) \/ WriteTemp(h)
    PROVE  Inv'
<1>1. PICK stage \in {"fill", "link"} : Continue(h, stage) /\ task[h] # None
  BY DEF CreateTemp, WriteTemp, At
<1>2. /\ task' \in [Handler -> {None} \cup Task]
      /\ task'[h].stage \in {"fill", "link"}
      /\ \A g \in Handler : g # h => task'[g] = task[g]
  BY <1>1, ContinueStep DEF Inv
<1>3. /\ temps' \in [Handler -> {"none", "part", "whole"}]
      /\ \A g \in Handler : g # h => temps'[g] = temps[g]
  BY DEF CreateTemp, WriteTemp, Inv, TypeOK
<1>4. At(h, "link")' => temps'[h] = "whole"
  <2>1. CASE CreateTemp(h)
    BY <2>1, ContinueStep DEF CreateTemp, At, Inv
  <2>2. CASE WriteTemp(h)
    BY <2>2 DEF WriteTemp, Inv, TypeOK
  <2> QED BY <2>1, <2>2
<1>5. TypeOK'
  BY <1>2, <1>3 DEF CreateTemp, WriteTemp, Inv, TypeOK, Task, HeadValue
<1> QED
  BY <1>2, <1>3, <1>4, <1>5, SameFiles DEF CreateTemp, WriteTemp, AfterRead

LEMMA LinkKeepsInv ==
    ASSUME Inv, NEW h \in Handler, LinkObject(h)
    PROVE  Inv'
<1>1. /\ task' \in [Handler -> {None} \cup Task]
      /\ \A g \in Handler : g # h => task'[g] = task[g]
      /\ task'[h] # None => task'[h].object = task[h].object
  <2>1. CASE task[h].op = "put"
    BY <2>1, ContinueStep DEF LinkObject, At, Inv
  <2>2. CASE task[h].op # "put"
    BY <2>2, TaskStep DEF LinkObject, Done, Inv
  <2> QED BY <2>1, <2>2
<1>2. /\ \A o \in DOMAIN files : o \in DOMAIN files' /\ files'[o] = files[o]
      /\ DOMAIN files' = DOMAIN files \cup {task[h].object}
      /\ files' \in [DOMAIN files' -> {"whole", "part"}]
      /\ \A o \in DOMAIN files' : files'[o] = "whole"
  BY FilesGrow DEF Inv
<1>3. task[h].object \in Object
  BY DEF Inv, TypeOK, LinkObject, At
<1>4. TypeOK'
  BY <1>1, <1>2, <1>3 DEF LinkObject, Inv, TypeOK, Task, HeadValue
<1>5. FilesAreWhole' /\ CatalogIsBacked'
  BY <1>2 DEF LinkObject, Inv, FilesAreWhole, CatalogIsBacked, IsWhole
<1>6. TasksAreBacked'
  BY <1>1, <1>2 DEF Inv, TasksAreBacked, IsWhole
<1>7. LinksAreWritten'
  <2>1. ~At(h, "link")'
    BY ContinueStep, TaskStep DEF LinkObject, Done, At, Inv
  <2> QED BY <1>1, <2>1 DEF LinkObject, Inv, TypeOK, LinksAreWritten, At
<1> QED
  BY <1>4, <1>5, <1>6, <1>7 DEF Inv

LEMMA CatalogKeepsInv ==
    ASSUME Inv, NEW h \in Handler, CatalogObject(h)
    PROVE  Inv'
<1>1. /\ task' \in [Handler -> {None} \cup Task]
      /\ task'[h] = None
      /\ \A g \in Handler : g # h => task'[g] = task[g]
  BY TaskStep DEF CatalogObject, Done, Inv
<1>2. task[h].object \in Object
  BY DEF Inv, TypeOK, CatalogObject, At
<1>3. TypeOK'
  BY <1>1, <1>2 DEF CatalogObject, Alarm, unlock, Inv, TypeOK, Task, HeadValue
<1> QED
  BY <1>1, <1>3, SameFiles DEF CatalogObject, Alarm, At

LEMMA ReadKeepsInv ==
    ASSUME Inv, NEW h \in Handler, NEW op \in {"get", "update"}, NEW o \in Object,
           NEW expected \in 0..MaxRevision, ReadObject(h, op, o, expected)
    PROVE  Inv'
<1> DEFINE stage == IF o \in DOMAIN files THEN "found" ELSE "missing"
<1>1. /\ task' \in [Handler -> {None} \cup Task]
      /\ task'[h].stage = stage /\ task'[h].object = o
      /\ \A g \in Handler : g # h => task'[g] = task[g]
  BY BeginStep DEF ReadObject, Inv
<1>2. TypeOK'
  BY <1>1 DEF ReadObject, Inv, TypeOK, Task, HeadValue
<1>3. task'[h].stage \in AfterRead => IsWhole(task'[h].object)
  BY <1>1 DEF AfterRead, Inv, FilesAreWhole
<1> QED
  BY <1>1, <1>2, <1>3, SameFiles DEF ReadObject, At

LEMMA VerifyKeepsInv ==
    ASSUME Inv, NEW h \in Handler, VerifyBackfill(h)
    PROVE  Inv'
<1>1. task[h].object \in Object /\ IsWhole(task[h].object)
  BY DEF Inv, TypeOK, TasksAreBacked, AfterRead, VerifyBackfill, At
<1>2. /\ task' \in [Handler -> {None} \cup Task]
      /\ task'[h] # None => task'[h].object = task[h].object /\ task'[h].stage = "swap"
      /\ \A g \in Handler : g # h => task'[g] = task[g]
  <2>1. CASE task[h].op = "update"
    BY <1>1, <2>1, ContinueStep DEF VerifyBackfill, At, Inv
  <2>2. CASE task[h].op # "update"
    BY <1>1, <2>2, TaskStep DEF VerifyBackfill, Done, Inv
  <2> QED BY <2>1, <2>2
<1>3. TypeOK'
  BY <1>1, <1>2 DEF VerifyBackfill, Alarm, Inv, TypeOK, Task, HeadValue
<1> QED
  BY <1>1, <1>2, <1>3, SameFiles DEF VerifyBackfill, At

LEMMA ReportKeepsInv ==
    ASSUME Inv, NEW h \in Handler, ReportMissing(h)
    PROVE  Inv'
<1>1. /\ task' \in [Handler -> {None} \cup Task]
      /\ task'[h] = None
      /\ \A g \in Handler : g # h => task'[g] = task[g]
  BY TaskStep DEF ReportMissing, Done, Inv
<1>2. task[h].object \in Object
  BY DEF Inv, TypeOK, ReportMissing, At
<1>3. TypeOK'
  BY <1>1, <1>2 DEF ReportMissing, Alarm, Inv, TypeOK, Task, HeadValue
<1> QED
  BY <1>1, <1>3, SameFiles DEF ReportMissing, At

LEMMA SwapKeepsInv ==
    ASSUME Inv, NEW h \in Handler, SwapHead(h)
    PROVE  Inv'
<1> DEFINE row == [revision |-> task[h].expected + 1, manifest |-> task[h].object]
<1>1. /\ task' \in [Handler -> {None} \cup Task]
      /\ task'[h] = None
      /\ \A g \in Handler : g # h => task'[g] = task[g]
  BY TaskStep DEF SwapHead, Done, Inv
<1>2. next_fits(task[h].expected) => row \in HeadValue
  <2>1. task[h].object \in Object /\ task[h].expected \in 0..MaxRevision
    BY DEF Inv, TypeOK, SwapHead, At
  <2> QED
    BY <2>1, StoreAssumption DEF HeadValue, next_fits
<1>3. TypeOK'
  BY <1>1, <1>2 DEF SwapHead, Inv, TypeOK, Task
<1> QED
  BY <1>1, <1>3, SameFiles DEF SwapHead, At

LEMMA AbortKeepsInv ==
    ASSUME Inv, NEW h \in Handler, Abort(h) \/ OrphanLink(h)
    PROVE  Inv'
<1>1. /\ task' \in [Handler -> {None} \cup Task]
      /\ task'[h] # None => task'[h].stage = "link"
      /\ \A g \in Handler : g # h => task'[g] = task[g]
  <2>1. CASE Abort(h)
    BY <2>1, TaskStep DEF Abort, Done, Inv
  <2>2. CASE OrphanLink(h)
    BY <2>2 DEF OrphanLink, At, Inv, TypeOK, Task
  <2> QED BY <2>1, <2>2
<1>2. TypeOK'
  BY <1>1 DEF Abort, OrphanLink, unlock, Inv, TypeOK, Task, HeadValue
<1>3. task'[h] # None => temps[h] = "whole"
  BY TaskStep DEF Abort, OrphanLink, Done, Inv, LinksAreWritten
<1> QED
  BY <1>1, <1>2, <1>3, SameFiles DEF Abort, OrphanLink, AfterRead, At

\* Every step keeps the invariant.
LEMMA NextInv ==
    ASSUME Inv, [Next]_vars
    PROVE  Inv'
<1>1. CASE UNCHANGED vars
  BY <1>1 DEF Inv, vars, TypeOK, FilesAreWhole, CatalogIsBacked, TasksAreBacked, LinksAreWritten,
              At, IsWhole, HeadValue
<1>2. ASSUME NEW h \in Handler, GetObject(h) PROVE Inv'
  BY <1>2, ReadKeepsInv, StoreAssumption DEF GetObject
<1>3. ASSUME NEW h \in Handler, GetHead(h) PROVE Inv'
  <2>1. headRow.manifest \in Object
    BY <1>3 DEF GetHead, Inv, TypeOK, HeadValue
  <2> QED
    BY <1>3, <2>1, ReadKeepsInv, StoreAssumption DEF GetHead
<1>4. ASSUME NEW h \in Handler, UpdateHead(h) PROVE Inv'
  BY <1>4, ReadKeepsInv DEF UpdateHead
<1> QED
  BY <1>1, <1>2, <1>3, <1>4, PutKeepsInv, WriteKeepsInv, LinkKeepsInv, CatalogKeepsInv,
     VerifyKeepsInv, ReportKeepsInv, SwapKeepsInv, AbortKeepsInv DEF Next

LEMMA Invariance == Spec => []Inv
  BY InitInv, NextInv, PTL DEF Spec

\* Every state of every instance has the types of TypeOK; the checked sum of update_head
\* keeps revisions within i64.
THEOREM TypeCorrect == Spec => []TypeOK
<1>1. Inv => TypeOK
  BY DEF Inv
<1> QED
  BY <1>1, Invariance, PTL

\* However many uploads stop half way, the catalog lists only objects whose file is
\* whole (put_object links before it inserts, and nothing replaces a file).
THEOREM CatalogBacked == Spec => []CatalogIsBacked
<1>1. Inv => CatalogIsBacked
  BY DEF Inv
<1> QED
  BY <1>1, Invariance, PTL

\* No reader finds part of an object at its canonical path (write_new links files that
\* are complete).
THEOREM WholeFiles == Spec => []FilesAreWhole
<1>1. Inv => FilesAreWhole
  BY DEF Inv
<1> QED
  BY <1>1, Invariance, PTL

-----------------------------------------------------------------------------
(* The refinement.                                                         *)

Objects == {o \in DOMAIN files : IsWhole(o)}

Head == IF headRow = None THEN [revision |-> 0, manifest |-> None] ELSE headRow

LEMMA LinkIsStore ==
    ASSUME Inv, NEW h \in Handler, LinkObject(h)
    PROVE  Store!Store
<1>1. /\ \A o \in DOMAIN files : o \in DOMAIN files' /\ files'[o] = files[o]
      /\ DOMAIN files' = DOMAIN files \cup {task[h].object}
      /\ \A o \in DOMAIN files' : files'[o] = "whole"
  BY FilesGrow DEF Inv
<1>2. task[h].object \in Object
  BY DEF Inv, TypeOK, LinkObject, At
<1>3. Objects' = Objects \cup {task[h].object}
  BY <1>1 DEF Objects, IsWhole, Inv, FilesAreWhole
<1> QED
  BY <1>2, <1>3 DEF Store!Store, LinkObject, Objects

LEMMA CatalogIsAcknowledge ==
    ASSUME Inv, NEW h \in Handler, CatalogObject(h)
    PROVE  Store!Acknowledge
<1>1. IsWhole(task[h].object)
  BY DEF Inv, TasksAreBacked, AfterRead, CatalogObject, At
<1> QED
  BY <1>1 DEF Store!Acknowledge, CatalogObject, IsWhole

LEMMA SwapIsPublish ==
    ASSUME Inv, NEW h \in Handler, SwapHead(h),
           next_fits(task[h].expected) /\ matches_revision(task[h].expected)
    PROVE  Store!Publish
<1> DEFINE row == [revision |-> task[h].expected + 1, manifest |-> task[h].object]
<1>1. IsWhole(task[h].object) /\ task[h].expected \in 0..MaxRevision
  BY DEF Inv, TypeOK, TasksAreBacked, AfterRead, SwapHead, At
<1>2. headRow' = row /\ wins' = wins \cup {row}
  BY DEF SwapHead
<1>3. row # None
  <2>1. row \in [revision : Nat, manifest : Object]
    BY <1>1, StoreAssumption DEF Inv, TypeOK, SwapHead, At
  <2> QED BY <2>1, StoreAssumption
<1>4. Head' = row /\ Head.revision = task[h].expected
  BY <1>1, <1>2, <1>3, StoreAssumption DEF Head, matches_revision
<1> QED
  BY <1>1, <1>2, <1>4 DEF Store!Publish, SwapHead, IsWhole, Head

\* A step that changes neither the files nor the head nor the histories stutters.
LEMMA Stutters ==
    ASSUME UNCHANGED <<files, headRow, acked, wins>>
    PROVE  UNCHANGED Store!vars
  BY DEF Store!vars, IsWhole

\* Every step of the storage is a step of HeadStore or a stutter.
LEMMA StepRefines ==
    ASSUME Inv, [Next]_vars
    PROVE  [Store!Next]_Store!vars
<1>1. ASSUME NEW h \in Handler, LinkObject(h) PROVE Store!Next
  BY <1>1, LinkIsStore DEF Store!Next
<1>2. ASSUME NEW h \in Handler, CatalogObject(h) PROVE Store!Next
  BY <1>2, CatalogIsAcknowledge DEF Store!Next
<1>3. ASSUME NEW h \in Handler, SwapHead(h) PROVE [Store!Next]_Store!vars
  <2>1. CASE next_fits(task[h].expected) /\ matches_revision(task[h].expected)
    BY <1>3, <2>1, SwapIsPublish DEF Store!Next
  <2>2. CASE ~(next_fits(task[h].expected) /\ matches_revision(task[h].expected))
    BY <1>3, <2>2, Stutters DEF SwapHead
  <2> QED BY <2>1, <2>2
<1>4. ASSUME NEW h \in Handler,
             \/ PutObject(h) \/ CreateTemp(h) \/ WriteTemp(h)
             \/ GetObject(h) \/ GetHead(h) \/ UpdateHead(h)
             \/ VerifyBackfill(h) \/ ReportMissing(h) \/ Abort(h) \/ OrphanLink(h)
      PROVE  UNCHANGED Store!vars
  BY <1>4, Stutters DEF PutObject, CreateTemp, WriteTemp, GetObject, GetHead, UpdateHead, ReadObject,
                        VerifyBackfill, ReportMissing, Abort, OrphanLink
<1>5. CASE UNCHANGED vars
  BY <1>5, Stutters DEF vars
<1> QED
  BY <1>1, <1>2, <1>3, <1>4, <1>5 DEF Next

LEMMA InitRefines == Init => Store!Init
  BY DEF Init, Store!Init, IsWhole

\* The storage implements HeadStore for any number of objects, requests and revisions.
THEOREM Refinement == Spec => ImplementsHeadStore
<1>1. Spec => Store!Init
  BY InitRefines DEF Spec
<1>2. Inv /\ [Next]_vars => [Store!Next]_Store!vars
  BY StepRefines
<1> QED
  BY <1>1, <1>2, Invariance, PTL DEF Spec, ImplementsHeadStore, Store!Spec

-----------------------------------------------------------------------------
(* One writer per revision.                                                *)

\* The head counts its publications, and no success is ahead of it.
WinsInv == Head.revision \in Nat /\ OneWinnerPerRevision

LEMMA PublishKeepsWins ==
    ASSUME WinsInv, Store!Publish
    PROVE  WinsInv'
<1>1. /\ Head' = [revision |-> Head.revision + 1, manifest |-> Head'.manifest]
      /\ wins' = wins \cup {Head'}
  BY DEF Store!Publish, Head
<1>2. Head.revision \in Nat /\ \A w \in wins : w.revision \in 1..Head.revision
  BY DEF WinsInv, OneWinnerPerRevision, Store!OneWinnerPerRevision, Head
<1>3. \A v, w \in wins : v.revision = w.revision => v = w
  BY DEF WinsInv, OneWinnerPerRevision, Store!OneWinnerPerRevision
<1>4. \A w \in wins' : w.revision \in 1..Head'.revision
  BY <1>1, <1>2
<1>5. \A v, w \in wins' : v.revision = w.revision => v = w
  BY <1>1, <1>2, <1>3
<1> QED
  BY <1>1, <1>2, <1>4, <1>5 DEF WinsInv, OneWinnerPerRevision, Store!OneWinnerPerRevision, Head

\* However head updates race and wherever they stop, no revision is published twice
\* (the compare-and-swap of WorkspaceDb::update_head).
THEOREM OneWinner == Spec => []OneWinnerPerRevision
<1>1. Init => WinsInv
  BY DEF Init, WinsInv, Head, OneWinnerPerRevision, Store!OneWinnerPerRevision
<1>2. WinsInv /\ [Store!Next]_Store!vars => WinsInv'
  <2> SUFFICES ASSUME WinsInv, [Store!Next]_Store!vars PROVE WinsInv'
    OBVIOUS
  <2>1. CASE Head' = Head /\ wins' = wins
    BY <2>1 DEF WinsInv, OneWinnerPerRevision, Store!OneWinnerPerRevision, Head
  <2>2. CASE Store!Publish
    BY <2>2, PublishKeepsWins
  <2> QED
    BY <2>1, <2>2 DEF Store!Next, Store!Store, Store!Acknowledge, Store!vars, Head
<1>3. Inv /\ [Next]_vars => [Store!Next]_Store!vars
  BY StepRefines
<1>4. WinsInv => OneWinnerPerRevision
  BY DEF WinsInv
<1> QED
  BY <1>1, <1>2, <1>3, <1>4, Invariance, PTL DEF Spec

=============================================================================
