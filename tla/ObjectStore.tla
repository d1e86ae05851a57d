---------------------------- MODULE ObjectStore ----------------------------
(***************************************************************************)
(* IndexedFsStorage of rustsync-server/src/storage: objects are files      *)
(* named after their content, catalogued in the SQLite database that also  *)
(* holds the head.  One workspace, several requests at a time, each of     *)
(* which may stop at every await: its connection closes or the server      *)
(* crashes.  What a power failure does to unsynced directories is left     *)
(* out; docs/internals.md makes no promise about it.                       *)
(*                                                                         *)
(* The API handlers compare the content id with the submitted bytes, so an *)
(* object is its id and a file is either whole or not.                     *)
(***************************************************************************)
EXTENDS Naturals, FiniteSets

CONSTANTS
    Object,       \* the content ids of blobs and manifests
    Handler,      \* requests in progress
    MaxRevision,  \* the largest revision, i64::MAX
    None          \* no task, no lock holder, no manifest

ASSUME StoreAssumption ==
    /\ MaxRevision \in Nat
    /\ None \notin Handler
    /\ None \notin Object
    /\ None \notin [revision : Nat, manifest : Object]

VARIABLES
    files,    \* disk: the object files at their canonical paths
    temps,    \* disk: the latest temporary file of a handler; older ones, of uploads that
              \* stopped, stay under names that nobody looks for
    rows,     \* database: the objects catalogued
    headRow,  \* database: the row of workspace_head, or None
    putLock,  \* put_lock: its holder
    task,     \* what a handler is doing
    acked,    \* history variable: uploads that succeeded
    wins,     \* history variable: head updates that succeeded
    alarms    \* history variable: objects reported as corrupt

vars == <<files, temps, rows, headRow, putLock, task, acked, wins, alarms>>

-----------------------------------------------------------------------------
IsWhole(o) == o \in DOMAIN files /\ files[o] = "whole"

WithFile(o, content) ==
    [q \in DOMAIN files \cup {o} |-> IF q = o THEN content ELSE files[q]]

At(h, stage) == task[h] # None /\ task[h].stage = stage

Begin(h, op, stage, o, expected) ==
    /\ task[h] = None
    /\ task' = [task EXCEPT ![h] =
                    [op |-> op, stage |-> stage, object |-> o, expected |-> expected]]

Continue(h, stage) == task' = [task EXCEPT ![h].stage = stage]

Done(h) == task' = [task EXCEPT ![h] = None]

unlock(h) == putLock' = IF putLock = h THEN None ELSE putLock

\* StorageCorruption
Alarm(o) == alarms' = alarms \cup {o}

\* The catalog, by the id of the object.
get_object_metadata(o) == o \in rows

insert_object_if_absent(o) == rows' = rows \cup {o}

-----------------------------------------------------------------------------
(* put_object.                                                             *)

\* Lock, and look whether the file is there.
PutObject(h) ==
    /\ putLock = None
    /\ putLock' = h
    /\ \E o \in Object :
        Begin(h, "put", IF o \in DOMAIN files THEN "catalog" ELSE "write", o, 0)
    /\ UNCHANGED <<files, temps, rows, headRow, acked, wins, alarms>>

\* write_new: a temporary file is created, which has no content yet.
CreateTemp(h) ==
    /\ At(h, "write")
    /\ temps' = [temps EXCEPT ![h] = "part"]
    /\ Continue(h, "fill")
    /\ UNCHANGED <<files, rows, headRow, putLock, acked, wins, alarms>>

\* Mutants of WriteTemp: nobody waits for the content, or the object is catalogued first.
NotSynced(h) ==
    /\ At(h, "fill")
    /\ Continue(h, "link")
    /\ UNCHANGED <<files, temps, rows, headRow, putLock, acked, wins, alarms>>

CatalogFirst(h) ==
    /\ At(h, "fill")
    /\ temps' = [temps EXCEPT ![h] = "whole"]
    /\ rows' = rows \cup {task[h].object}
    /\ Continue(h, "link")
    /\ UNCHANGED <<files, headRow, putLock, acked, wins, alarms>>

\* Its content is written and synced: write_all alone may return before that.
WriteTemp(h) ==
    /\ At(h, "fill")
    /\ temps' = [temps EXCEPT ![h] = "whole"]
    /\ Continue(h, "link")
    /\ UNCHANGED <<files, rows, headRow, putLock, acked, wins, alarms>>

\* It is linked to the canonical path as it is, unless there is a file already, and
\* its temporary name removed.
LinkObject(h) ==
    LET o == task[h].object IN
    /\ At(h, "link")
    /\ files' = IF o \in DOMAIN files THEN files ELSE WithFile(o, temps[h])
    /\ temps' = [temps EXCEPT ![h] = "none"]
    /\ IF task[h].op = "put" THEN Continue(h, "catalog") ELSE Done(h)
    /\ UNCHANGED <<rows, headRow, putLock, acked, wins, alarms>>

\* The file must be the submitted object; insert_object_if_absent, and the response.
CatalogObject(h) ==
    LET o == task[h].object IN
    /\ At(h, "catalog")
    /\ IF IsWhole(o)
       THEN insert_object_if_absent(o) /\ acked' = acked \cup {o} /\ UNCHANGED alarms
       ELSE Alarm(o) /\ UNCHANGED <<rows, acked>>
    /\ Done(h)
    /\ unlock(h)
    /\ UNCHANGED <<files, temps, headRow, wins>>

-----------------------------------------------------------------------------
(* get_object, exists_object, and the requests that start with them.       *)

\* Read the file of o, for op.
ReadObject(h, op, o, expected) ==
    /\ Begin(h, op, IF o \in DOMAIN files THEN "found" ELSE "missing", o, expected)
    /\ UNCHANGED <<files, temps, rows, headRow, putLock, acked, wins, alarms>>

GetObject(h) == \E o \in Object : ReadObject(h, "get", o, 0)

\* get_head validates the manifest of the head.
GetHead(h) == headRow # None /\ ReadObject(h, "get", headRow.manifest, 0)

\* Mutant of UpdateHead: the manifest is not looked up.
UncheckedManifest(h) ==
    /\ \E o \in Object, expected \in 0..MaxRevision : Begin(h, "update", "swap", o, expected)
    /\ UNCHANGED <<files, temps, rows, headRow, putLock, acked, wins, alarms>>

\* update_head: the manifest must exist.
UpdateHead(h) ==
    \E o \in Object, expected \in 0..MaxRevision : ReadObject(h, "update", o, expected)

\* verify_backfill: check the content and insert a row that is missing.
VerifyBackfill(h) ==
    LET o == task[h].object IN
    /\ At(h, "found")
    /\ IF IsWhole(o)
       THEN insert_object_if_absent(o) /\ UNCHANGED alarms
       ELSE Alarm(o) /\ UNCHANGED rows
    /\ IF IsWhole(o) /\ task[h].op = "update" THEN Continue(h, "swap") ELSE Done(h)
    /\ UNCHANGED <<files, temps, headRow, putLock, acked, wins>>

\* report_missing_catalog_row
ReportMissing(h) ==
    LET o == task[h].object IN
    /\ At(h, "missing")
    /\ IF get_object_metadata(o) THEN Alarm(o) ELSE UNCHANGED alarms
    /\ Done(h)
    /\ UNCHANGED <<files, temps, rows, headRow, putLock, acked, wins>>

\* Mutant of matches_revision: an UPDATE without its WHERE.
AnyRow(expected) == expected # 0 => headRow # None

\* INSERT ... ON CONFLICT DO NOTHING for the first revision, else
\* UPDATE ... WHERE revision = expected.
matches_revision(expected) ==
    IF expected = 0 THEN headRow = None
    ELSE headRow # None /\ headRow.revision = expected

\* Mutant of next_fits: the sum is not checked.
AlwaysFits(expected) == TRUE

\* checked_add and to_i64: HeadRevisionOverflow.
next_fits(expected) == expected + 1 <= MaxRevision

\* The transaction of update_head.
SwapHead(h) ==
    LET row == [revision |-> task[h].expected + 1, manifest |-> task[h].object] IN
    /\ At(h, "swap")
    /\ IF next_fits(task[h].expected) /\ matches_revision(task[h].expected)
       THEN headRow' = row /\ wins' = wins \cup {row}
       ELSE UNCHANGED <<headRow, wins>>
    /\ Done(h)
    /\ UNCHANGED <<files, temps, rows, putLock, acked, alarms>>

-----------------------------------------------------------------------------
\* The connection closes, the disk is full or the server stops: nothing more of the handler
\* is done.  (A statement that still reaches the database after its handler is gone finds
\* what it would have found before: no statement relies on putLock.)
Abort(h) ==
    /\ task[h] # None
    /\ Done(h)
    /\ unlock(h)
    /\ UNCHANGED <<files, temps, rows, headRow, acked, wins, alarms>>

\* The connection closes during hard_link, which is a call in a thread of its own: the
\* lock is released and the link made nevertheless.
OrphanLink(h) ==
    /\ At(h, "link")
    /\ task' = [task EXCEPT ![h].op = "orphan"]
    /\ unlock(h)
    /\ UNCHANGED <<files, temps, rows, headRow, acked, wins, alarms>>

Init ==
    /\ files = [o \in {} |-> "whole"]
    /\ temps = [h \in Handler |-> "none"]
    /\ rows = {}
    /\ headRow = None
    /\ putLock = None
    /\ task = [h \in Handler |-> None]
    /\ acked = {}
    /\ wins = {}
    /\ alarms = {}

Next ==
    \E h \in Handler :
        \/ PutObject(h) \/ CreateTemp(h) \/ WriteTemp(h) \/ LinkObject(h) \/ CatalogObject(h)
        \/ GetObject(h) \/ GetHead(h) \/ UpdateHead(h)
        \/ VerifyBackfill(h) \/ ReportMissing(h) \/ SwapHead(h)
        \/ Abort(h) \/ OrphanLink(h)

Spec == Init /\ [][Next]_vars

-----------------------------------------------------------------------------
(* Properties.                                                             *)

HeadValue == [revision : 1..MaxRevision, manifest : Object]

TypeOK ==
    /\ DOMAIN files \subseteq Object
    /\ files \in [DOMAIN files -> {"whole", "part"}]
    /\ temps \in [Handler -> {"none", "part", "whole"}]
    /\ rows \subseteq Object
    /\ headRow \in HeadValue \cup {None}
    /\ putLock \in Handler \cup {None}
    /\ task \in [Handler -> {None} \cup
            [op : {"put", "orphan", "get", "update"},
             stage : {"write", "fill", "link", "catalog", "found", "missing", "swap"},
             object : Object, expected : 0..MaxRevision]]
    /\ acked \subseteq Object
    /\ wins \subseteq HeadValue
    /\ alarms \subseteq Object

\* Whatever stops half way, the catalog lists only objects whose file is there and
\* whole, so no later read or upload meets what docs/internals.md calls corruption.
CatalogIsBacked == \A o \in rows : IsWhole(o)

\* A file at its canonical path is whole, also while it is being uploaded, after uploads
\* that stopped in the middle of writing, and when a link is made after its upload was
\* given up: a reader never sees part of an object.
FilesAreWhole == \A o \in DOMAIN files : IsWhole(o)

\* Corruption is reported for an object only if its row has no whole file.
AlarmsAreReal == \A o \in alarms : o \in rows => ~IsWhole(o)

\* The storage keeps the promises of HeadStore.
Store == INSTANCE HeadStore WITH
    objects <- {o \in DOMAIN files : IsWhole(o)},
    head <- IF headRow = None THEN [revision |-> 0, manifest |-> None] ELSE headRow

\* However head updates race and wherever they stop, no two of them publish the same
\* revision, and the head is one that was published.
OneWinnerPerRevision == Store!OneWinnerPerRevision

\* Uploads, reads, crashes and racing head updates look like atomic steps of HeadStore:
\* objects never disappear, an acknowledged upload is there, and the head moves by one
\* revision at a time, to a manifest that can be read, for one writer only.
ImplementsHeadStore == Store!Spec
=============================================================================
