--------------------------- MODULE ServerProcess ---------------------------
(***************************************************************************)
(* What a server process does before a handler of AccessServer or          *)
(* ObjectStore runs: it takes the lock of its storage root, opens the      *)
(* database of a workspace when a request first needs it, and lets signed  *)
(* requests through once.  The database handles and the nonces it has seen *)
(* are in memory and go with the process; the schema is on disk and was    *)
(* perhaps left behind by another version.                                 *)
(*                                                                         *)
(* One workspace.  What the access state says of a device is the business  *)
(* of AccessServer and is any answer here; signatures are unforgeable and  *)
(* nonces are random, so a request is its nonce and its time.  A network   *)
(* delivers a request late, repeatedly or never.                           *)
(*                                                                         *)
(* A handler whose connection closes is dropped where it waits.  What it   *)
(* has asked SQLite for is in the queue of a thread of its own, which runs *)
(* it all the same and closes the database connection some time after      *)
(* that; until then the transaction of BEGIN IMMEDIATE stays open.         *)
(***************************************************************************)
EXTENDS Naturals, FiniteSets

CONSTANTS
    Process,     \* the processes started on the storage root
    Handler,     \* requests in progress
    Nonce,       \* the nonces that devices draw
    MaxSkew,     \* MAX_TIMESTAMP_SKEW_SECONDS
    Statements,  \* how many objects the schema of version 1 consists of
    Foreign,     \* any other objects
    Databases,   \* the databases that may be on the disk at first
    MaxTime,     \* bound: the last time
    MaxStarts,   \* bound: processes started
    MaxAborts,   \* bound: connections closed in the middle of a request
    None         \* no holder, no task, no request, no database

\* The schema, as far as it is created, and the versions in schema_migrations.
Database == [objects : 0..Statements \cup {Foreign}, versions : SUBSET {1, 2}]

\* A signed request.
Request == [nonce : Nonce, stamp : Nat]

\* A request in progress: opening the database, then authenticate's second half.
Stages == {"connect", "begin", "create", "check", "register", "access"}

Task == [process : Process, request : Request \cup {None}, stage : Stages]

\* How the transaction of a dropped handler ends: by its COMMIT, if that was in the queue,
\* or when the connection is closed.
Abandoned == {"commit", "rollback"}

Transaction == [holder : Handler \cup Abandoned, db : Database]

ASSUME ProcessAssumption ==
    /\ None \notin Process \cup Handler \cup Database \cup Task \cup Transaction
    /\ Handler \cap Abandoned = {}
    /\ MaxSkew \in Nat
    /\ Statements \in Nat \ {0}
    /\ Foreign \notin Nat
    /\ Databases \subseteq Database \cup {None}
    /\ MaxTime \in Nat
    /\ MaxStarts \in Nat
    /\ MaxAborts \in Nat

VARIABLES
    clock,       \* the server's clock
    sent,        \* clients: the requests they signed
    running,     \* the processes that serve requests
    rootLock,    \* .rustsync-server.lock: the process that holds it
    db,          \* disk: the committed database
    txn,         \* disk: the write transaction, if there is one
    left,        \* memory: the statements that dropped handlers left in a queue
    registry,    \* memory: the processes that have a handle of the database
    seen,        \* memory: the replay cache of a process
    task,        \* what a handler is doing
    starts,      \* processes started so far
    aborts,      \* connections closed so far
    letThrough,  \* history variable: requests let through since the last start
    repeated,    \* history variable: those let through again since then
    newest       \* history variable: the latest time the cache was asked about since then

diskVars == <<db, txn>>
memoryVars == <<registry, seen>>
auxVars == <<starts, aborts>>
historyVars == <<letThrough, repeated, newest>>
vars == <<clock, sent, running, rootLock, diskVars, left, memoryVars, task, auxVars,
          historyVars>>

\* What can be left in a queue and change something, with the number of the abort.
Statement == (0..MaxAborts) \X {"connect", "begin"}

At(h, stage) == task[h] # None /\ task[h].stage = stage

Continue(h, stage) == task' = [task EXCEPT ![h].stage = stage]

Done(h) == task' = [task EXCEPT ![h] = None]

HasTransaction(h) == txn # None /\ txn.holder = h

-----------------------------------------------------------------------------
(* The database.                                                           *)

\* create_if_missing
Created(d) == IF d = None THEN [objects |-> 0, versions |-> {}] ELSE d

\* Mutant of validate_v1_schema: nobody looks.
AnySchema(d) == TRUE

\* Names, definitions and columns of all objects.
validate_v1_schema(d) == d.objects = Statements

\* Whether migrate accepts a database that has a schema.
Acceptable(d) == validate_v1_schema(d) /\ d.versions \subseteq {1}

\* A missing record of the migration is added.
Recorded(d) == [d EXCEPT !.versions = {1}]

-----------------------------------------------------------------------------
(* Clients and time.                                                       *)

Tick ==
    /\ clock < MaxTime
    /\ clock' = clock + 1
    /\ UNCHANGED <<sent, running, rootLock, diskVars, left, memoryVars, task, auxVars,
                   historyVars>>

\* A device signs a request with a nonce of its own and with the time it likes.  One that
\* is not within the skew is refused, by now or for good, as if it were signed later or not
\* at all.
SendSigned ==
    /\ \E nonce \in Nonce, stamp \in 0..(clock + MaxSkew) :
        /\ stamp + MaxSkew >= clock
        /\ \A r \in sent : r.nonce # nonce
        /\ sent' = sent \cup {[nonce |-> nonce, stamp |-> stamp]}
    /\ UNCHANGED <<clock, running, rootLock, diskVars, left, memoryVars, task, auxVars,
                   historyVars>>

-----------------------------------------------------------------------------
(* The process.                                                            *)

try_lock_exclusive(p) == rootLock = None /\ rootLock' = p

\* IndexedFsStorage::open.  A process that does not get the lock exits.
StartServer(p) ==
    /\ starts < MaxStarts
    /\ p \notin running
    /\ try_lock_exclusive(p)
    /\ running' = running \cup {p}
    /\ registry' = registry \ {p}
    /\ seen' = [seen EXCEPT ![p] = {}]
    /\ starts' = starts + 1
    /\ letThrough' = {}
    /\ repeated' = {}
    /\ newest' = 0
    /\ UNCHANGED <<clock, sent, diskVars, left, task, aborts>>

\* The process is stopped or crashes, and the system releases its lock and closes its
\* files.  Within the bound on starts, the last one goes on.
StopServer(p) ==
    LET own == {h \in Handler : task[h] # None /\ task[h].process = p} IN
    /\ p \in running
    /\ starts < MaxStarts
    /\ running' = running \ {p}
    /\ rootLock' = IF rootLock = p THEN None ELSE rootLock
    /\ task' = [h \in Handler |-> IF h \in own THEN None ELSE task[h]]
    /\ txn' = IF txn # None /\ txn.holder \in Handler \ own THEN txn ELSE None
    /\ left' = {}
    /\ UNCHANGED <<clock, sent, db, memoryVars, auxVars, historyVars>>

\* A connection closes and its handler is dropped.  Nothing rolls the transaction back,
\* and the statement it waits for may be in the queue.
Abort(h) ==
    /\ aborts < MaxAborts
    /\ task[h] # None
    /\ Done(h)
    /\ \/ /\ HasTransaction(h)
          /\ \E end \in Abandoned :
                /\ end = "commit" => At(h, "check") /\ Acceptable(txn.db)
                /\ txn' = [txn EXCEPT !.holder = end]
          /\ UNCHANGED left
       \/ /\ ~HasTransaction(h)
          /\ left' \in {left, left \cup ({<<aborts, task[h].stage>>} \cap Statement)}
          /\ UNCHANGED txn
    /\ aborts' = aborts + 1
    /\ UNCHANGED <<clock, sent, running, rootLock, db, memoryVars, starts, historyVars>>

\* A statement of a dropped handler runs.  A transaction that it begins is nobody's.
RunLeft ==
    /\ \E s \in left :
        /\ left' = left \ {s}
        /\ \/ s[2] = "connect" /\ db' = Created(db) /\ UNCHANGED txn
           \/ /\ s[2] = "begin"
              /\ txn' = IF txn = None THEN [holder |-> "rollback", db |-> db] ELSE txn
              /\ UNCHANGED db
    /\ UNCHANGED <<clock, sent, running, rootLock, memoryVars, task, auxVars, historyVars>>

\* The queue of a dropped handler is done and its connection closes.
EndAbandoned ==
    /\ txn # None
    /\ txn.holder \in Abandoned
    /\ db' = IF txn.holder = "commit" THEN Recorded(txn.db) ELSE db
    /\ txn' = None
    /\ UNCHANGED <<clock, sent, running, rootLock, left, memoryVars, task, auxVars, historyVars>>

-----------------------------------------------------------------------------
(* get_or_open, get_existing and WorkspaceDb::open.                        *)

\* The pool connects and switches to the write-ahead log, which also rewrites the header
\* of a database that is refused later on; here a database is its schema.
Connect(h) ==
    /\ At(h, "connect")
    /\ db' = Created(db)
    /\ Continue(h, "begin")
    /\ UNCHANGED <<clock, sent, running, rootLock, txn, left, memoryVars, auxVars,
                   historyVars>>

\* BEGIN IMMEDIATE waits for the write transaction of another connection, abandoned or
\* not.
BeginImmediate(h) ==
    /\ At(h, "begin")
    /\ txn = None
    /\ txn' = [holder |-> h, db |-> db]
    /\ Continue(h, IF db.objects = 0 THEN "create" ELSE "check")
    /\ UNCHANGED <<clock, sent, running, rootLock, db, left, memoryVars, auxVars,
                   historyVars>>

\* It waits busy_timeout and fails.
BusyTimeout(h) ==
    /\ At(h, "begin")
    /\ txn # None
    /\ Done(h)
    /\ UNCHANGED <<clock, sent, running, rootLock, diskVars, left, memoryVars, auxVars,
                   historyVars>>

\* Mutant of execute: the statements are not part of the transaction.
ExecuteAtOnce(new) == db' = new /\ txn' = [txn EXCEPT !.db = new]

execute(new) == txn' = [txn EXCEPT !.db = new] /\ UNCHANGED db

\* Mutant of more_statements: one too many.
OneMore(d) == d.objects <= Statements

more_statements(d) == d.objects < Statements

\* The statements of V1_MIGRATION, one after the other.
CreateObject(h) ==
    /\ At(h, "create")
    /\ more_statements(txn.db)
    /\ execute([txn.db EXCEPT !.objects = @ + 1])
    /\ UNCHANGED <<clock, sent, running, rootLock, left, memoryVars, task, auxVars,
                   historyVars>>

\* INSERT INTO schema_migrations
RecordMigration(h) ==
    /\ At(h, "create")
    /\ ~more_statements(txn.db)
    /\ execute([txn.db EXCEPT !.versions = {1}])
    /\ Continue(h, "check")
    /\ UNCHANGED <<clock, sent, running, rootLock, left, memoryVars, auxVars, historyVars>>

\* COMMIT
Commit(h) ==
    /\ At(h, "check")
    /\ Acceptable(txn.db)
    /\ db' = Recorded(txn.db)
    /\ txn' = None
    /\ Continue(h, "register")
    /\ UNCHANGED <<clock, sent, running, rootLock, left, memoryVars, auxVars, historyVars>>

\* UnsupportedSchemaVersion and CorruptDatabase.  ROLLBACK
Refuse(h) ==
    /\ At(h, "check")
    /\ ~Acceptable(txn.db)
    /\ txn' = None
    /\ Done(h)
    /\ UNCHANGED <<clock, sent, running, rootLock, db, left, memoryVars, auxVars,
                   historyVars>>

\* Whoever opened the database first has registered it.
Register(h) ==
    /\ At(h, "register")
    /\ registry' = registry \cup {task[h].process}
    /\ IF task[h].request = None THEN Done(h) ELSE Continue(h, "access")
    /\ UNCHANGED <<clock, sent, running, rootLock, diskVars, left, seen, auxVars,
                   historyVars>>

-----------------------------------------------------------------------------
(* authenticate.                                                           *)

AbsDiff(a, b) == IF a > b THEN a - b ELSE b - a

validate_timestamp(stamp) == AbsDiff(clock, stamp) <= MaxSkew

\* The time is checked, then the access state is needed.  Without a database it is the
\* empty one, which knows no device.
Authenticate(h) ==
    /\ task[h] = None
    /\ db # None
    /\ \E p \in running, r \in sent :
        /\ validate_timestamp(r.stamp)
        /\ task' = [task EXCEPT ![h] = [process |-> p, request |-> r,
                        stage |-> IF p \in registry THEN "access" ELSE "connect"]]
    /\ UNCHANGED <<clock, sent, running, rootLock, diskVars, left, memoryVars, auxVars,
                   historyVars>>

SaturatingSub(a, b) == IF a > b THEN a - b ELSE 0

\* Mutant of retain: entries at the edge of the window go, too.
RetainLater(entries, stamp) == {q \in entries : q.stamp > SaturatingSub(stamp, MaxSkew)}

retain(entries, stamp) == {q \in entries : q.stamp >= SaturatingSub(stamp, MaxSkew)}

\* ReplayCache::check_and_record: the cache is pruned, whether r is new or not.
check_and_record(p, r, new) ==
    LET kept == retain(seen[p], r.stamp) IN
    /\ newest' = IF r.stamp > newest THEN r.stamp ELSE newest
    /\ new = \A q \in kept : q.nonce # r.nonce
    /\ seen' = [seen EXCEPT ![p] = IF new THEN kept \cup {r} ELSE kept]

LetThrough(r) ==
    /\ letThrough' = letThrough \cup {r}
    /\ repeated' = IF r \in letThrough THEN repeated \cup {r} ELSE repeated

\* The access state was read: the device is a member and signed the request.  Its nonce
\* is recorded, and only then is its permission looked at.
Admit(h) ==
    /\ At(h, "access")
    /\ check_and_record(task[h].process, task[h].request, TRUE)
    /\ Done(h)
    /\ \/ LetThrough(task[h].request)
       \/ UNCHANGED <<letThrough, repeated>>
    /\ UNCHANGED <<clock, sent, running, rootLock, diskVars, left, registry, auxVars>>

\* ReplayDetected
RejectReplay(h) ==
    /\ At(h, "access")
    /\ check_and_record(task[h].process, task[h].request, FALSE)
    /\ Done(h)
    /\ UNCHANGED <<clock, sent, running, rootLock, diskVars, left, registry, auxVars,
                   letThrough, repeated>>

\* The device is no member, or the signature is not its own.
RejectStranger(h) ==
    /\ At(h, "access")
    /\ Done(h)
    /\ UNCHANGED <<clock, sent, running, rootLock, diskVars, left, memoryVars, auxVars,
                   historyVars>>

\* verify_bootstrap_signature: the request brings its device record along, so that no
\* access state is read.  Then the database is opened, whether there is one or not (and
\* also by submit_join_request if there is one).
CreateWorkspace(h) ==
    /\ task[h] = None
    /\ \E p \in running \ registry, r \in sent :
        /\ validate_timestamp(r.stamp)
        /\ check_and_record(p, r, TRUE)
        /\ LetThrough(r)
        /\ task' = [task EXCEPT ![h] = [process |-> p, stage |-> "connect", request |-> None]]
    /\ UNCHANGED <<clock, sent, running, rootLock, diskVars, left, registry, auxVars>>

\* verify_join_request_http_signature: likewise, and nothing is left to open.
SubmitJoinRequest(p) ==
    /\ p \in running
    /\ \E r \in sent :
        /\ validate_timestamp(r.stamp)
        /\ \/ /\ p \in registry \/ db = None
              /\ check_and_record(p, r, TRUE)
              /\ LetThrough(r)
           \/ check_and_record(p, r, FALSE) /\ UNCHANGED <<letThrough, repeated>>
    /\ UNCHANGED <<clock, sent, running, rootLock, diskVars, left, registry, task, auxVars>>

-----------------------------------------------------------------------------
Init ==
    /\ clock = 0
    /\ sent = {}
    /\ running = {}
    /\ rootLock = None
    /\ db \in Databases
    /\ txn = None
    /\ left = {}
    /\ registry = {}
    /\ seen = [p \in Process |-> {}]
    /\ task = [h \in Handler |-> None]
    /\ starts = 0
    /\ aborts = 0
    /\ letThrough = {}
    /\ repeated = {}
    /\ newest = 0

Next ==
    \/ Tick
    \/ SendSigned
    \/ RunLeft
    \/ EndAbandoned
    \/ \E p \in Process : StartServer(p) \/ StopServer(p) \/ SubmitJoinRequest(p)
    \/ \E h \in Handler :
        \/ Connect(h) \/ BeginImmediate(h) \/ BusyTimeout(h)
        \/ CreateObject(h) \/ RecordMigration(h) \/ Commit(h) \/ Refuse(h) \/ Register(h)
        \/ Abort(h)
        \/ Authenticate(h) \/ Admit(h) \/ RejectReplay(h) \/ RejectStranger(h)
        \/ CreateWorkspace(h)

Spec == Init /\ [][Next]_vars

-----------------------------------------------------------------------------
(* Properties.                                                             *)

TypeOK ==
    /\ clock \in 0..MaxTime
    /\ sent \subseteq Request
    /\ running \subseteq Process
    /\ rootLock \in Process \cup {None}
    /\ db \in Database \cup {None}
    /\ txn \in {None} \cup Transaction
    /\ left \subseteq Statement
    /\ registry \subseteq Process
    /\ seen \in [Process -> SUBSET sent]
    /\ task \in [Handler -> {None} \cup
            [process : Process, request : sent \cup {None}, stage : Stages]]
    /\ starts \in 0..MaxStarts
    /\ aborts \in 0..MaxAborts
    /\ letThrough \subseteq sent
    /\ repeated \subseteq sent
    /\ newest \in Nat

\* A signed request has its effect once.  Between two starts of a server, one that is
\* delivered again is let through again only after the cache was asked about a request
\* more than MaxSkew newer, at whose time the first would have been refused: although
\* the time is checked before the access state is read and the nonce recorded after, and
\* however many handlers do so at once.  Two servers on one storage root would break it.
RepeatsAreStale == \A r \in repeated : r.stamp + MaxSkew < newest

\* "The server accepts timestamps within five minutes of its clock and rejects nonce reuse
\* within its in-memory replay window": what is let through a second time between two
\* starts is no longer within MaxSkew of the server's clock.
ReuseRejected == \A r \in repeated : ~validate_timestamp(r.stamp)

\* A request is served only from a database whose schema is complete and recorded once,
\* whoever else was opening it, and whoever of them was dropped with its transaction open
\* or its COMMIT in the queue.
ServedFromWholeSchema ==
    running \cap registry # {} => db = [objects |-> Statements, versions |-> {1}]

\* The schemas that migrate accepts, creates or completes.
Supported(d) == d = None \/ d.objects = 0 \/ Acceptable(d)

\* Opening is all or nothing: wherever an opening stops, the database can be opened
\* afterwards if it could be before, and one of another version is left alone.
OpeningIsAtomic == [][IF Supported(db) THEN Supported(db') ELSE db' = db]_vars
=============================================================================
