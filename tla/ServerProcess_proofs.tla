------------------------- MODULE ServerProcess_proofs -------------------------
(***************************************************************************)
(* Proofs about ServerProcess, for any number of processes, requests and   *)
(* devices, any clock skew and any length of the schema: a request is let  *)
(* through once while it is fresh, and what is served has a whole schema.  *)
(***************************************************************************)
EXTENDS ServerProcess, TLAPS

\* The schema of version 1, recorded.
Whole == [objects |-> Statements, versions |-> {1}]

Opening(h) == At(h, "create") \/ At(h, "check")

\* The lock of the root is that of the one process that serves requests.
OneProcess == \A p \in running : rootLock = p

\* What is in progress is in progress in a process that runs.
TasksRun == \A h \in Handler : task[h] # None => task[h].process \in running

\* The only handler that holds the write transaction is one that creates or checks.
TransactionHeld ==
    /\ txn # None => txn.holder \in Abandoned \/ Opening(txn.holder)
    /\ txn # None => db # None
    /\ \A h \in Handler : Opening(h) => txn # None /\ txn.holder = h

\* What may be committed over a database: what was there, or the schema that was created.
Fits(d, new) == new = d \/ (d.objects = 0 /\ new = Whole)

\* What is in the transaction: nothing was committed before the statements, and what is
\* checked is what was there or the schema that was just created.
TransactionFits ==
    \A h \in Handler :
        /\ At(h, "create") => db.objects = 0 /\ txn.db.objects \in 0..Statements
        /\ At(h, "check") => Fits(db, txn.db)

\* What dropped handlers left behind: a COMMIT of what they had checked, and statements of
\* a connection to a database that is there.
LeftFits ==
    /\ (txn # None /\ txn.holder = "commit") => Acceptable(txn.db) /\ Fits(db, txn.db)
    /\ \A s \in left : s[2] = "begin" => db # None

\* Who waits for the transaction has connected, and who is past it finds a whole schema.
Opened ==
    /\ \A h \in Handler : At(h, "begin") => db # None
    /\ \A h \in Handler : At(h, "register") \/ At(h, "access") => db = Whole
    /\ ServedFromWholeSchema

SchemaInv == TransactionHeld /\ TransactionFits /\ LeftFits /\ Opened

Stale(r) == r.stamp + MaxSkew < newest

\* The running process remembers what it let through, unless it is stale: an entry is
\* pruned for a request whose time is more than MaxSkew later.
Remembered ==
    \A p \in running : \A r \in letThrough : r \in seen[p] \/ Stale(r)

\* What waits for the access state is a request that was sent.
RequestsSent == \A h \in Handler : At(h, "access") => task[h].request \in sent

ReplayInv == Remembered /\ RequestsSent /\ RepeatsAreStale

ProcessInv == TypeOK /\ OneProcess /\ TasksRun

Inv == ProcessInv /\ SchemaInv /\ ReplayInv

-----------------------------------------------------------------------------
(* What a step does to the tasks.                                          *)

\* The task records of TypeOK.
OwnTask == [process : Process, request : sent \cup {None}, stage : Stages]

LEMMA OwnTaskIsTask ==
    ASSUME TypeOK, NEW t \in OwnTask
    PROVE  t \in Task /\ t # None
  BY ProcessAssumption DEF TypeOK, OwnTask, Task

\* The tasks after a step that gives h the task t.
LEMMA TaskStep ==
    ASSUME TypeOK, NEW h \in Handler, NEW t \in OwnTask \cup {None},
           task' = [task EXCEPT ![h] = t]
    PROVE  /\ task' \in [Handler -> {None} \cup OwnTask]
           /\ task'[h] = t
           /\ \A g \in Handler : g # h => task'[g] = task[g]
  BY DEF TypeOK, OwnTask

\* A task that goes on.
LEMMA ContinueStep ==
    ASSUME TypeOK, NEW h \in Handler, task[h] # None, NEW stage \in Stages,
           Continue(h, stage)
    PROVE  /\ task' \in [Handler -> {None} \cup OwnTask]
           /\ task'[h] # None
           /\ task'[h].stage = stage
           /\ task'[h].process = task[h].process
           /\ task'[h].request = task[h].request
           /\ \A g \in Handler : g # h => task'[g] = task[g]
<1>1. task[h] \in OwnTask
  BY DEF TypeOK, OwnTask
<1>2. task' = [task EXCEPT ![h] = [task[h] EXCEPT !.stage = stage]]
  BY DEF Continue
<1>3. [task[h] EXCEPT !.stage = stage] \in OwnTask
  BY <1>1 DEF OwnTask
<1> QED
  BY <1>1, <1>2, <1>3, TaskStep, OwnTaskIsTask DEF OwnTask

LEMMA DoneStep ==
    ASSUME TypeOK, NEW h \in Handler, Done(h)
    PROVE  /\ task' \in [Handler -> {None} \cup OwnTask]
           /\ task'[h] = None
           /\ \A g \in Handler : g # h => task'[g] = task[g]
  BY TaskStep DEF Done

-----------------------------------------------------------------------------
(* Processes and types.                                                    *)

LEMMA InitProcess == Init => ProcessInv
  BY ProcessAssumption DEF Init, ProcessInv, TypeOK, OneProcess, TasksRun

\* The steps of clients and of time.
LEMMA ClientsKeepProcess ==
    ASSUME ProcessInv, Tick \/ SendSigned
    PROVE  ProcessInv'
<1>1. CASE Tick
  BY <1>1, ProcessAssumption
     DEF Tick, ProcessInv, TypeOK, OneProcess, TasksRun, diskVars, memoryVars, auxVars, historyVars
<1>2. CASE SendSigned
  <2>1. PICK nonce \in Nonce, stamp \in 0..(clock + MaxSkew) :
            sent' = sent \cup {[nonce |-> nonce, stamp |-> stamp]}
    BY <1>2 DEF SendSigned
  <2>2. sent \subseteq sent' /\ sent' \subseteq Request
    BY <2>1, ProcessAssumption DEF ProcessInv, TypeOK, Request
  <2>3. seen' \in [Process -> SUBSET sent']
    BY <1>2, <2>2 DEF SendSigned, ProcessInv, TypeOK, memoryVars
  <2>4. TypeOK'
    BY <1>2, <2>2, <2>3 DEF SendSigned, ProcessInv, TypeOK, diskVars, memoryVars, auxVars, historyVars
  <2> QED
    BY <1>2, <2>4 DEF SendSigned, ProcessInv, OneProcess, TasksRun
<1> QED BY <1>1, <1>2

LEMMA StartKeepsProcess ==
    ASSUME ProcessInv, NEW p \in Process, StartServer(p)
    PROVE  ProcessInv'
<1>1. p # None /\ running = {}
  BY ProcessAssumption DEF StartServer, try_lock_exclusive, ProcessInv, TypeOK, OneProcess
<1>2. TypeOK'
  BY ProcessAssumption
     DEF StartServer, try_lock_exclusive, ProcessInv, TypeOK, diskVars
<1> QED
  BY <1>1, <1>2
     DEF StartServer, try_lock_exclusive, ProcessInv, TypeOK, OneProcess, TasksRun, diskVars

LEMMA StopKeepsProcess ==
    ASSUME ProcessInv, NEW p \in Process, StopServer(p)
    PROVE  ProcessInv'
<1> DEFINE own == {h \in Handler : task[h] # None /\ task[h].process = p}
<1>1. task' = [h \in Handler |-> IF h \in own THEN None ELSE task[h]]
  BY DEF StopServer
<1>2. TypeOK'
  BY <1>1 DEF StopServer, ProcessInv, TypeOK, memoryVars, auxVars, historyVars
<1>3. OneProcess'
  BY DEF StopServer, ProcessInv, OneProcess, TypeOK
<1>4. TasksRun'
  BY <1>1 DEF StopServer, ProcessInv, TasksRun
<1> QED
  BY <1>2, <1>3, <1>4 DEF ProcessInv

\* A handler's step leaves the processes alone; its task stays in one that runs.
LEMMA HandlerKeepsProcess ==
    ASSUME ProcessInv, TypeOK', UNCHANGED <<running, rootLock>>, NEW h \in Handler,
           \A g \in Handler : g # h => task'[g] = task[g],
           task'[h] # None => task'[h].process \in running
    PROVE  ProcessInv'
  BY DEF ProcessInv, OneProcess, TasksRun

-----------------------------------------------------------------------------
(* Opening the database.                                                   *)

LEMMA InitSchema == Init => SchemaInv
  BY DEF Init, SchemaInv, TransactionHeld, TransactionFits, LeftFits, Opened, Opening, At,
         ServedFromWholeSchema

\* Who creates or checks does so in a transaction of its own.
LEMMA OpeningHolds ==
    ASSUME TypeOK, TransactionHeld, NEW h \in Handler, Opening(h)
    PROVE  /\ txn \in Transaction /\ txn.holder = h
           /\ txn.db \in Database
           /\ db \in Database
           /\ \A g \in Handler : g # h => ~Opening(g)
  BY DEF TypeOK, TransactionHeld, Transaction

\* A step that leaves the disk alone, of a handler outside a transaction.
LEMMA SameDisk ==
    ASSUME TypeOK, SchemaInv, UNCHANGED <<db, txn, left>>, NEW h \in Handler,
           \A g \in Handler : g # h => task'[g] = task[g],
           ~Opening(h), ~Opening(h)',
           At(h, "begin")' => db # None,
           At(h, "register")' \/ At(h, "access")' => db = Whole,
           ServedFromWholeSchema'
    PROVE  SchemaInv'
<1>1. \A g \in Handler : Opening(g)' <=> Opening(g)
  BY DEF Opening, At
<1>2. TransactionHeld'
  <2>1. txn # None => txn.holder \in Handler \cup Abandoned
    BY DEF TypeOK, Transaction
  <2>2. CASE txn = None
    BY <1>1, <2>2 DEF SchemaInv, TransactionHeld
  <2>3. CASE txn # None
    BY <1>1, <2>1, <2>3 DEF SchemaInv, TransactionHeld
  <2> QED BY <2>2, <2>3
<1>3. TransactionFits'
  BY DEF SchemaInv, TransactionFits, Fits, Opening, At
<1>4. Opened'
  BY DEF SchemaInv, Opened, At
<1>5. LeftFits'
  BY DEF SchemaInv, LeftFits
<1> QED
  BY <1>2, <1>3, <1>4, <1>5 DEF SchemaInv

LEMMA ConnectKeepsInv ==
    ASSUME ProcessInv, SchemaInv, NEW h \in Handler, Connect(h)
    PROVE  ProcessInv' /\ SchemaInv'
<1>1. /\ task' \in [Handler -> {None} \cup OwnTask]
      /\ task'[h] # None /\ task'[h].stage = "begin"
      /\ task'[h].process = task[h].process
      /\ \A g \in Handler : g # h => task'[g] = task[g]
  BY ContinueStep DEF Connect, At, Stages, ProcessInv
<1>2. db' # None /\ db' \in Database
  <2>1. [objects |-> 0, versions |-> {}] \in Database
    BY ProcessAssumption DEF Database
  <2> QED
    BY <2>1, ProcessAssumption DEF Connect, Created, ProcessInv, TypeOK
<1>3. TypeOK'
  BY <1>1, <1>2 DEF Connect, ProcessInv, TypeOK, OwnTask, memoryVars, auxVars, historyVars
<1>4. ProcessInv'
  BY <1>1, <1>3, HandlerKeepsProcess DEF Connect, At, ProcessInv, TasksRun
<1>5. CASE db # None
  <2>1. ServedFromWholeSchema'
    BY <1>5 DEF Connect, Created, SchemaInv, Opened, ServedFromWholeSchema, memoryVars
  <2> QED
    BY <1>1, <1>2, <1>4, <1>5, <2>1, SameDisk DEF Connect, Created, Opening, At, ProcessInv
<1>6. CASE db = None
  <2>1. txn = None /\ \A g \in Handler : ~Opening(g) /\ ~At(g, "begin")
    BY <1>6 DEF SchemaInv, TransactionHeld, Opened
  <2>2. db # Whole
    BY <1>6, ProcessAssumption DEF Whole, Database
  <2>3. \A g \in Handler : ~At(g, "register") /\ ~At(g, "access")
    BY <2>2 DEF SchemaInv, Opened
  <2>4. \A g \in Handler : ~Opening(g)' /\ ~At(g, "register")' /\ ~At(g, "access")'
    BY <1>1, <2>1, <2>3 DEF Opening, At
  <2>5. running' \cap registry' = {}
    BY <2>2 DEF Connect, SchemaInv, Opened, ServedFromWholeSchema, Whole, memoryVars
  <2> QED
    BY <1>2, <1>4, <2>1, <2>4, <2>5
       DEF Connect, SchemaInv, TransactionHeld, TransactionFits, LeftFits, Opened,
           ServedFromWholeSchema, Opening
<1> QED BY <1>4, <1>5, <1>6

LEMMA BeginKeepsInv ==
    ASSUME ProcessInv, SchemaInv, NEW h \in Handler, BeginImmediate(h)
    PROVE  ProcessInv' /\ SchemaInv'
<1> DEFINE stage == IF db.objects = 0 THEN "create" ELSE "check"
<1>1. /\ task' \in [Handler -> {None} \cup OwnTask]
      /\ task'[h] # None /\ task'[h].stage = stage
      /\ task'[h].process = task[h].process
      /\ \A g \in Handler : g # h => task'[g] = task[g]
  BY ContinueStep DEF BeginImmediate, At, Stages, ProcessInv
<1>2. db \in Database /\ txn' = [holder |-> h, db |-> db]
  BY DEF BeginImmediate, SchemaInv, Opened, ProcessInv, TypeOK
<1>3. txn' \in Transaction /\ txn' # None
  BY <1>2, ProcessAssumption DEF Transaction
<1>4. TypeOK'
  BY <1>1, <1>3 DEF BeginImmediate, ProcessInv, TypeOK, OwnTask, memoryVars, auxVars, historyVars
<1>5. ProcessInv'
  BY <1>1, <1>4, HandlerKeepsProcess DEF BeginImmediate, At, ProcessInv, TasksRun
<1>6. \A g \in Handler : ~Opening(g)
  BY DEF BeginImmediate, SchemaInv, TransactionHeld
<1>7. Opening(h)' /\ \A g \in Handler : Opening(g)' => g = h
  BY <1>1, <1>6 DEF Opening, At
<1>8. TransactionHeld'
  BY <1>2, <1>3, <1>7, ProcessAssumption DEF BeginImmediate, TransactionHeld
<1>9. TransactionFits'
  BY <1>1, <1>2, <1>7, ProcessAssumption DEF BeginImmediate, TransactionFits, Fits, Opening, At
<1>10. Opened'
  BY <1>1 DEF BeginImmediate, SchemaInv, Opened, ServedFromWholeSchema, At, memoryVars
<1>11. LeftFits'
  BY <1>2, ProcessAssumption DEF BeginImmediate, SchemaInv, LeftFits, Abandoned
<1> QED
  BY <1>5, <1>8, <1>9, <1>10, <1>11 DEF SchemaInv

LEMMA TimeoutKeepsInv ==
    ASSUME ProcessInv, SchemaInv, NEW h \in Handler, BusyTimeout(h)
    PROVE  ProcessInv' /\ SchemaInv'
<1>1. /\ task' \in [Handler -> {None} \cup OwnTask]
      /\ task'[h] = None
      /\ \A g \in Handler : g # h => task'[g] = task[g]
  BY DoneStep DEF BusyTimeout, ProcessInv
<1>2. TypeOK'
  BY <1>1 DEF BusyTimeout, ProcessInv, TypeOK, OwnTask, diskVars, memoryVars, auxVars, historyVars
<1>3. ProcessInv'
  BY <1>1, <1>2, HandlerKeepsProcess DEF BusyTimeout
<1>4. ServedFromWholeSchema'
  BY DEF BusyTimeout, SchemaInv, Opened, ServedFromWholeSchema, diskVars, memoryVars
<1> QED
  BY <1>1, <1>3, <1>4, SameDisk DEF BusyTimeout, Opening, At, diskVars, ProcessInv

LEMMA CreateKeepsInv ==
    ASSUME ProcessInv, SchemaInv, NEW h \in Handler, CreateObject(h)
    PROVE  ProcessInv' /\ SchemaInv'
<1> DEFINE new == [txn.db EXCEPT !.objects = @ + 1]
<1>1. /\ txn \in Transaction /\ txn.holder = h
      /\ txn.db \in Database /\ db \in Database
      /\ \A g \in Handler : g # h => ~Opening(g)
  BY OpeningHolds DEF CreateObject, Opening, ProcessInv, SchemaInv
<1>2. db.objects = 0 /\ txn.db.objects \in 0..Statements
  BY DEF CreateObject, SchemaInv, TransactionFits, Fits
<1>3. new \in Database /\ new.objects \in 0..Statements
  BY <1>1, <1>2, ProcessAssumption DEF CreateObject, more_statements, Database
<1>4. txn' \in Transaction /\ txn' # None /\ txn'.holder = h /\ txn'.db = new
  BY <1>1, <1>3, ProcessAssumption DEF CreateObject, execute, Transaction
<1>5. TypeOK'
  BY <1>4 DEF CreateObject, execute, ProcessInv, TypeOK, memoryVars, auxVars, historyVars
<1>6. ProcessInv'
  BY <1>5, HandlerKeepsProcess DEF CreateObject, At, ProcessInv, TasksRun
<1>7. TransactionHeld'
  BY <1>1, <1>4, ProcessAssumption
     DEF CreateObject, execute, TransactionHeld, Opening, At
<1>8. TransactionFits'
  BY <1>1, <1>2, <1>3, <1>4
     DEF CreateObject, execute, TransactionFits, Fits, Opening, At
<1>9. Opened'
  BY DEF CreateObject, execute, SchemaInv, Opened, ServedFromWholeSchema, At, memoryVars
<1>10. LeftFits'
  BY <1>4, ProcessAssumption DEF CreateObject, execute, SchemaInv, LeftFits, Abandoned
<1> QED
  BY <1>6, <1>7, <1>8, <1>9, <1>10 DEF SchemaInv

LEMMA RecordKeepsInv ==
    ASSUME ProcessInv, SchemaInv, NEW h \in Handler, RecordMigration(h)
    PROVE  ProcessInv' /\ SchemaInv'
<1> DEFINE new == [txn.db EXCEPT !.versions = {1}]
<1>1. /\ task' \in [Handler -> {None} \cup OwnTask]
      /\ task'[h] # None /\ task'[h].stage = "check"
      /\ task'[h].process = task[h].process
      /\ \A g \in Handler : g # h => task'[g] = task[g]
  BY ContinueStep DEF RecordMigration, At, Stages, ProcessInv
<1>2. /\ txn \in Transaction /\ txn.holder = h
      /\ txn.db \in Database /\ db \in Database
      /\ \A g \in Handler : g # h => ~Opening(g)
  BY OpeningHolds DEF RecordMigration, Opening, ProcessInv, SchemaInv
<1>3. db.objects = 0 /\ txn.db.objects \in 0..Statements
  BY DEF RecordMigration, SchemaInv, TransactionFits, Fits
<1>4. new = Whole /\ Whole \in Database
  <2>1. txn.db.objects = Statements
    BY <1>3, ProcessAssumption DEF RecordMigration, more_statements
  <2> QED
    BY <1>2, <2>1, ProcessAssumption DEF Database, Whole
<1>5. txn' \in Transaction /\ txn' # None /\ txn'.holder = h /\ txn'.db = Whole
  BY <1>2, <1>4, ProcessAssumption DEF RecordMigration, execute, Transaction
<1>6. TypeOK'
  BY <1>1, <1>5 DEF RecordMigration, execute, ProcessInv, TypeOK, OwnTask, memoryVars, auxVars, historyVars
<1>7. ProcessInv'
  BY <1>1, <1>6, HandlerKeepsProcess DEF RecordMigration, At, ProcessInv, TasksRun
<1>8. TransactionHeld'
  BY <1>1, <1>2, <1>5, ProcessAssumption
     DEF RecordMigration, execute, TransactionHeld, Opening, At
<1>9. TransactionFits'
  BY <1>1, <1>2, <1>3, <1>5 DEF RecordMigration, execute, TransactionFits, Fits, Opening, At
<1>10. Opened'
  BY <1>1 DEF RecordMigration, execute, SchemaInv, Opened, ServedFromWholeSchema, At,
              memoryVars
<1>11. LeftFits'
  BY <1>5, ProcessAssumption DEF RecordMigration, execute, SchemaInv, LeftFits, Abandoned
<1> QED
  BY <1>7, <1>8, <1>9, <1>10, <1>11 DEF SchemaInv

LEMMA CommitKeepsInv ==
    ASSUME ProcessInv, SchemaInv, NEW h \in Handler, Commit(h)
    PROVE  ProcessInv' /\ SchemaInv' /\ db' = Whole
<1>1. /\ task' \in [Handler -> {None} \cup OwnTask]
      /\ task'[h] # None /\ task'[h].stage = "register"
      /\ task'[h].process = task[h].process
      /\ \A g \in Handler : g # h => task'[g] = task[g]
  BY ContinueStep DEF Commit, At, Stages, ProcessInv
<1>2. /\ txn.db \in Database
      /\ \A g \in Handler : g # h => ~Opening(g)
  BY OpeningHolds DEF Commit, Opening, ProcessInv, SchemaInv
<1>3. db' = Whole /\ Whole \in Database
  BY <1>2, ProcessAssumption
     DEF Commit, Recorded, Acceptable, validate_v1_schema, Database, Whole
<1>4. TypeOK'
  BY <1>1, <1>3 DEF Commit, ProcessInv, TypeOK, OwnTask, memoryVars, auxVars, historyVars
<1>5. ProcessInv'
  BY <1>1, <1>4, HandlerKeepsProcess DEF Commit, At, ProcessInv, TasksRun
<1>6. \A g \in Handler : ~Opening(g)'
  BY <1>1, <1>2 DEF Opening, At
<1>7. TransactionHeld' /\ TransactionFits'
  BY <1>6 DEF Commit, TransactionHeld, TransactionFits, Fits, Opening
<1>8. Opened'
  BY <1>3, ProcessAssumption DEF Opened, ServedFromWholeSchema, Whole
<1>9. LeftFits'
  BY <1>3, ProcessAssumption DEF Commit, LeftFits
<1> QED
  BY <1>3, <1>5, <1>7, <1>8, <1>9 DEF SchemaInv

\* ROLLBACK leaves what was committed.
LEMMA RefuseKeepsInv ==
    ASSUME ProcessInv, SchemaInv, NEW h \in Handler, Refuse(h)
    PROVE  ProcessInv' /\ SchemaInv'
<1>1. /\ task' \in [Handler -> {None} \cup OwnTask]
      /\ task'[h] = None
      /\ \A g \in Handler : g # h => task'[g] = task[g]
  BY DoneStep DEF Refuse, ProcessInv
<1>2. TypeOK'
  BY <1>1 DEF Refuse, ProcessInv, TypeOK, OwnTask, memoryVars, auxVars, historyVars
<1>3. \A g \in Handler : g # h => ~Opening(g)
  BY OpeningHolds DEF Refuse, Opening, ProcessInv, SchemaInv
<1>4. \A g \in Handler : ~Opening(g)'
  BY <1>1, <1>3 DEF Opening, At
<1>5. TransactionHeld' /\ TransactionFits'
  BY <1>4 DEF Refuse, TransactionHeld, TransactionFits, Opening
<1>6. LeftFits' /\ Opened'
  BY <1>1 DEF Refuse, SchemaInv, LeftFits, Opened, ServedFromWholeSchema, At, memoryVars
<1>7. ProcessInv'
  BY <1>1, <1>2, HandlerKeepsProcess DEF Refuse
<1> QED
  BY <1>5, <1>6, <1>7 DEF SchemaInv

\* A handler that is dropped leaves its transaction to the thread of its connection, or
\* the statement it waited for.
LEMMA AbortKeepsInv ==
    ASSUME ProcessInv, SchemaInv, NEW h \in Handler, Abort(h)
    PROVE  ProcessInv' /\ SchemaInv'
<1>1. /\ task' \in [Handler -> {None} \cup OwnTask]
      /\ task'[h] = None
      /\ \A g \in Handler : g # h => task'[g] = task[g]
  BY DoneStep DEF Abort, ProcessInv
<1>2. ~Opening(h)' /\ \A g \in Handler : g # h => (Opening(g)' <=> Opening(g))
  BY <1>1 DEF Opening, At
<1>3. Opening(h) <=> HasTransaction(h)
  BY ProcessAssumption DEF SchemaInv, TransactionHeld, HasTransaction
<1>4. UNCHANGED <<db, running, rootLock, registry, clock, sent, seen, starts, letThrough,
                  repeated, newest>>
      /\ aborts' \in 0..MaxAborts
  BY ProcessAssumption DEF Abort, memoryVars, historyVars, ProcessInv, TypeOK
<1>5. CASE HasTransaction(h)
  <2>1. PICK end \in Abandoned :
            /\ end = "commit" => At(h, "check") /\ Acceptable(txn.db)
            /\ txn' = [txn EXCEPT !.holder = end]
            /\ left' = left
    BY <1>5 DEF Abort
  <2>2. txn \in Transaction
    BY <1>5 DEF HasTransaction, ProcessInv, TypeOK
  <2>3. txn' \in Transaction /\ txn' # None /\ txn'.holder = end /\ txn'.db = txn.db
    BY <2>1, <2>2, ProcessAssumption DEF Transaction
  <2>4. TypeOK'
    BY <1>1, <1>4, <2>1, <2>3 DEF ProcessInv, TypeOK, OwnTask
  <2>5. \A g \in Handler : ~Opening(g)'
    BY <1>2, <1>5 DEF SchemaInv, TransactionHeld, HasTransaction
  <2>6. TransactionHeld' /\ TransactionFits'
    BY <1>4, <1>5, <2>3, <2>5
       DEF SchemaInv, TransactionHeld, TransactionFits, Opening, HasTransaction
  <2>7. LeftFits'
    BY <1>4, <2>1, <2>3 DEF SchemaInv, LeftFits, TransactionFits
  <2>8. Opened'
    BY <1>1, <1>4 DEF SchemaInv, Opened, ServedFromWholeSchema, At
  <2>9. ProcessInv'
    BY <1>1, <1>4, <2>4, HandlerKeepsProcess
  <2> QED BY <2>6, <2>7, <2>8, <2>9 DEF SchemaInv
<1>6. CASE ~HasTransaction(h)
  <2>1. /\ txn' = txn
        /\ left' \in {left, left \cup ({<<aborts, task[h].stage>>} \cap Statement)}
    BY <1>6 DEF Abort
  <2>2. left' \subseteq Statement
    BY <2>1 DEF ProcessInv, TypeOK
  <2>3. TypeOK'
    BY <1>1, <1>4, <2>1, <2>2 DEF ProcessInv, TypeOK, OwnTask
  <2>4. TransactionHeld'
    <3>1. txn # None => txn.holder \in Handler \cup Abandoned
      BY DEF ProcessInv, TypeOK, Transaction
    <3> QED
      BY <1>2, <1>3, <1>4, <1>6, <2>1, <3>1
         DEF SchemaInv, TransactionHeld, HasTransaction
  <2>5. TransactionFits'
    BY <1>1, <1>2, <1>3, <1>4, <1>6, <2>1 DEF SchemaInv, TransactionFits, Opening, At
  <2>6. LeftFits'
    <3>1. \A s \in left' : s \in left \/ s = <<aborts, task[h].stage>>
      BY <2>1
    <3>2. task[h].stage = "begin" => db # None
      BY DEF Abort, SchemaInv, Opened, At
    <3> QED BY <1>4, <2>1, <3>1, <3>2 DEF SchemaInv, LeftFits
  <2>7. Opened'
    BY <1>1, <1>4 DEF SchemaInv, Opened, ServedFromWholeSchema, At
  <2>8. ProcessInv'
    BY <1>1, <1>4, <2>3, HandlerKeepsProcess
  <2> QED BY <2>4, <2>5, <2>6, <2>7, <2>8 DEF SchemaInv
<1> QED BY <1>5, <1>6

\* A statement that was left in a queue begins a transaction that is nobody's, at most.
LEMMA RunLeftKeepsInv ==
    ASSUME ProcessInv, SchemaInv, RunLeft
    PROVE  ProcessInv' /\ SchemaInv'
<1>1. PICK s \in left :
          /\ left' = left \ {s}
          /\ \/ s[2] = "connect" /\ db' = Created(db) /\ UNCHANGED txn
             \/ /\ s[2] = "begin"
                /\ txn' = IF txn = None THEN [holder |-> "rollback", db |-> db] ELSE txn
                /\ UNCHANGED db
  BY DEF RunLeft
<1>2. UNCHANGED <<clock, sent, running, rootLock, registry, seen, task, starts, aborts,
                  letThrough, repeated, newest>>
  BY DEF RunLeft, memoryVars, auxVars, historyVars
<1>3. \A h \in Handler : /\ Opening(h)' <=> Opening(h)
                         /\ \A stage \in Stages : At(h, stage)' <=> At(h, stage)
  BY <1>2 DEF Opening, At
<1>4. CASE db' = db /\ txn' = txn
  <2>1. ProcessInv'
    BY <1>1, <1>2, <1>4 DEF ProcessInv, TypeOK, OneProcess, TasksRun
  <2>2. LeftFits'
    BY <1>1, <1>4 DEF SchemaInv, LeftFits
  <2>3. TransactionHeld' /\ TransactionFits' /\ Opened'
    BY <1>2, <1>4 DEF SchemaInv, TransactionHeld, TransactionFits, Opened,
                      ServedFromWholeSchema, Opening, At
  <2> QED BY <2>1, <2>2, <2>3 DEF SchemaInv
<1>5. CASE db = None /\ db' = Created(db) /\ txn' = txn
  <2>1. db' \in Database /\ db' # None
    BY <1>5, ProcessAssumption DEF Created, Database
  <2>2. txn = None /\ \A g \in Handler : ~Opening(g) /\ ~At(g, "begin")
    BY <1>5 DEF SchemaInv, TransactionHeld, Opened
  <2>3. db # Whole
    BY <1>5, ProcessAssumption DEF Whole, Database
  <2>4. /\ \A g \in Handler : ~At(g, "register") /\ ~At(g, "access")
        /\ running \cap registry = {}
    BY <2>3 DEF SchemaInv, Opened, ServedFromWholeSchema, Whole
  <2>5. TypeOK'
    BY <1>1, <1>2, <1>5, <2>1 DEF ProcessInv, TypeOK
  <2>6. ProcessInv'
    BY <1>2, <2>5 DEF ProcessInv, OneProcess, TasksRun
  <2>7. TransactionHeld' /\ TransactionFits' /\ LeftFits' /\ Opened'
    BY <1>2, <1>5, <2>1, <2>2, <2>4
       DEF TransactionHeld, TransactionFits, LeftFits, Opened, ServedFromWholeSchema,
           Opening, At
  <2> QED BY <2>6, <2>7 DEF SchemaInv
<1>6. CASE /\ txn = None /\ txn' = [holder |-> "rollback", db |-> db]
           /\ s[2] = "begin" /\ db' = db
  <2>1. db # None /\ db \in Database
    BY <1>6 DEF SchemaInv, LeftFits, ProcessInv, TypeOK
  <2>2. txn' \in Transaction /\ txn' # None /\ txn'.holder = "rollback"
    BY <1>6, <2>1, ProcessAssumption DEF Transaction, Abandoned
  <2>3. TypeOK'
    BY <1>1, <1>2, <1>6, <2>2 DEF ProcessInv, TypeOK
  <2>4. ProcessInv'
    BY <1>2, <2>3 DEF ProcessInv, OneProcess, TasksRun
  <2>5. \A h \in Handler : ~Opening(h)'
    BY <1>3, <1>6 DEF SchemaInv, TransactionHeld
  <2>6. TransactionHeld' /\ TransactionFits'
    BY <1>6, <2>1, <2>2, <2>5 DEF TransactionHeld, TransactionFits, Opening, Abandoned
  <2>7. LeftFits'
    BY <1>1, <1>6, <2>1, <2>2 DEF LeftFits
  <2>8. Opened'
    BY <1>2, <1>6 DEF SchemaInv, Opened, ServedFromWholeSchema, At
  <2> QED BY <2>4, <2>6, <2>7, <2>8 DEF SchemaInv
<1> QED BY <1>1, <1>4, <1>5, <1>6 DEF Created

\* The transaction of a dropped handler ends: what it commits, it had checked.
LEMMA EndKeepsInv ==
    ASSUME ProcessInv, SchemaInv, EndAbandoned
    PROVE  /\ ProcessInv' /\ SchemaInv'
           /\ db' = db \/ (db' = Whole /\ Acceptable(txn.db) /\ Fits(db, txn.db))
<1>1. /\ UNCHANGED <<clock, sent, running, rootLock, left, registry, seen, task, starts,
                     aborts, letThrough, repeated, newest>>
      /\ txn' = None
  BY DEF EndAbandoned, memoryVars, auxVars, historyVars
<1>2. txn \in Transaction /\ txn.db \in Database /\ db # None /\ db \in Database
  BY DEF EndAbandoned, ProcessInv, SchemaInv, TransactionHeld, TypeOK, Transaction
<1>3. \A h \in Handler : ~Opening(h) /\ ~Opening(h)'
  <2>1. \A h \in Handler : ~Opening(h)
    BY ProcessAssumption DEF EndAbandoned, SchemaInv, TransactionHeld
  <2> QED BY <1>1, <2>1 DEF Opening, At
<1>4. db' = db \/ (db' = Whole /\ Acceptable(txn.db) /\ Fits(db, txn.db))
  <2>1. CASE txn.holder = "commit"
    <3>1. Acceptable(txn.db) /\ Fits(db, txn.db) /\ db' = Recorded(txn.db)
      BY <2>1 DEF EndAbandoned, SchemaInv, LeftFits
    <3>2. Recorded(txn.db) = Whole
      BY <1>2, <3>1, ProcessAssumption
         DEF Recorded, Acceptable, validate_v1_schema, Database, Whole
    <3> QED BY <3>1, <3>2
  <2>2. CASE txn.holder # "commit"
    BY <2>2 DEF EndAbandoned
  <2> QED BY <2>1, <2>2
<1>5. db' \in Database /\ db' # None
  <2>1. Whole \in Database
    BY ProcessAssumption DEF Whole, Database
  <2> QED BY <1>2, <1>4, <2>1, ProcessAssumption
<1>6. TypeOK'
  BY <1>1, <1>5 DEF ProcessInv, TypeOK
<1>7. ProcessInv'
  BY <1>1, <1>6 DEF ProcessInv, OneProcess, TasksRun
<1>8. TransactionHeld' /\ TransactionFits' /\ LeftFits'
  BY <1>1, <1>3, <1>5 DEF TransactionHeld, TransactionFits, LeftFits, Opening
<1>9. Opened'
  BY <1>1, <1>4, <1>5 DEF SchemaInv, Opened, ServedFromWholeSchema, Whole, At
<1> QED
  BY <1>4, <1>7, <1>8, <1>9 DEF SchemaInv

LEMMA RegisterKeepsInv ==
    ASSUME ProcessInv, SchemaInv, NEW h \in Handler, Register(h)
    PROVE  ProcessInv' /\ SchemaInv'
<1>1. /\ task' \in [Handler -> {None} \cup OwnTask]
      /\ task'[h] # None => /\ task'[h].stage = "access"
                            /\ task'[h].process = task[h].process
      /\ \A g \in Handler : g # h => task'[g] = task[g]
  <2>1. CASE task[h].request = None
    BY <2>1, DoneStep DEF Register, ProcessInv
  <2>2. CASE task[h].request # None
    BY <2>2, ContinueStep DEF Register, At, Stages, ProcessInv
  <2> QED BY <2>1, <2>2
<1>2. db = Whole
  BY DEF Register, SchemaInv, Opened
<1>3. task[h].process \in Process
  BY DEF Register, At, ProcessInv, TypeOK
<1>4. TypeOK'
  BY <1>1, <1>3 DEF Register, ProcessInv, TypeOK, OwnTask, diskVars, auxVars, historyVars
<1>5. ProcessInv'
  BY <1>1, <1>4, HandlerKeepsProcess DEF Register, At, ProcessInv, TasksRun
<1>6. ServedFromWholeSchema'
  BY <1>2 DEF Register, ServedFromWholeSchema, Whole, diskVars
<1> QED
  BY <1>1, <1>2, <1>5, <1>6, SameDisk DEF Register, Opening, At, diskVars, ProcessInv

-----------------------------------------------------------------------------
(* Requests, and the process, in view of the schema.                       *)

\* What a step of authentication does to the types of the cache and of the histories.
LEMMA RecordStep ==
    ASSUME TypeOK, NEW p \in Process, NEW r \in sent, NEW new \in BOOLEAN,
           check_and_record(p, r, new)
    PROVE  seen' \in [Process -> SUBSET sent] /\ newest' \in Nat
<1> DEFINE kept == retain(seen[p], r.stamp)
<1>1. kept \subseteq sent
  BY DEF TypeOK, retain
<1>2. r.stamp \in Nat
  BY DEF TypeOK, Request
<1> QED
  BY <1>1, <1>2 DEF check_and_record, TypeOK

LEMMA LetThroughStep ==
    ASSUME TypeOK, NEW r \in sent, LetThrough(r)
    PROVE  letThrough' \subseteq sent /\ repeated' \subseteq sent
  BY DEF LetThrough, TypeOK

\* The requests that have the access state to wait for.
LEMMA AuthenticateKeepsInv ==
    ASSUME ProcessInv, SchemaInv, NEW h \in Handler, Authenticate(h)
    PROVE  ProcessInv' /\ SchemaInv'
<1>1. PICK p \in running, r \in sent :
          task' = [task EXCEPT ![h] = [process |-> p, request |-> r,
                        stage |-> IF p \in registry THEN "access" ELSE "connect"]]
  BY DEF Authenticate
<1> DEFINE t == [process |-> p, request |-> r,
                 stage |-> IF p \in registry THEN "access" ELSE "connect"]
<1>2. t \in OwnTask
  BY DEF OwnTask, Stages, ProcessInv, TypeOK
<1>3. /\ task' \in [Handler -> {None} \cup OwnTask]
      /\ task'[h] = t
      /\ \A g \in Handler : g # h => task'[g] = task[g]
  BY <1>1, <1>2, TaskStep DEF ProcessInv
<1>4. TypeOK'
  BY <1>3 DEF Authenticate, ProcessInv, TypeOK, OwnTask, diskVars, memoryVars, auxVars, historyVars
<1>5. ProcessInv'
  BY <1>3, <1>4, HandlerKeepsProcess DEF Authenticate
<1>6. ServedFromWholeSchema'
  BY DEF Authenticate, SchemaInv, Opened, ServedFromWholeSchema, diskVars, memoryVars
<1>7. At(h, "access")' => db = Whole
  BY <1>3 DEF SchemaInv, Opened, ServedFromWholeSchema, Whole, At
<1> QED
  BY <1>3, <1>5, <1>6, <1>7, SameDisk
     DEF Authenticate, Opening, At, diskVars, ProcessInv

\* The end of authenticate, however it ends.
LEMMA AdmitKeepsInv ==
    ASSUME ProcessInv, SchemaInv, RequestsSent, NEW h \in Handler,
           Admit(h) \/ RejectReplay(h) \/ RejectStranger(h)
    PROVE  ProcessInv' /\ SchemaInv'
<1>1. Done(h) /\ At(h, "access") /\ UNCHANGED <<db, txn, left, running, registry>>
  BY DEF Admit, RejectReplay, RejectStranger, diskVars, memoryVars
<1>2. /\ task' \in [Handler -> {None} \cup OwnTask]
      /\ task'[h] = None
      /\ \A g \in Handler : g # h => task'[g] = task[g]
  BY <1>1, DoneStep DEF ProcessInv
<1>3. task[h].process \in Process /\ task[h].request \in sent
  BY <1>1 DEF RequestsSent, At, ProcessInv, TypeOK
<1>4. seen' \in [Process -> SUBSET sent] /\ newest' \in Nat
  BY <1>3, RecordStep
     DEF Admit, RejectReplay, RejectStranger, memoryVars, historyVars, ProcessInv, TypeOK
<1>5. letThrough' \subseteq sent /\ repeated' \subseteq sent
  BY <1>3, LetThroughStep
     DEF Admit, RejectReplay, RejectStranger, historyVars, ProcessInv, TypeOK
<1>6. TypeOK'
  BY <1>2, <1>4, <1>5
     DEF Admit, RejectReplay, RejectStranger, ProcessInv, TypeOK, OwnTask, diskVars,
         memoryVars, auxVars, historyVars
<1>7. ProcessInv'
  BY <1>2, <1>6, HandlerKeepsProcess DEF Admit, RejectReplay, RejectStranger
<1>8. ServedFromWholeSchema'
  BY <1>1 DEF SchemaInv, Opened, ServedFromWholeSchema
<1> QED
  BY <1>1, <1>2, <1>7, <1>8, SameDisk DEF Opening, At, ProcessInv

LEMMA WorkspaceKeepsInv ==
    ASSUME ProcessInv, SchemaInv, NEW h \in Handler, CreateWorkspace(h)
    PROVE  ProcessInv' /\ SchemaInv'
<1>1. PICK p \in running \ registry, r \in sent :
          /\ check_and_record(p, r, TRUE)
          /\ LetThrough(r)
          /\ task' = [task EXCEPT ![h] =
                        [process |-> p, stage |-> "connect", request |-> None]]
  BY DEF CreateWorkspace
<1> DEFINE t == [process |-> p, stage |-> "connect", request |-> None]
<1>2. t \in OwnTask
  BY DEF OwnTask, Stages, ProcessInv, TypeOK
<1>3. /\ task' \in [Handler -> {None} \cup OwnTask]
      /\ task'[h] = t
      /\ \A g \in Handler : g # h => task'[g] = task[g]
  BY <1>1, <1>2, TaskStep DEF ProcessInv
<1>4. seen' \in [Process -> SUBSET sent] /\ newest' \in Nat
  BY <1>1, RecordStep DEF ProcessInv, TypeOK
<1>5. letThrough' \subseteq sent /\ repeated' \subseteq sent
  BY <1>1, LetThroughStep DEF ProcessInv
<1>6. TypeOK'
  BY <1>3, <1>4, <1>5 DEF CreateWorkspace, ProcessInv, TypeOK, OwnTask, diskVars, auxVars
<1>7. ProcessInv'
  BY <1>3, <1>6, HandlerKeepsProcess DEF CreateWorkspace
<1>8. ServedFromWholeSchema'
  BY DEF CreateWorkspace, SchemaInv, Opened, ServedFromWholeSchema, diskVars
<1> QED
  BY <1>3, <1>7, <1>8, SameDisk DEF CreateWorkspace, Opening, At, diskVars, ProcessInv

\* A step that neither tasks nor disk nor processes notice.
LEMMA SameTasks ==
    ASSUME SchemaInv, UNCHANGED <<db, txn, left, running, registry, task>>
    PROVE  SchemaInv'
  BY DEF SchemaInv, TransactionHeld, TransactionFits, LeftFits, Opened, Opening, At,
         ServedFromWholeSchema

LEMMA JoinKeepsInv ==
    ASSUME ProcessInv, SchemaInv, NEW p \in Process, SubmitJoinRequest(p)
    PROVE  ProcessInv' /\ SchemaInv'
<1>1. seen' \in [Process -> SUBSET sent] /\ newest' \in Nat
  BY RecordStep DEF SubmitJoinRequest, ProcessInv
<1>2. letThrough' \subseteq sent /\ repeated' \subseteq sent
  BY LetThroughStep DEF SubmitJoinRequest, ProcessInv, TypeOK
<1>3. TypeOK'
  BY <1>1, <1>2 DEF SubmitJoinRequest, ProcessInv, TypeOK, diskVars, auxVars
<1> QED
  BY <1>3, SameTasks DEF SubmitJoinRequest, ProcessInv, OneProcess, TasksRun, diskVars

LEMMA StartKeepsSchema ==
    ASSUME ProcessInv, SchemaInv, NEW p \in Process, StartServer(p)
    PROVE  SchemaInv'
<1>1. running = {}
  BY ProcessAssumption DEF StartServer, try_lock_exclusive, ProcessInv, OneProcess, TypeOK
<1>2. running' \cap registry' = {}
  BY <1>1 DEF StartServer
<1> QED
  BY <1>2 DEF StartServer, SchemaInv, TransactionHeld, TransactionFits, LeftFits, Opened, Opening, At,
              ServedFromWholeSchema, diskVars

LEMMA StopKeepsSchema ==
    ASSUME ProcessInv, SchemaInv, NEW p \in Process, StopServer(p)
    PROVE  SchemaInv'
<1> DEFINE own == {h \in Handler : task[h] # None /\ task[h].process = p}
<1>1. task' = [h \in Handler |-> IF h \in own THEN None ELSE task[h]]
  BY DEF StopServer
<1>2. \A h \in Handler : Opening(h)' <=> Opening(h) /\ h \notin own
  BY <1>1 DEF Opening, At
<1>3. TransactionHeld'
  <2>1. txn' # None => txn' = txn /\ txn.holder \in Handler \ own
    BY DEF StopServer
  <2>2. \A h \in Handler \ own : Opening(h) => txn' = txn
    BY DEF StopServer, SchemaInv, TransactionHeld
  <2> QED
    BY <1>2, <2>1, <2>2, ProcessAssumption DEF StopServer, SchemaInv, TransactionHeld
<1>4. TransactionFits'
  BY <1>1, <1>2 DEF StopServer, SchemaInv, TransactionHeld, TransactionFits, Opening, At
<1>5. Opened'
  BY <1>1 DEF StopServer, SchemaInv, Opened, ServedFromWholeSchema, At, memoryVars
<1>6. LeftFits'
  BY ProcessAssumption DEF StopServer, LeftFits, Abandoned
<1> QED
  BY <1>3, <1>4, <1>5, <1>6 DEF SchemaInv

-----------------------------------------------------------------------------
(* The replay cache.                                                       *)

LEMMA InitReplay == Init => ReplayInv
  BY DEF Init, ReplayInv, Remembered, RequestsSent, RepeatsAreStale, At

\* What the cache forgets for a request is stale from then on; and a request that is new
\* to it was not there.
LEMMA CacheStep ==
    ASSUME TypeOK, NEW p \in running, NEW r \in sent, NEW new \in BOOLEAN,
           check_and_record(p, r, new)
    PROVE  /\ \A q \in seen[p] : q \in seen'[p] \/ Stale(q)'
           /\ \A q \in sent : Stale(q) => Stale(q)'
           /\ new => r \in seen'[p] /\ r \notin seen[p]
<1> DEFINE kept == retain(seen[p], r.stamp)
<1>1. /\ p \in Process /\ r \in Request /\ seen[p] \subseteq sent /\ sent \subseteq Request
      /\ newest \in Nat /\ newest' \in Nat
      /\ newest' >= r.stamp /\ newest' >= newest
  BY DEF TypeOK, check_and_record, Request
<1>2. \A q \in seen[p] : q \in kept \/ Stale(q)'
  <2> SUFFICES ASSUME NEW q \in seen[p], q \notin kept PROVE q.stamp + MaxSkew < newest'
    BY DEF Stale
  <2>1. q.stamp \in Nat /\ r.stamp \in Nat
    BY <1>1 DEF Request
  <2>2. q.stamp < SaturatingSub(r.stamp, MaxSkew)
    BY <2>1, ProcessAssumption DEF retain, SaturatingSub
  <2> QED
    BY <1>1, <2>1, <2>2, ProcessAssumption DEF SaturatingSub
<1>3. \A q \in sent : Stale(q) => Stale(q)'
  BY <1>1, ProcessAssumption DEF Stale, Request
<1>4. r \in seen[p] => r \in kept
  BY <1>1, ProcessAssumption DEF retain, SaturatingSub, Request
<1>5. seen'[p] = IF new THEN kept \cup {r} ELSE kept
  BY <1>1 DEF check_and_record, TypeOK
<1>6. new => r \notin kept
  BY DEF check_and_record
<1> QED
  BY <1>2, <1>3, <1>4, <1>5, <1>6

\* A request that the cache records is let through, or its device lacks the permission.
LEMMA RecordedStep ==
    ASSUME ProcessInv, ReplayInv, NEW p \in running, NEW r \in sent,
           check_and_record(p, r, TRUE), LetThrough(r) \/ UNCHANGED <<letThrough, repeated>>,
           UNCHANGED <<clock, running>>
    PROVE  Remembered' /\ RepeatsAreStale'
<1>1. /\ \A q \in seen[p] : q \in seen'[p] \/ Stale(q)'
      /\ \A q \in sent : Stale(q) => Stale(q)'
      /\ r \in seen'[p] /\ r \notin seen[p]
  BY CacheStep DEF ProcessInv
<1>2. running = {p}
  BY DEF ProcessInv, OneProcess
<1>3. letThrough' \subseteq letThrough \cup {r} /\ letThrough \subseteq sent
  BY DEF LetThrough, ProcessInv, TypeOK
<1>4. Remembered'
  <2> SUFFICES ASSUME NEW q \in letThrough' PROVE q \in seen'[p] \/ Stale(q)'
    BY <1>2 DEF Remembered
  <2>1. CASE q = r
    BY <1>1, <2>1
  <2>2. CASE q \in letThrough
    BY <1>1, <1>2, <1>3, <2>2 DEF ReplayInv, Remembered
  <2> QED BY <1>3, <2>1, <2>2
<1>5. r \in letThrough => Stale(r)'
  BY <1>1 DEF ReplayInv, Remembered
<1>6. \A q \in repeated' : Stale(q)'
  <2>1. \A q \in repeated : Stale(q)'
    BY <1>1 DEF ReplayInv, RepeatsAreStale, Stale, ProcessInv, TypeOK
  <2> QED BY <1>5, <2>1 DEF LetThrough
<1> QED BY <1>4, <1>6 DEF RepeatsAreStale, Stale

\* A request that is rejected as a repeat.
LEMMA RejectedStep ==
    ASSUME ProcessInv, ReplayInv, NEW p \in running, NEW r \in sent,
           check_and_record(p, r, FALSE), UNCHANGED <<letThrough, repeated>>,
           UNCHANGED <<clock, running>>
    PROVE  Remembered' /\ RepeatsAreStale'
<1>1. /\ \A q \in seen[p] : q \in seen'[p] \/ Stale(q)'
      /\ \A q \in sent : Stale(q) => Stale(q)'
  BY CacheStep DEF ProcessInv
<1>2. running = {p} /\ letThrough \subseteq sent /\ repeated \subseteq sent
  BY DEF ProcessInv, OneProcess, TypeOK
<1>3. Remembered'
  BY <1>1, <1>2 DEF ReplayInv, Remembered
<1>4. \A q \in repeated' : Stale(q)'
  BY <1>1, <1>2 DEF ReplayInv, RepeatsAreStale, Stale
<1> QED BY <1>3, <1>4 DEF RepeatsAreStale, Stale

LEMMA AdmitKeepsReplay ==
    ASSUME ProcessInv, ReplayInv, NEW h \in Handler,
           Admit(h) \/ RejectReplay(h) \/ RejectStranger(h)
    PROVE  ReplayInv'
<1>1. /\ Done(h) /\ At(h, "access")
      /\ UNCHANGED <<clock, sent, running>>
  BY DEF Admit, RejectReplay, RejectStranger
<1>2. task[h].process \in running /\ task[h].request \in sent
  BY <1>1 DEF At, ProcessInv, TasksRun, ReplayInv, RequestsSent
<1>3. Remembered' /\ RepeatsAreStale'
  <2>1. CASE Admit(h)
    BY <1>1, <1>2, <2>1, RecordedStep DEF Admit
  <2>2. CASE RejectReplay(h)
    BY <1>1, <1>2, <2>2, RejectedStep DEF RejectReplay
  <2>3. CASE RejectStranger(h)
    BY <2>3 DEF RejectStranger, memoryVars, historyVars, ReplayInv, Remembered, RepeatsAreStale, Stale
  <2> QED BY <2>1, <2>2, <2>3
<1>4. RequestsSent'
  BY <1>1, DoneStep DEF ProcessInv, ReplayInv, RequestsSent, At
<1> QED
  BY <1>1, <1>3, <1>4 DEF ReplayInv

\* The steps that do not look at the cache.
LEMMA SameCache ==
    ASSUME ReplayInv, RequestsSent', UNCHANGED <<sent, seen, letThrough, repeated, newest>>,
           running' \subseteq running
    PROVE  ReplayInv'
  BY DEF ReplayInv, Remembered, RepeatsAreStale, Stale

LEMMA OpeningKeepsReplay ==
    ASSUME ProcessInv, SchemaInv, ReplayInv, NEW h \in Handler,
           \/ Connect(h) \/ BeginImmediate(h) \/ BusyTimeout(h) \/ CreateObject(h)
           \/ RecordMigration(h) \/ Commit(h) \/ Refuse(h) \/ Register(h) \/ Abort(h)
    PROVE  ReplayInv'
<1>1. \A g \in Handler : g # h => (At(g, "access")' <=> At(g, "access"))
                                  /\ task'[g].request = task[g].request
  BY DoneStep, ContinueStep
     DEF Connect, BeginImmediate, BusyTimeout, CreateObject, RecordMigration, Commit, Refuse,
         Register, Abort, At, Stages, ProcessInv
<1>2. At(h, "access")' => task'[h].request \in sent
  <2>1. CASE Register(h)
    <3>1. CASE task[h].request = None
      BY <2>1, <3>1, DoneStep DEF Register, At, ProcessInv
    <3>2. CASE task[h].request # None
      BY <2>1, <3>2, ContinueStep DEF Register, At, Stages, ProcessInv, TypeOK
    <3> QED BY <3>1, <3>2
  <2>2. CASE Connect(h) \/ BeginImmediate(h) \/ RecordMigration(h) \/ Commit(h)
    BY <2>2, ContinueStep
       DEF Connect, BeginImmediate, RecordMigration, Commit, At, Stages, ProcessInv
  <2>3. CASE BusyTimeout(h) \/ Refuse(h) \/ Abort(h)
    BY <2>3, DoneStep DEF BusyTimeout, Refuse, Abort, At, ProcessInv
  <2>4. CASE CreateObject(h)
    BY <2>4 DEF CreateObject, At
  <2> QED BY <2>1, <2>2, <2>3, <2>4
<1>3. UNCHANGED <<sent, seen, letThrough, repeated, newest, running>>
  BY DEF Connect, BeginImmediate, BusyTimeout, CreateObject, RecordMigration, Commit, Refuse,
         Register, Abort, memoryVars, historyVars
<1>4. RequestsSent'
  BY <1>1, <1>2, <1>3 DEF ReplayInv, RequestsSent, At
<1> QED
  BY <1>3, <1>4, SameCache

LEMMA RequestKeepsReplay ==
    ASSUME ProcessInv, ReplayInv, NEW h \in Handler, Authenticate(h) \/ CreateWorkspace(h)
    PROVE  ReplayInv'
<1>1. CASE Authenticate(h)
  <2>1. PICK p \in running, r \in sent :
            task' = [task EXCEPT ![h] = [process |-> p, request |-> r,
                          stage |-> IF p \in registry THEN "access" ELSE "connect"]]
    BY <1>1 DEF Authenticate
  <2>2. RequestsSent'
    BY <1>1, <2>1 DEF Authenticate, ReplayInv, RequestsSent, At, ProcessInv, TypeOK
  <2> QED
    BY <1>1, <2>2, SameCache DEF Authenticate, memoryVars, historyVars
<1>2. CASE CreateWorkspace(h)
  <2>1. PICK p \in running \ registry, r \in sent :
            /\ check_and_record(p, r, TRUE)
            /\ LetThrough(r)
            /\ task' = [task EXCEPT ![h] =
                          [process |-> p, stage |-> "connect", request |-> None]]
    BY <1>2 DEF CreateWorkspace
  <2>2. Remembered' /\ RepeatsAreStale'
    BY <1>2, <2>1, RecordedStep DEF CreateWorkspace
  <2>3. RequestsSent'
    BY <1>2, <2>1 DEF CreateWorkspace, ReplayInv, RequestsSent, At, ProcessInv, TypeOK
  <2> QED
    BY <1>2, <2>2, <2>3 DEF CreateWorkspace, ReplayInv
<1> QED BY <1>1, <1>2

LEMMA JoinKeepsReplay ==
    ASSUME ProcessInv, ReplayInv, NEW p \in Process, SubmitJoinRequest(p)
    PROVE  ReplayInv'
<1>1. Remembered' /\ RepeatsAreStale'
  BY RecordedStep, RejectedStep DEF SubmitJoinRequest
<1> QED
  BY <1>1 DEF SubmitJoinRequest, ReplayInv, RequestsSent, At

\* Time and clients, the statements and the transactions that were left behind.
LEMMA OthersKeepReplay ==
    ASSUME ReplayInv, Tick \/ SendSigned \/ RunLeft \/ EndAbandoned
    PROVE  ReplayInv'
  BY DEF Tick, SendSigned, RunLeft, EndAbandoned, memoryVars, historyVars, ReplayInv,
         Remembered, RepeatsAreStale, RequestsSent, Stale, At

\* A process begins with an empty cache, and the history begins again.
LEMMA ProcessKeepsReplay ==
    ASSUME ProcessInv, ReplayInv, NEW p \in Process, StartServer(p) \/ StopServer(p)
    PROVE  ReplayInv'
<1>1. CASE StartServer(p)
  BY <1>1 DEF StartServer, ReplayInv, Remembered, RequestsSent,
              RepeatsAreStale, At
<1>2. CASE StopServer(p)
  <2>1. RequestsSent'
    BY <1>2 DEF StopServer, ReplayInv, RequestsSent, At
  <2> QED
    BY <1>2, <2>1, SameCache DEF StopServer, memoryVars, historyVars
<1> QED BY <1>1, <1>2

-----------------------------------------------------------------------------
(* The invariant, and what follows.                                        *)

LEMMA InitInv == Init => Inv
  BY InitProcess, InitSchema, InitReplay DEF Inv

LEMMA NextInv ==
    ASSUME Inv, [Next]_vars
    PROVE  Inv'
<1> USE DEF Inv
<1>1. CASE UNCHANGED vars
  <2>1. ProcessInv'
    BY <1>1 DEF vars, diskVars, memoryVars, auxVars, historyVars, ProcessInv, TypeOK, OneProcess, TasksRun
  <2>2. SchemaInv'
    BY <1>1, SameTasks DEF vars, diskVars, memoryVars
  <2>3. ReplayInv'
    BY <1>1 DEF vars, diskVars, memoryVars, historyVars, ReplayInv, Remembered,
                RequestsSent, RepeatsAreStale, Stale, At
  <2> QED BY <2>1, <2>2, <2>3
<1>2. CASE Tick \/ SendSigned
  <2>1. SchemaInv'
    BY <1>2, SameTasks DEF Tick, SendSigned, diskVars, memoryVars
  <2> QED BY <1>2, <2>1, ClientsKeepProcess, OthersKeepReplay
<1>3. ASSUME NEW p \in Process, StartServer(p) \/ StopServer(p) \/ SubmitJoinRequest(p)
      PROVE  Inv'
  BY <1>3, StartKeepsProcess, StopKeepsProcess, StartKeepsSchema, StopKeepsSchema,
     ProcessKeepsReplay, JoinKeepsInv, JoinKeepsReplay
<1>4. ASSUME NEW h \in Handler,
             \/ Connect(h) \/ BeginImmediate(h) \/ BusyTimeout(h) \/ CreateObject(h)
             \/ RecordMigration(h) \/ Commit(h) \/ Refuse(h) \/ Register(h) \/ Abort(h)
      PROVE  Inv'
  <2>1. ProcessInv' /\ SchemaInv'
    BY <1>4, ConnectKeepsInv, BeginKeepsInv, TimeoutKeepsInv, CreateKeepsInv,
       RecordKeepsInv, CommitKeepsInv, RefuseKeepsInv, RegisterKeepsInv, AbortKeepsInv
  <2> QED BY <1>4, <2>1, OpeningKeepsReplay
<1>5. ASSUME NEW h \in Handler, Authenticate(h) \/ CreateWorkspace(h)
      PROVE  Inv'
  BY <1>5, AuthenticateKeepsInv, WorkspaceKeepsInv, RequestKeepsReplay
<1>6. ASSUME NEW h \in Handler, Admit(h) \/ RejectReplay(h) \/ RejectStranger(h)
      PROVE  Inv'
  BY <1>6, AdmitKeepsInv, AdmitKeepsReplay DEF ReplayInv
<1>7. CASE RunLeft \/ EndAbandoned
  BY <1>7, RunLeftKeepsInv, EndKeepsInv, OthersKeepReplay
<1> QED
  BY <1>1, <1>2, <1>3, <1>4, <1>5, <1>6, <1>7 DEF Next

LEMMA Invariance == Spec => []Inv
  BY InitInv, NextInv, PTL DEF Spec

\* Every state of every instance has the types of TypeOK: the caches hold requests that
\* were sent, and a transaction is a handler's (IndexedFsStorage, ReplayCache).
THEOREM TypeCorrect == Spec => []TypeOK
<1>1. Inv => TypeOK
  BY DEF Inv, ProcessInv
<1> QED
  BY <1>1, Invariance, PTL

\* Between two starts, a request that comes again is let through again only after the
\* cache was asked about one more than MaxSkew newer, whatever the skew, the times the
\* clients sign and the handlers that wait between the check of the time and the cache
\* (ReplayCache::check_and_record, authenticate).
THEOREM RepeatsOnlyAfterNewer == Spec => []RepeatsAreStale
<1>1. Inv => RepeatsAreStale
  BY DEF Inv, ReplayInv
<1> QED
  BY <1>1, Invariance, PTL

\* Whoever races to open the database, and whoever is dropped with a transaction open or a
\* COMMIT in the queue, it is served with its whole schema
\* (WorkspaceDbRegistry::get_or_open, WorkspaceDb::migrate).
THEOREM WholeSchemaServed == Spec => []ServedFromWholeSchema
<1>1. Inv => ServedFromWholeSchema
  BY DEF Inv, SchemaInv, Opened
<1> QED
  BY <1>1, Invariance, PTL

LEMMA StepIsAtomic ==
    ASSUME Inv, [Next]_vars
    PROVE  IF Supported(db) THEN Supported(db') ELSE db' = db
<1>1. ASSUME NEW h \in Handler, Connect(h)
      PROVE  IF Supported(db) THEN Supported(db') ELSE db' = db
  BY <1>1 DEF Connect, Created, Supported
<1>2. ASSUME NEW h \in Handler, Commit(h)
      PROVE  IF Supported(db) THEN Supported(db') ELSE db' = db
  <2>1. db' = Whole /\ Supported(Whole)
    BY <1>2, CommitKeepsInv
       DEF Inv, Supported, Acceptable, validate_v1_schema, Whole
  <2>2. Supported(db)
    BY <1>2 DEF Commit, Inv, SchemaInv, TransactionFits, Fits, Supported
  <2> QED BY <2>1, <2>2
<1>3. ASSUME NEW h \in Handler,
             \/ BeginImmediate(h) \/ BusyTimeout(h) \/ CreateObject(h) \/ RecordMigration(h)
             \/ Refuse(h) \/ Register(h) \/ Abort(h) \/ Authenticate(h) \/ Admit(h)
             \/ RejectReplay(h) \/ RejectStranger(h) \/ CreateWorkspace(h)
      PROVE  db' = db
  BY <1>3 DEF BeginImmediate, BusyTimeout, CreateObject, execute, RecordMigration, Refuse,
              Register, Abort, Authenticate, Admit, RejectReplay, RejectStranger,
              CreateWorkspace, diskVars
<1>4. ASSUME NEW p \in Process, StartServer(p) \/ StopServer(p) \/ SubmitJoinRequest(p)
      PROVE  db' = db
  BY <1>4 DEF StartServer, StopServer, SubmitJoinRequest, diskVars
<1>5. CASE Tick \/ SendSigned \/ UNCHANGED vars
  BY <1>5 DEF Tick, SendSigned, vars, diskVars
<1>6. CASE RunLeft
  BY <1>6 DEF RunLeft, Created, Supported
<1>7. CASE EndAbandoned
  <2>1. db' = db \/ (db' = Whole /\ Acceptable(txn.db) /\ Fits(db, txn.db))
    BY <1>7, EndKeepsInv DEF Inv
  <2>2. Supported(Whole) /\ ((Acceptable(txn.db) /\ Fits(db, txn.db)) => Supported(db))
    BY DEF Supported, Fits, Acceptable, validate_v1_schema, Whole
  <2> QED BY <2>1, <2>2
<1> QED
  BY <1>1, <1>2, <1>3, <1>4, <1>5, <1>6, <1>7 DEF Next

\* Opening a database is all or nothing: one that can be opened stays so at every step,
\* and the schema of one of another version is never written, also by
\* what dropped handlers leave behind (WorkspaceDb::migrate).
THEOREM OpeningAllOrNothing == Spec => OpeningIsAtomic
<1>1. Inv /\ [Next]_vars => [IF Supported(db) THEN Supported(db') ELSE db' = db]_vars
  BY StepIsAtomic
<1> QED
  BY <1>1, Invariance, PTL DEF Spec, OpeningIsAtomic
=============================================================================
