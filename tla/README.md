# RustSync in TLA+

RustSync synchronises a directory between devices through a server that stores
encrypted objects and a workspace head. This directory holds TLA+ models of its
sync workflow, its storage, its access control and its enrollment, TLC
configurations that check them on small instances, and proofs for TLAPS that
hold for instances of any size. Paths below are relative to `src/crates/`;
`docs/` is `src/docs/`.

## The system

| Part | State it keeps | Operations | What makes it correct |
|---|---|---|---|
| Reconciliation planner (`rustsync-core/src/reconciliation.rs`, `manifest/diff.rs`) | none | plan of base, local and remote tree; line merge; conflict copies | the result is a tree, keeps both users' edits, and treats both sides alike |
| Sync workflow (`rustsync-cli/src/sync_workflow.rs`, `sync_workflow/transfer.rs`) | `sync-state.json` | `sync`, `sync --discard-local` | no edit is lost; a publication replaces what it was reconciled with; devices converge |
| Local engine (`rustsync-core/src/workspace/local_engine.rs`) | working tree, `manifest.json`, blob cache | scan, stage, apply, save state | the base can be read by the next sync; an apply touches what the plan says |
| `resolve` (`rustsync-cli/src/commands/sync.rs`) | the conflict records | keep local, keep remote | only the side the user rejects goes |
| Object and head storage (`rustsync-server/src/storage/`) | files, SQLite catalog, head row | put, get, exists, `update_head` | an acknowledged object stays readable; one writer wins each revision |
| Access state (`rustsync-protocol/src/access/`) | members, roles, key grants, revision | six events | an owner remains; grants are for members; a removal is final |
| Server handlers (`rustsync-server/src/api/access.rs`, `state.rs`) | join requests, locks, key envelopes | submit, approve, apply event, envelopes | decisions fit the state they were made for; one request per device, and a limit |
| Authentication (`rustsync-server/src/auth/`) | nonce cache in memory | `authenticate` | only members with the permission, and no request twice |
| Server process (`rustsync-server/src/main.rs`, `storage/indexed_fs.rs`, `storage/sqlite.rs`) | lock of the storage root, open databases, schema | start, stop, open and migrate a database | one process per root; a database is served when its schema is whole |
| Enrollment (`rustsync-cli/src/commands/device.rs`, `init.rs`, `rustsync-core/src/workspace/mod.rs`) | `.rustsync`, its backup | init, request, approve, bootstrap | the private identity survives failures; a workspace is whole |
| Cryptography, object format, client, CLI | | | not modelled, see below |

How they meet. A `sync` scans the tree, fetches the head and its manifest, plans,
stages, downloads, applies to the disk, saves its base, uploads and asks the
server to move the head from the revision it fetched. Devices share only the
head, whose update is a compare-and-swap in one SQLite transaction; a loser
plans again once. The server's handlers are concurrent futures: uploads hold
the one `put_lock` of the storage, reads do not; join requests hold a lock, access
events hold another. A closing connection drops a handler at any await and frees its
locks; a statement that it had sent to SQLite is executed all the same. Owners' devices sign
access events for a revision that they fetched; the server applies them if the
revision still fits. A joining device and an owner's device meet through the
server in three commands, each of several requests.

Hard behaviours, each listed with its line under `hazards` in `PROJECT.json`:
users edit between a scan and the apply or between the apply and the next scan;
commands stop at any point and leave a half-applied tree; a head update that the
client gave up on arrives later; devices race for the head; files and
directories replace each other; owners act on each other at the same time;
events are repeated and reordered; requests of concurrent handlers interleave
between database statements; statements of dropped handlers are executed after their
locks are free; uploads stop in the middle of a file and between file and catalog; crashes and
file system errors in the middle of an init or a bootstrap; requests delivered
again to a server that restarted, or that heard from a device whose clock is
ahead; a database opened by several requests at once, each of which may be cut
off within the migration.

## Modules

| Module | Models | State and actions |
|---|---|---|
| `Reconciliation` | planner, merge, conflict copies | operators on manifests: functions from paths to a content or `Directory` |
| `Planning` | the planner applied to all inputs | one state per base, local and remote tree, grown by users' edits |
| `SyncWorkflow` | sync workflow, local engine, `resolve`, with the server's head | per device `tree`, `staged` (manifest.json), `cache`, `st` (sync-state.json), `pc` and `mem` (where its command is, and its local variables); the server's `history`; head updates on the way `late` |
| `HeadStore` | what storage promises (abstract) | readable objects, acknowledged uploads, head, winning updates |
| `ObjectStore` | object and head storage | `files`, `temps` (temporary files), `rows` (catalog), `headRow`, `putLock`, one `task` per handler |
| `AccessState` | access state and its events | operators; a state is a record of revision, members and grants |
| `AccessServer` | handlers of workspaces, join requests and access events | `access`, `pending`, `signed` (events any device may post, again and again), `joinLock`, `accessLock`, one `task` per handler, with the access state it is about to save; a task at "stray" is a statement whose handler is gone |
| `ServerProcess` | a server process up to the handlers | `rootLock`, `running`; `db` and `txn` (the committed database and the write transaction, which nobody may hold any more), `left` (statements of dropped handlers), `registry` (open handles), `seen` (nonce cache), one `task` per handler; `sent` requests and the `clock` |
| `Enrollment` | init and enrollment commands with the server's part | `access`, `pending`, `envelopes` of the server; `meta`, `backup` and `cmd` per directory |
| `*_proofs` | theorems | |
| `MC*` | values for the constants of the runs | |

`SyncWorkflow` extends `Reconciliation`; `AccessServer` and `Enrollment` extend
`AccessState`; `ObjectStore` instantiates `HeadStore` with the refinement mapping
that the objects are those with a whole file and an absent head row is revision 0. `SyncWorkflow` uses of
the server what `HeadStore` promises: objects stay, and the head moves one
revision at a time and tells one writer that it did. `ServerProcess` ends where
the handlers of `AccessServer` and `ObjectStore` begin: their actions run after
its `Admit`, against the database its `Commit` left, in the one process that has
the root's lock, which is why their locks may be single variables.

An action stands for the code between two points at which another actor can act:
two awaits of a handler or of a command, or two file system calls when a crash
between them matters. `map` in `PROJECT.json` names the lines. Definitions that
begin with a comment "Mutant of" are variants of a definition with a plausible
bug; they are used to see that a property notices it.

History variables say what a property needs and the code does not keep:
`authored` and `superseded` (contents that users wrote, and that a user, a
discard or a line merge took back) in `SyncWorkflow`; `seen` of a signed event,
`asked`, `founding`, `strayed` and `stray` (what statements of dropped handlers did) in
`AccessServer`; `acked`, `wins` and `alarms` in `ObjectStore`; `letThrough`,
`repeated` and `newest` in `ServerProcess`. The
field `base` of a late head update in `SyncWorkflow` is one too.

## Runs

| Run | Instance | Distinct states | Shows |
|---|---|---|---|
| `planning` | paths d, d/s, d/s/f; six contents: a two-line base, changes of either line, an overlap, a single line, a binary | 10,648 | all pairs of trees that grew from a base reconcile to a tree that keeps both sides' edits; what one side left alone becomes what the other has; swapping the sides swaps the plan |
| `sync_conflicts` | 2 devices, a directory with a text of two lines; users change a line or replace the directory by a file; 2 edits, 1 interruption, also discards | 1,945,000 | base and revision agree, edits are kept, publications replace their base and drop nothing |
| `sync_converge` | 2 devices, an empty workspace, 2 edits, 1 interruption, also inside an apply | 469,000 | base and revision agree, the base is in the cache, devices converge |
| `merge_stranded` | text that merges, 3 edits | violation | finding 1 |
| `late_edit` | edits also inside the apply window | violation | finding 2 |
| `access_events` | 2 devices, 1 key, 2 handlers, 2 signed events, 4 access states to create the workspace with; 3 join requests, two of one device, limit 1 | 1,865,000 | an owner remains, grants are for members, members asked, removals are final, decisions fit the state, one request per device, and the limit, each up to what statements of dropped handlers do |
| `server_process` | 2 processes, 2 handlers, 2 requests, times 0 to 2, window 1, 2 statements, 3 starts, 1 dropped handler | 1,572,000 | a repeat passes only after a request that is newer by more than the window, databases served have a whole schema, openings are atomic |
| `nonce_ahead` | the same, 1 start, none dropped | violation | finding 5 |
| `object_store` | 2 objects, 2 handlers, revisions up to 2 | 165,000 | catalog and files agree; storage implements `HeadStore` |
| `read_race` | as above | violation | finding 3 |
| `enrollment` | 3 devices, 3 directories, 1 membership change, 2 faults | 1,311,000 | identities survive, workspaces are whole, envelopes can be opened |
| `enrollment_retry` | 2 directories, 1 fault | violation | finding 4 |

Bounds. Two devices give every pair of steps of the workflow in either order. For more
devices there are the theorems, which name the one case that needs four of them
(a renamed copy, under Only model-checked). Two edits make a conflict and, with the retry, a
second one over its copies; whether the file is a text that merges, a file in a
directory, or the directory itself is up to the users (`UserEntries`). A third edit with a merge is what `merge_stranded`
needs. One interruption suffices to leave any saved state, because a command
reads nothing of another command but what is saved. Two handlers give every
pair of statements in either order; the theorems cover more. Two revisions reach
the largest one and the refused successor. Two signed events, posted any number of
times, make one stale by the other, also when its signer was demoted or removed; who
owns the workspace besides its creator may be so from the start. Two of the three
requests compete for the one place of a device, all three for the one place of
the list. Two requests let one push the other out of the nonce cache and then
have it delivered again; the times reach from the earliest request to one at
which it is outside of its window. Two statements have a point between
them, which is all that a cut-off opening needs; one dropped handler leaves any
transaction or statement to the openings of the others; a third start is a restart with
another process waiting. Three directories
allow an owner that has itself just joined to approve the next one; two faults
let a write fail and then its clean-up or restoration fail too. Handlers, processes, nonces,
the devices of `sync_conflicts` and the devices and directories that join are
interchangeable (`SYMMETRY`).

`access_events` and `server_process` do not check for deadlock: with all events
signed and no request left, or at the last time and the last start, the server
rests.

Fairness (`sync_converge` only). A command that was started runs on, because
nothing in it waits for another device, and every device starts `sync` again and
again, which is what the recovery table of `docs/usage.md` asks of its user.
Nothing is assumed about edits, interruptions or late updates; they are bounded.

### Findings

1. `merge_stranded`: a line merge downloads the remote content without caching
   it, and the saved base then names it. When the publication loses its race,
   the retry stops with `MissingStagedBlob`, and so does every later sync.
2. `late_edit`: the scan after an apply that needs no publication is saved as the
   base of the remote's revision. An edit that falls between the two is recorded
   as if it were published, and is never uploaded.
3. `read_race`: a read looks for the file and then for the row, without the lock.
   When an upload does both in between, it reports corruption of an intact store.
4. `enrollment_retry`: after a crash between the rename of `.rustsync` and the
   new metadata, the remedy that `docs/usage.md` gives for the message makes a
   second identity, which no bootstrap in that directory accepts.
5. `nonce_ahead`: the nonce cache drops what is too old for the time in the request
   at hand, which may be ahead of the server's clock by the whole window. A request
   that was dropped so is let through again while the clock would still have it,
   although `docs/security.md` says that the reuse of a nonce is rejected.

## Proofs

All for any number of devices, handlers, directories, names, contents, objects,
requests and events, from the assumptions named in the modules on their
constants. Those say that the model values differ from each other, that bounds
are numbers, and of the sets of paths and first trees that a path is a sequence
of components and a tree is finite, with a directory above everything in it.

- `Reconciliation_proofs`: `CombinedIsManifest`, `NothingToReconcile` (a plan
  without changes means equal trees), `DownloadsOnly` (a plan that needs no
  publication combines to the remote tree), `CombinedTree` and
  `CombinedIsWorkingTree` (three trees combine to a tree). The last rest on this:
  what the plan keeps or merges has a directory above it in the result, because a
  path whose directory goes is in the subtree of a conflict or goes with it; and a
  conflict copy is beside the path it copies, at a place that no side uses, which
  exists because `reserved_paths` is finite and the suffixes are not.
  `CombinedKeeps` says where the files of three trees go: if both sides kept each
  file of the base, at its path, at a path with a longer name (a copy's), or given
  up, then the result keeps those of the remote the same way, and drops a file of
  the local side only if the remote has its content. That the name of a copy is
  longer matters: without an order the two sides could each rely on the
  copy of the other, and both be dropped.
- `Planning_proofs`: `ResultIsTree` (`CombinedIsTree`), `PlansMirror`
  (`PlanIsSymmetric`), `NothingIsLost` (`EditsSurvive`), `UntouchedYields`
  (`UntouchedSideYields`). The
  invariant is that all three are trees; the rest are theorems about any three
  trees. A merged text has every line that either side changed, since a line that
  is unchanged on one side is taken from the other.
- `SyncWorkflow_proofs`: `TypeCorrect` (`TypeOK` is proved only; no run repeats it),
  `PublicationsReplaceTheirBase` (`PublishesOverBase`). The inductive invariant `IInv` adds to the types that a
  command past its plan holds a revision the server has had, that a device about
  to publish saved exactly the base and revision it expects, and that a late
  update carries the manifest of its expected revision as base; `history` only
  grows.
- `SyncBase_proofs`: `SavedBaseIsPublished` (`BaseIsPublished`) and
  `ManifestIsApplied` (an apply is never refused, and ends with exactly the
  manifest that was to be applied), both under `~LateEdits`, which is what
  finding 2 is about: with such edits `BaseIsPublished` is false. Interruptions
  inside an apply are allowed. What is saved as base is a scan, so the invariant
  `BInv` follows the files all the way: they are a tree at any time, so that a
  directory that has to go is empty when its turn comes and a file has a place
  to be written to; what is not on the list of things to do is already as the
  plan wants it; what a plan without a publication wants is the head it was made
  for; and the conflict records name copies in the same directory.
- `SyncBase_proofs`, second part: `EditsArePreserved` (`EditsPreserved`) and
  `NoUpdateIsLost` (`NoLostUpdate`). The invariant `EInv` says in the sense of
  `CombinedKeeps` that each revision keeps the files of all earlier ones, that a
  device keeps those of its saved base, that a staged manifest and a late update
  keep those of the revision they replace, and that an apply has given up the
  sides of a merge when the merged text is in place. Assumed are `~LateEdits` as
  above; `~TornApply`, since after an apply that stopped half way the next sync takes
  what it removed for a removal by the user, and publishes that although the head
  has the file again (`docs/usage.md` warns of such a state); and that no
  command renames a copy (`NoRename`), see the limit below.
- `SyncBase_proofs`, third part: `BaseStaysCached` (`BaseIsCached`) for
  interruptions anywhere. `CInv` says that what is staged, saved and planned with
  is in the cache, and what is still to be applied is in the cache or in the
  combined manifest, which the apply caches. Assumed are `~LateEdits` and that no
  reconciliation merges (`NoMerges`): with a merge it is false, finding 1.
- `AccessServer_proofs`: `TypeCorrect`, `AlwaysAnOwner`, `GrantsOnlyForMembers`,
  `RemovalIsFinal`, `OwnersDecide` from one invariant, `AccessInv`. `Sound` holds of
  the access state and of every state that a handler, present or gone, is about to
  save: it has an owner, its grants are for members or were there when the workspace
  was created, and its members were there then or asked. Whoever is
  about to save holds the lock, and the state is what its event makes of the current
  one unless a dropped handler has saved one meanwhile; a signed event holds the state its revision names,
  as long as no dropped handler has made a second one of that revision. The
  exceptions are in the properties: `stray` says whether such a save happened, and
  whether it was before the latest read under the lock. `OneRequestEach` and
  `RequestsLimited` from `JoinInv`: whoever submits and is not dropped
  holds the lock, and who passed the checks still has a place in the list, since the
  others can only remove from it or insert what `strayed` has. `MembersHaveAsked`
  from `AskedFirst` besides: a request that is pending, or that a handler holds, was
  asked for, and only an approval makes a member.
- `ServerProcess_proofs`: `TypeCorrect`, `RepeatsOnlyAfterNewer` (`RepeatsAreStale`),
  `WholeSchemaServed` (`ServedFromWholeSchema`), `OpeningAllOrNothing`
  (`OpeningIsAtomic`). `ReplayInv` says that what the running process let through is
  in its cache, or that the cache was asked since about a request newer by more than
  `MaxSkew`; `SchemaInv` that a transaction belongs to a handler that creates or
  checks a schema or to nobody, that what a COMMIT in the queue will make of the
  database is what is there or the whole schema of an empty one, that nothing of a new
  schema is committed before the whole of it, that a statement left in a queue
  finds a database to work on, and that whoever is past the transaction finds a whole
  schema; `ProcessInv` that only the process with the lock has handlers.
- `Enrollment_proofs`: `TypeCorrect`, `IdentityIsKept` (`IdentityKept`),
  `WorkspaceIsWhole` (`NoHalfWorkspace`), `EnvelopeCanBeOpened`
  (`EnvelopeNotTooNew`). `DirectoryInv` says which files are written at each stage
  of a command, that the identity is in the backup from the rename until the
  new one is written, that a backup has no other file, and that only `init` writes
  before the workspace exists. What a failing `remove_dir_all` leaves is any part of a
  directory; `NoHalfWorkspace` leaves out `Home` after an `init` that cleans up, which
  may leave half of its files, and directories whose pending identity is in the backup;
  `EnvelopeInv` that an envelope is sealed for a device that has joined and for the
  revision at which it did, and that who reads one read the access state after that.
- `ObjectStore_proofs`: `TypeCorrect`, `CatalogBacked`, `WholeFiles`,
  `Refinement`, `OneWinner`. The invariant adds that a handler which goes on
  after it saw the file of its object still has a whole file, since files never go,
  and that who is about to link has written its temporary file to the end
  (`LinksAreWritten`), although others have stopped in the middle of theirs.
  `OneWinner` is proved from the step relation of `HeadStore`.

The parts of each inductive invariant were checked with TLC on the runs'
instances before they were proved.

Only model-checked:

- `Convergence`: liveness under fairness is out of the prover's reach.
- `EditsPreserved` and `NoLostUpdate` with the rename of `resolve --keep-remote`:
  checked for the two devices of `sync_conflicts`, and not true for every number of
  devices. With four this happens. One publishes x at p; the other three have a
  conflict with it and get the copy q of x. One of these writes x at p again and
  publishes x at p and at q. The second takes that as its base and stops before
  it publishes; its resolve renames q to p. The third publishes its own p
  with x at q. The second now sees p changed by the other and q removed by itself:
  it publishes the third's p without q. Nobody gave x up, and once all have synced
  it is in no tree.
  The rename is a removal of q for the planner, which does not know that p holds
  x only because of it.

## Abstractions

- A content is a value and its id is that value; hashes do not collide;
  signatures cannot be forged; decryption succeeds for who has the key.
- `SyncWorkflow`: one command per device at a time. An apply stops between two
  entries: the removal of what is at a path and the new file or directory there are one
  step (`local_engine.rs:551`, `589`). The three saves of the state
  after the second scan are one step. Interruptions and edits in the window from
  the last look at the tree to the saved base are switched on by the constants
  `TornApply` and `LateEdits`: `docs/usage.md` warns that an interrupted apply
  cannot always be rolled back, and finding 2 is about such edits. `push` and
  the safe `pull` are library calls that no command makes; a dry run changes
  nothing.
- `AccessServer`: the status of a membership stands for that of the device
  record. The state to create a workspace with is any that `validate` lets through
  and that names its sender as owner. Request ids are not shared by devices. A handler that is
  dropped while it waits for its INSERT or its save frees its locks, and the
  statement is not executed, or is at any later time, because sqlx runs it on a thread of its
  own. This is a limit of the code: such an INSERT comes on top of both limits on
  requests, and such a save may undo a removal that was decided meanwhile, of which
  `docs/usage.md` says that it blocks subsequent requests. The properties name these
  exceptions and say that nothing else breaks the rules. A DELETE that is
  executed late is that of a slow handler, which holds no lock there.
- `ObjectStore`: one workspace. A file is whole or partial, and so is a temporary one. A crash loses no
  completed file operation: power failures are not modelled.
- `Enrollment`: one command per directory; a new file is written in one step, and
  the key file and the keyring's registry are one part. `init` is at one place
  and makes the one workspace; if its identity is removed after a time-out, a
  second attempt uses the same name. Its empty manifest is the `staged` of
  `SyncWorkflow`. The interleavings within the server's handlers are those of
  `AccessServer`.
- `ServerProcess`: one workspace. The server's clock does not go back. A request
  may be signed for any time within `MaxSkew` of the clock; others are refused. The
  nonce cache drops entries by the time of the request at hand, so `RepeatsAreStale`
  is about the newest such time, and what `docs/security.md` promises about the
  server's clock is finding 5. What the access state and the permission say is
  left open, for `AccessServer`. The parts of a schema are a count, or `Foreign`
  for a schema of something else; comparing the text of definitions and columns
  is `objects = Statements`. Switching to the write-ahead log (`sqlite.rs:183`)
  rewrites the header of a database that is refused afterwards; a database is its
  schema here, so `OpeningIsAtomic` says nothing of that. A dropped handler leaves its
  transaction open until sqlx has closed the connection, or leaves a statement that is still
  executed; a waiting `BEGIN IMMEDIATE` gets the lock or times out.

## Not modelled

- Cryptography, object framing and ids: functions on bytes, without state.
- Ignore rules and the routes' paths: patterns on strings.
- Path validation beyond an entry below a file, file permissions, the cache's
  repeated hashing.
- The HTTP client, argument parsing, output, and the commands that only print
  (`status`, `doctor`, `conflicts`, lists).
- The file-only backend `FsStorage`: the server binary does not use it, only
  tests do. In it a dropped head update releases the head lock while its rename
  may still run (`storage/fs.rs:180`), which matters to whoever builds on it.
- Library calls that no command makes: `push`, safe `pull`, `create_key`,
  `set_active_key`.

## Plan

In this order; what is done is marked.

1. Planner, sync workflow, their runs and first theorems: done.
2. Access state and server, storage with its abstract specification: done.
3. Enrollment with `init`, authentication and the server process: done.
4. Proofs about `ServerProcess`, `Enrollment`, the planner, and `BaseIsPublished` of
   the sync workflow: done.
5. `EditsPreserved` and `NoLostUpdate` without `TornApply`, `LateEdits` and the rename;
   `BaseIsCached` without merges: done.
6. `SyncWorkflow` over `HeadStore` instead of its own history.
7. A statement about renamed copies that holds for any number of devices.
