---------------------------- MODULE SyncWorkflow ----------------------------
(***************************************************************************)
(* `rustsync sync` and `rustsync resolve` on several devices that share    *)
(* one workspace head.                                                     *)
(*                                                                         *)
(* Server side, the head is the sequence of the manifests published so     *)
(* far; a publication is a compare-and-swap on its length (modelled in     *)
(* full by ObjectStore).  Blobs and manifests are immutable and uploaded   *)
(* before the head names them, so a device that has read a head can read   *)
(* all of it at any later time.                                            *)
(*                                                                         *)
(* Device side, the model keeps the files, `.rustsync/manifest.json`       *)
(* (staged), `.rustsync/blobs` (cache), `.rustsync/sync-state.json` (st),  *)
(* and the variables of the one running command (pc, mem).  Users edit     *)
(* files between any two steps, and a command may stop after any step: a   *)
(* crash, a failed request and a lost response leave the same disk behind. *)
(***************************************************************************)
EXTENDS Reconciliation

CONSTANTS
    Device,        \* the enrolled devices
    Seeds,         \* the trees a workspace may start with, in sync everywhere
    UserEntries,   \* what users put at which paths
    MaxEdits,      \* bound: user edits in a behaviour
    MaxInterrupts, \* bound: commands cut short in a behaviour
    Modes,         \* the sync modes in use, of {"Reconcile", "DiscardLocal"}
    LateEdits,     \* TRUE when users also edit while files are being applied
    TornApply      \* TRUE when a command may stop while files are being applied

ASSUME WorkflowAssumption ==
    /\ DOMAIN UserEntries \subseteq Path
    /\ \A p \in DOMAIN UserEntries : UserEntries[p] \subseteq Entry
    /\ \A seed \in Seeds :
        /\ IsManifest(seed) /\ IsTree(seed)
        /\ DOMAIN seed \subseteq Path /\ IsFiniteSet(DOMAIN seed)
    /\ MaxEdits \in Nat
    /\ MaxInterrupts \in Nat
    /\ Modes \subseteq {"Reconcile", "DiscardLocal"}
    /\ LateEdits \in BOOLEAN
    /\ TornApply \in BOOLEAN

VARIABLES
    history,     \* server: the published manifests; the head revision is its length
    late,        \* server: head updates that arrive after their client gave up
    tree,        \* device: the working files
    staged,      \* device: manifest.json
    cache,       \* device: the contents in .rustsync/blobs
    st,          \* device: sync-state.json
    pc,          \* device: what its command does next
    mem,         \* device: the variables of its command
    edits,       \* number of user edits so far
    interrupts,  \* number of interruptions so far
    authored,    \* history variable: the contents users have written
    superseded   \* history variable: the contents users gave up, or merged

serverVars == <<history, late>>
deviceVars == <<tree, staged, cache, st, pc, mem>>
auxVars == <<edits, interrupts, authored, superseded>>
vars == <<serverVars, deviceVars, auxVars>>

-----------------------------------------------------------------------------
(* Data.                                                                   *)

Phases == {"Planning", "Download", "Publication"}

\* SyncState.  last_observed_remote and last_published_local are never read back.
SyncState(base, rev, pending, conflicts) ==
    [base |-> base, rev |-> rev, pending |-> pending, conflicts |-> conflicts]

\* SyncState::default(): no sync-state.json yet.
DefaultState == SyncState(None, None, None, EmptyManifest)

begin_pending(state, phase) == [state EXCEPT !.pending = phase]

complete_pending(state) == [state EXCEPT !.pending = None]

\* last_synced_manifest, or the empty manifest
Base(state) == IF state.base = None THEN EmptyManifest ELSE state.base

\* The manifest of a revision; revision 0 is a head without a manifest.
ManifestAt(revision) == IF revision = 0 THEN EmptyManifest ELSE history[revision]

head == Len(history)

\* Mutant of head_matches: a stale writer is let through.
HeadNotBehind(expected) == expected <= head

\* The compare-and-swap of the server's update_head.
head_matches(expected) == expected = head

\* The variables of a command that has just scanned the tree and read the state.
Attempt(d, mode, retry) ==
    [mode |-> mode, local |-> tree[d], state |-> st[d], head |-> 0, synced |-> 0,
     combined |-> EmptyManifest, todo |-> {}, retry |-> retry]

NoCommand ==
    [mode |-> None, local |-> EmptyManifest, state |-> DefaultState, head |-> 0,
     synced |-> 0, combined |-> EmptyManifest, todo |-> {}, retry |-> 0]

Remote(d) == ManifestAt(mem[d].head)

Plan(d) == plan_reconciliation(Base(mem[d].state), mem[d].local, Remote(d))

Goto(d, label) == pc' = [pc EXCEPT ![d] = label]

\* The command of d ends, with or without an error.
Return(d) ==
    /\ Goto(d, "idle")
    /\ mem' = [mem EXCEPT ![d] = NoCommand]

\* Written to a temporary file that is renamed.
save_sync_state(d, state) == st' = [st EXCEPT ![d] = state]

\* Mutant of cache_blobs: what is not needed now is dropped.
ReplaceCache(d, contents) == cache' = [cache EXCEPT ![d] = contents]

\* .rustsync/blobs only grows.
cache_blobs(d, contents) == cache' = [cache EXCEPT ![d] = @ \cup contents]

\* Every file of the manifest is cached; otherwise MissingStagedBlob.
staged_blobs_for_manifest(blobs, manifest) == Contents(manifest) \subseteq blobs

\* stage_all: scan, cache every file, save manifest.json.
stage_all(d) ==
    /\ staged' = [staged EXCEPT ![d] = tree[d]]
    /\ cache_blobs(d, Contents(tree[d]))

\* Mutants of Unchanged: the tree is compared with the base, or nobody looks again.
EqualsBase(d) == diff_manifests(Base(mem[d].state), tree[d]) = {}

NotRechecked(d) == TRUE

\* ensure_unchanged against the scan the command started from.
Unchanged(d) == diff_manifests(mem[d].local, tree[d]) = {}

-----------------------------------------------------------------------------
(* sync_attempt.                                                           *)

\* Scan the working tree and load the sync state.
ScanLocal(d) ==
    /\ pc[d] = "idle"
    /\ \E mode \in Modes : mem' = [mem EXCEPT ![d] = Attempt(d, mode, 0)]
    /\ Goto(d, "fetch")
    /\ UNCHANGED <<serverVars, tree, staged, cache, st, auxVars>>

\* Fetch the head and its manifest, and plan.
FetchAndPlan(d) ==
    LET plan == plan_reconciliation(Base(mem[d].state), mem[d].local, ManifestAt(head))
        state == begin_pending(mem[d].state, "Planning")
    IN
    /\ pc[d] = "fetch"
    /\ mem[d].mode = "Reconcile"
    /\ \/ /\ ~has_changes(plan)
          /\ mem' = [mem EXCEPT ![d].head = head]
          /\ Goto(d, "unchanged")
          /\ UNCHANGED st
       \/ /\ has_changes(plan)
          /\ mem' = [mem EXCEPT ![d].head = head, ![d].state = state]
          /\ save_sync_state(d, state)
          /\ Goto(d, "stage")
    /\ UNCHANGED <<serverVars, tree, staged, cache, auxVars>>

\* Nothing to reconcile: the scanned tree is the new base.
RecordUnchanged(d) ==
    /\ pc[d] = "unchanged"
    /\ stage_all(d)
    /\ IF Unchanged(d)
       THEN save_sync_state(d,
                [complete_pending(mem[d].state) EXCEPT
                    !.base = tree[d], !.rev = mem[d].head])
       ELSE UNCHANGED st
    /\ Return(d)
    /\ UNCHANGED <<serverVars, tree, auxVars>>

\* Stage the tree; stop when it changed since the scan, or when a file of the base
\* is missing from the cache.
StageLocal(d) ==
    /\ pc[d] = "stage"
    /\ stage_all(d)
    /\ IF Unchanged(d) /\ staged_blobs_for_manifest(cache'[d], Base(mem[d].state))
       THEN Goto(d, "combine") /\ UNCHANGED mem
       ELSE Return(d)
    /\ UNCHANGED <<serverVars, tree, st, auxVars>>

\* Download what is missing and build the manifest to apply.
CombineManifests(d) ==
    LET base == Base(mem[d].state)
        local == mem[d].local
        records == mem[d].state.conflicts
        reserved == AllPaths(base, local, Remote(d))
                        \cup {records[p].copy : p \in DOMAIN records}
        new == Conflicts(base, local, Remote(d))
        copy == [p \in new |-> remote_copy_path(p, mem[d].head, reserved)]
        conflicts == [p \in DOMAIN records \cup new |->
            IF p \in new
            THEN [copy |-> copy[p], remote_deleted |-> p \notin DOMAIN Remote(d)]
            ELSE records[p]]
    IN
    /\ pc[d] = "combine"
    /\ mem' = [mem EXCEPT ![d].combined = Combined(base, local, Remote(d), copy),
                          ![d].state.conflicts = conflicts]
    /\ Goto(d, "check")
    /\ UNCHANGED <<serverVars, tree, staged, cache, st, auxVars>>

\* Last look at the tree before it is overwritten; save the checkpoint.  A discard
\* saves none, and does not look when nothing was ever published.
BeginApply(d) ==
    LET discard == mem[d].mode = "DiscardLocal"
        state == IF discard THEN mem[d].state ELSE begin_pending(mem[d].state, "Download")
        checked == Unchanged(d) \/ (discard /\ mem[d].head = 0)
    IN
    /\ pc[d] = "check"
    /\ st' = IF discard \/ ~checked THEN st ELSE [st EXCEPT ![d] = state]
    /\ IF checked
       THEN mem' = [mem EXCEPT ![d].state = state] /\ Goto(d, "walk")
       ELSE Return(d)
    /\ UNCHANGED <<serverVars, tree, staged, cache, auxVars>>

\* What is on the disk, and whether the file or directory of p is there already.
collect_workspace_paths(d) == DOMAIN tree[d]

matching_local_file(d, p) == get(tree[d], p) = mem[d].combined[p]

\* The contents of the files that a change of the tree overwrites or removes.
Replaced(before, after) ==
    {before[p] : p \in {q \in DOMAIN before :
                            IsFile(before[q]) /\ get(after, q) # before[q]}}

\* History: what a user, a discard or a merge takes off a disk is given up on purpose.
GiveUp(contents) ==
    superseded' = superseded \cup contents

\* The paths whose two versions were merged.
Merges(d) ==
    {p \in DOMAIN Plan(d) :
        /\ Plan(d)[p] = "Merge"
        /\ MergedText(Base(mem[d].state), mem[d].local, Remote(d), p) # None}

\* apply_pulled_manifest refuses a manifest with an entry below a file, then lists
\* what is on the disk and finds the files that are already in place: among them the
\* merges that add nothing to the local version.
WalkTree(d) ==
    /\ pc[d] = "walk"
    /\ IF ValidPaths(mem[d].combined)
       THEN /\ mem' = [mem EXCEPT ![d].todo =
                    (collect_workspace_paths(d) \ DOMAIN mem[d].combined)
                        \cup {p \in DOMAIN mem[d].combined : ~matching_local_file(d, p)}]
            /\ GiveUp(IF mem[d].mode = "DiscardLocal" THEN {}
                      ELSE {get(Remote(d), p) : p \in
                                {q \in Merges(d) : matching_local_file(d, q)}})
            /\ Goto(d, "apply")
       ELSE Return(d) /\ UNCHANGED superseded
    /\ UNCHANGED <<serverVars, tree, staged, cache, st, edits, interrupts, authored>>

\* remove_entries_missing_from_remote, deepest paths first; a directory that is not
\* empty stays.
ApplyRemove(d) ==
    /\ pc[d] = "apply"
    /\ \E p \in mem[d].todo \ DOMAIN mem[d].combined :
        /\ \A q \in mem[d].todo \ DOMAIN mem[d].combined : ~Below(p, q)
        /\ mem' = [mem EXCEPT ![d].todo = @ \ {p}]
        /\ LET occupied == \E q \in DOMAIN tree[d] : Below(p, q)
               after == IF occupied THEN tree[d] ELSE RemovePath(tree[d], p)
           IN /\ tree' = [tree EXCEPT ![d] = after]
              /\ GiveUp(IF mem[d].mode = "DiscardLocal"
                           THEN Replaced(tree[d], after) ELSE {})
    /\ UNCHANGED <<serverVars, staged, cache, st, pc, edits, interrupts, authored>>

\* Prepare a directory, or cache a file and replace it, parents first.
ApplyWrite(d) ==
    /\ pc[d] = "apply"
    /\ mem[d].todo \subseteq DOMAIN mem[d].combined
    /\ \E p \in mem[d].todo :
        LET entry == mem[d].combined[p] IN
        /\ \A q \in mem[d].todo : ~Below(q, p)
        /\ mem' = [mem EXCEPT ![d].todo = @ \ {p}]
        /\ cache_blobs(d, {entry} \ {Directory})
        /\ tree' = [tree EXCEPT ![d] = WriteEntry(@, p, entry)]
        /\ GiveUp(IF mem[d].mode = "DiscardLocal"
                     THEN Replaced(tree[d], tree'[d])
                     ELSE IF p \in Merges(d) THEN {get(mem[d].local, p), get(Remote(d), p)}
                     ELSE {})
    /\ UNCHANGED <<serverVars, staged, st, pc, edits, interrupts, authored>>

\* Every entry is in place, and in the cache also where the file was already there:
\* save_manifest.
ApplyDone(d) ==
    /\ pc[d] = "apply"
    /\ mem[d].todo = {}
    /\ staged' = [staged EXCEPT ![d] = mem[d].combined]
    /\ cache_blobs(d, Contents(mem[d].combined))
    /\ Goto(d, IF mem[d].mode = "DiscardLocal" THEN "discarded" ELSE "restage")
    /\ UNCHANGED <<serverVars, tree, st, mem, auxVars>>

\* Stage what is to be published; from here on the remote revision is the base.
Restage(d) ==
    LET publish == requires_publication(Plan(d))
        applied == [mem[d].state EXCEPT !.base = Remote(d), !.rev = mem[d].head]
        state == IF publish THEN begin_pending(applied, "Publication") ELSE applied
    IN
    /\ pc[d] = "restage"
    /\ stage_all(d)
    /\ save_sync_state(d, state)
    /\ mem' = [mem EXCEPT ![d].state = state, ![d].synced = mem[d].head]
    /\ Goto(d, IF publish THEN "publish" ELSE "finish")
    /\ UNCHANGED <<serverVars, tree, auxVars>>

\* push_with_expected_head: the objects are uploaded and the head is still the one
\* the plan was made for.
PublishHead(d) ==
    /\ pc[d] = "publish"
    /\ head_matches(mem[d].head)
    /\ history' = Append(history, staged[d])
    /\ mem' = [mem EXCEPT ![d].synced = head + 1]
    /\ Goto(d, "finish")
    /\ UNCHANGED <<late, tree, staged, cache, st, auxVars>>

\* Another device was first: scan, fetch and plan again once, then give up.
PublicationRace(d) ==
    /\ pc[d] = "publish"
    /\ ~head_matches(mem[d].head)
    /\ IF mem[d].retry = 0
       THEN /\ mem' = [mem EXCEPT ![d] = Attempt(d, "Reconcile", 1)]
            /\ Goto(d, "fetch")
       ELSE Return(d)
    /\ UNCHANGED <<serverVars, tree, staged, cache, st, auxVars>>

\* The staged manifest is the new base.
FinishSync(d) ==
    /\ pc[d] = "finish"
    /\ save_sync_state(d,
            [complete_pending(mem[d].state) EXCEPT
                !.base = staged[d], !.rev = mem[d].synced])
    /\ Return(d)
    /\ UNCHANGED <<serverVars, tree, staged, cache, auxVars>>

-----------------------------------------------------------------------------
(* discard_local.                                                          *)

FetchForDiscard(d) ==
    /\ pc[d] = "fetch"
    /\ mem[d].mode = "DiscardLocal"
    /\ mem' = [mem EXCEPT ![d].head = head, ![d].combined = ManifestAt(head)]
    /\ Goto(d, "check")
    /\ UNCHANGED <<serverVars, tree, staged, cache, st, auxVars>>

FinishDiscard(d) ==
    /\ pc[d] = "discarded"
    /\ save_sync_state(d, SyncState(staged[d], mem[d].head, None, EmptyManifest))
    /\ Return(d)
    /\ UNCHANGED <<serverVars, tree, staged, cache, auxVars>>

-----------------------------------------------------------------------------
(* resolve.                                                                *)

\* The state without the record of p is saved after the files are changed.
Resolving(d, p) ==
    LET records == st[d].conflicts IN
    mem' = [mem EXCEPT ![d] =
        [NoCommand EXCEPT
            !.todo = {p},
            !.state = [st[d] EXCEPT !.conflicts =
                            [q \in DOMAIN records \ {p} |-> records[q]]]]]

ResolveKeepLocal(d) ==
    /\ pc[d] = "idle"
    /\ \E p \in DOMAIN st[d].conflicts :
        LET record == st[d].conflicts[p]
            after == IF record.remote_deleted THEN tree[d]
                     ELSE RemovePath(tree[d], record.copy)
        IN /\ Resolving(d, p)
           /\ tree' = [tree EXCEPT ![d] = after]
           /\ GiveUp(Replaced(tree[d], after))
    /\ Goto(d, "resolved")
    /\ UNCHANGED <<serverVars, staged, cache, st, edits, interrupts, authored>>

\* Mutant of symlink_metadata: the copy is taken to be there.
NotLooked(d, path) == TRUE

symlink_metadata(d, path) == path \in DOMAIN tree[d]

\* Keeping the remote side removes the local one first, if the copy is there: the user
\* gives the local side up for the remote one, never for nothing.
ResolveKeepRemote(d) ==
    /\ pc[d] = "idle"
    /\ \E p \in DOMAIN st[d].conflicts :
        LET record == st[d].conflicts[p]
            after == RemovePath(tree[d], p)
            chosen == record.remote_deleted \/ record.copy \in DOMAIN tree[d]
        IN /\ record.remote_deleted \/ symlink_metadata(d, record.copy)
           /\ Resolving(d, p)
           /\ tree' = [tree EXCEPT ![d] = after]
           /\ GiveUp(IF chosen THEN Replaced(tree[d], after) ELSE {})
           /\ Goto(d, IF record.remote_deleted THEN "resolved" ELSE "rename")
    /\ UNCHANGED <<serverVars, staged, cache, st, edits, interrupts, authored>>

\* What fs::rename replaces: a file by a file, an empty directory by a directory.
CanRename(m, from, to) ==
    /\ from \in DOMAIN m
    /\ to \in DOMAIN m =>
        /\ IsFile(m[from]) = IsFile(m[to])
        /\ ~\E q \in DOMAIN m : Below(to, q)

Renamed(m, from, to) ==
    LET moved == Subtree(from, DOMAIN m)
        target == {CopyOf(from, q, to) : q \in moved}
        origin(x) == CHOOSE q \in moved : x = CopyOf(from, q, to)
    IN [x \in (DOMAIN m \ moved) \cup target |->
            IF x \in target THEN m[origin(x)] ELSE m[x]]

\* fs::rename of the copy to the local path; a failure leaves the record.
ResolveRename(d) ==
    /\ pc[d] = "rename"
    /\ \E p \in mem[d].todo :
        LET copy == st[d].conflicts[p].copy IN
        IF CanRename(tree[d], copy, p)
        THEN /\ tree' = [tree EXCEPT ![d] = Renamed(@, copy, p)]
             /\ GiveUp(IF p \in DOMAIN tree[d] THEN {tree[d][p]} \ {Directory} ELSE {})
             /\ Goto(d, "resolved")
             /\ UNCHANGED mem
        ELSE Return(d) /\ UNCHANGED <<tree, superseded>>
    /\ UNCHANGED <<serverVars, staged, cache, st, edits, interrupts, authored>>

ResolveSave(d) ==
    /\ pc[d] = "resolved"
    /\ save_sync_state(d, mem[d].state)
    /\ Return(d)
    /\ UNCHANGED <<serverVars, tree, staged, cache, auxVars>>

-----------------------------------------------------------------------------
(* The environment.                                                        *)

\* From the last look at the tree to the scan and the state that record the result.
ApplyWindow == {"walk", "apply", "restage"}

\* A crash, a failed request or a lost response.
Interrupt(d) ==
    /\ pc[d] # "idle"
    /\ TornApply \/ pc[d] \notin ApplyWindow
    /\ interrupts < MaxInterrupts
    /\ interrupts' = interrupts + 1
    /\ Return(d)
    /\ UNCHANGED <<serverVars, tree, staged, cache, st, edits, authored, superseded>>

\* The client times out while its head update is still on the way; base is not part of
\* the request and only says what the manifest was reconciled with.
TimeOut(d) ==
    /\ pc[d] = "publish"
    /\ interrupts < MaxInterrupts
    /\ interrupts' = interrupts + 1
    /\ late' = late \cup {[expected |-> mem[d].head, manifest |-> staged[d],
                            base |-> st[d].base]}
    /\ Return(d)
    /\ UNCHANGED <<history, tree, staged, cache, st, edits, authored, superseded>>

\* The server gets to it: the update applies if the head has not moved.
LateUpdate ==
    /\ \E update \in late :
        /\ late' = late \ {update}
        /\ history' = IF head_matches(update.expected)
                      THEN Append(history, update.manifest) ELSE history
    /\ UNCHANGED <<deviceVars, auxVars>>

UserEdit(d) ==
    /\ edits < MaxEdits
    /\ LateEdits \/ pc[d] \notin ApplyWindow
    /\ \E p \in DOMAIN UserEntries : \E after \in
            {WriteEntry(tree[d], p, e) : e \in UserEntries[p]} \cup {RemovePath(tree[d], p)} :
        /\ IsTree(after)
        /\ after # tree[d]
        /\ tree' = [tree EXCEPT ![d] = after]
        /\ authored' = authored \cup (Contents(after) \ Contents(tree[d]))
        /\ GiveUp(Replaced(tree[d], after))
    /\ edits' = edits + 1
    /\ UNCHANGED <<serverVars, staged, cache, st, pc, mem, interrupts>>

-----------------------------------------------------------------------------
Init ==
    \E seed \in Seeds :
        /\ history = IF seed = EmptyManifest THEN <<>> ELSE <<seed>>
        /\ late = {}
        /\ tree = [d \in Device |-> seed]
        /\ staged = [d \in Device |-> seed]
        /\ cache = [d \in Device |-> Contents(seed)]
        /\ st = [d \in Device |->
                    IF seed = EmptyManifest THEN DefaultState
                    ELSE SyncState(seed, 1, None, EmptyManifest)]
        /\ pc = [d \in Device |-> "idle"]
        /\ mem = [d \in Device |-> NoCommand]
        /\ edits = 0
        /\ interrupts = 0
        /\ authored = Contents(seed)
        /\ superseded = {}

\* The steps of the programs, apart from starting a command.
SyncStep(d) ==
    \/ FetchAndPlan(d) \/ RecordUnchanged(d) \/ StageLocal(d) \/ CombineManifests(d)
    \/ BeginApply(d) \/ WalkTree(d) \/ ApplyRemove(d) \/ ApplyWrite(d)
    \/ ApplyDone(d) \/ Restage(d) \/ PublishHead(d) \/ PublicationRace(d)
    \/ FinishSync(d) \/ FetchForDiscard(d) \/ FinishDiscard(d)
    \/ ResolveRename(d) \/ ResolveSave(d)

Next ==
    \/ \E d \in Device :
        \/ ScanLocal(d) \/ SyncStep(d)
        \/ ResolveKeepLocal(d) \/ ResolveKeepRemote(d)
        \/ Interrupt(d) \/ TimeOut(d) \/ UserEdit(d)
    \/ LateUpdate

Spec == Init /\ [][Next]_vars

\* A command that was started runs on, and every device syncs again and again, as the
\* recovery table of docs/usage.md asks its user to.
Fairness == \A d \in Device : WF_vars(SyncStep(d)) /\ WF_vars(ScanLocal(d))

FairSpec == Spec /\ Fairness

-----------------------------------------------------------------------------
(* Properties.                                                             *)

Labels == {"idle", "fetch", "unchanged", "stage", "combine", "check", "walk", "apply",
           "restage", "publish", "finish", "discarded", "rename", "resolved"}

IsConflictRecord(r) ==
    r = [copy |-> r.copy, remote_deleted |-> r.remote_deleted] /\ r.remote_deleted \in BOOLEAN

IsSyncState(s) ==
    /\ s = SyncState(s.base, s.rev, s.pending, s.conflicts)
    /\ s.base # None => IsManifest(s.base)
    /\ s.rev \in Nat \cup {None}
    /\ s.pending \in Phases \cup {None}
    /\ \A p \in DOMAIN s.conflicts : IsConflictRecord(s.conflicts[p])

IsMemory(m) ==
    /\ m = [mode |-> m.mode, local |-> m.local, state |-> m.state, head |-> m.head,
            synced |-> m.synced, combined |-> m.combined, todo |-> m.todo, retry |-> m.retry]
    /\ m.mode \in {"Reconcile", "DiscardLocal", None}
    /\ IsManifest(m.local) /\ IsManifest(m.combined)
    /\ IsSyncState(m.state)
    /\ m.head \in Nat /\ m.synced \in Nat
    /\ m.retry \in 0..1

\* A function on the devices.
PerDevice(g) == g = [d \in Device |-> g[d]]

TypeOK ==
    /\ history \in Seq({history[i] : i \in 1..head})
    /\ \A i \in 1..head : IsManifest(history[i])
    /\ \A u \in late : u.expected \in Nat /\ IsManifest(u.manifest)
    /\ PerDevice(tree) /\ PerDevice(staged) /\ PerDevice(cache)
    /\ PerDevice(st) /\ PerDevice(pc) /\ PerDevice(mem)
    /\ \A d \in Device :
        /\ IsManifest(tree[d]) /\ IsManifest(staged[d])
        /\ cache[d] \subseteq Content
        /\ IsSyncState(st[d]) /\ IsMemory(mem[d])
        /\ pc[d] \in Labels

\* "The saved reconciliation base and revision must describe the same applied remote
\* state": whatever was interrupted, the base in sync-state.json is the manifest the
\* server published under the revision saved with it.
BaseIsPublished ==
    \A d \in Device : st[d].base # None =>
        st[d].rev \in 0..head /\ st[d].base = ManifestAt(st[d].rev)

\* No content a user wrote is lost by reconciliation: until a user overwrites, removes
\* or discards a file that holds it, or it is merged line by line, it is in the head
\* or on a disk.
EditsPreserved ==
    \A c \in authored \ superseded :
        c \in Contents(ManifestAt(head)) \/ \E d \in Device : c \in Contents(tree[d])

\* A sync that found the tree as it scanned it can plan: the contents of its base are
\* in the cache, so it does not stop with MissingStagedBlob.
BaseIsCached ==
    \A d \in Device : (pc[d] = "stage" /\ Unchanged(d)) =>
        Contents(Base(mem[d].state)) \subseteq cache[d] \cup Contents(tree[d])

\* A step of the head is a publication over the manifest it was reconciled with.
ReplacesItsBase ==
    head' # head =>
        /\ head' = head + 1
        /\ \/ \E d \in Device : /\ pc[d] = "publish"
                                /\ st[d].rev = head
                                /\ st[d].base = ManifestAt(head)
           \/ \E u \in late : u.expected = head /\ u.base = ManifestAt(head)

\* A publication replaces the very manifest it was reconciled with, whoever else
\* published meanwhile and however late the update arrives: the base its sender had
\* applied, and saved together with its revision, is the manifest of the head.
PublishesOverBase == [][ReplacesItsBase]_vars

\* No lost update: a publication drops a content from the head only when some user
\* overwrote, removed or discarded a file with it, or it was merged.
NoLostUpdate ==
    [][head' # head =>
        Contents(ManifestAt(head)) \ Contents(history'[head']) \subseteq superseded]_vars

\* Edits, conflicts and races settle: once users leave their files alone, every device
\* ends up with the files of the head and keeps them.
Convergence == <>[](\A d \in Device : tree[d] = ManifestAt(head))
=============================================================================
