------------------------- MODULE SyncWorkflow_proofs -------------------------
(***************************************************************************)
(* Type correctness of SyncWorkflow, and that every publication replaces   *)
(* the manifest it was reconciled with, for any number of devices, any     *)
(* contents and any number of edits and interruptions.                     *)
(***************************************************************************)
EXTENDS SyncWorkflow, Reconciliation_proofs

\* Abbreviations that the proofs always look through.
USE DEF save_sync_state, cache_blobs

-----------------------------------------------------------------------------
(* Records and sequences.                                                  *)

\* The fields of a saved state can be set one by one.
LEMMA SyncStateFields ==
    ASSUME NEW s, IsSyncState(s)
    PROVE  /\ \A base : IsManifest(base) => IsSyncState([s EXCEPT !.base = base])
           /\ \A rev \in Nat : IsSyncState([s EXCEPT !.rev = rev])
           /\ \A pending \in Phases \cup {None} : IsSyncState([s EXCEPT !.pending = pending])
           /\ \A conflicts :
                (\A p \in DOMAIN conflicts : IsConflictRecord(conflicts[p]))
                    => IsSyncState([s EXCEPT !.conflicts = conflicts])
BY DEF IsSyncState, SyncState

\* So can the variables of a command.
LEMMA MemoryFields ==
    ASSUME NEW m, IsMemory(m)
    PROVE  /\ \A h \in Nat : IsMemory([m EXCEPT !.head = h])
           /\ \A n \in Nat : IsMemory([m EXCEPT !.synced = n])
           /\ \A c : IsManifest(c) => IsMemory([m EXCEPT !.combined = c])
           /\ \A s : IsSyncState(s) => IsMemory([m EXCEPT !.state = s])
           /\ \A todo : IsMemory([m EXCEPT !.todo = todo])
BY DEF IsMemory

LEMMA DefaultTypes == IsSyncState(DefaultState) /\ IsMemory(NoCommand)
BY EmptyIsManifest DEF DefaultState, NoCommand, IsSyncState, SyncState, IsMemory, EmptyManifest

\* Appending a manifest keeps the earlier revisions.
LEMMA AppendManifest ==
    ASSUME NEW S, NEW s \in Seq(S), NEW m,
           NEW t, t = Append(s, m)
    PROVE  /\ Len(s) \in Nat
           /\ Len(t) = Len(s) + 1
           /\ t \in Seq({t[i] : i \in 1..Len(t)})
           /\ \A i \in 1..Len(s) : t[i] = s[i]
           /\ t[Len(s) + 1] = m
<1>1. s \in Seq(S \cup {m})
    BY SeqMonotonic
<1>2. /\ Len(s) \in Nat /\ Len(t) = Len(s) + 1 /\ t \in Seq(S \cup {m})
      /\ \A i \in 1..Len(s) : t[i] = s[i]
      /\ t[Len(s) + 1] = m
    BY <1>1
<1> DEFINE elements == {t[i] : i \in 1..Len(t)}
<1>3. t \in [1..Len(t) -> S \cup {m}]
    BY <1>2, LenProperties
<1>4. t \in [1..Len(t) -> elements]
    BY <1>3
<1>5. t \in Seq(elements)
    <2> HIDE DEF elements
    <2>1. Len(t) \in Nat
        BY <1>2
    <2>2. \E n \in Nat : t \in [1..n -> elements]
        BY <1>4, <2>1
    <2>3. Seq(elements) = UNION {[1..n -> elements] : n \in Nat}
        BY SeqDef
    <2> QED
        BY <2>2, <2>3, Zenon
<1> QED
    BY <1>2, <1>5

-----------------------------------------------------------------------------
(* The inductive invariant.  Type correctness alone is not inductive: the  *)
(* manifest of the revision a command works with is only typed when that   *)
(* revision exists.  PublishesOverBase needs what Restage saved to be      *)
(* still there when the head update is sent, and when it arrives late.     *)

ServerInv ==
    /\ history \in Seq({history[i] : i \in 1..head})
    /\ \A i \in 1..head : IsManifest(history[i])
    /\ \A u \in late : /\ u.expected \in 0..head /\ IsManifest(u.manifest)
                       /\ u.base = ManifestAt(u.expected)

DeviceInv(d) ==
    /\ IsManifest(tree[d]) /\ IsManifest(staged[d])
    /\ cache[d] \subseteq Content
    /\ IsSyncState(st[d]) /\ IsMemory(mem[d])
    /\ pc[d] \in Labels
    /\ mem[d].head <= head
    /\ pc[d] = "publish" =>
        st[d].rev = mem[d].head /\ st[d].base = ManifestAt(mem[d].head)

PerDeviceInv ==
    /\ PerDevice(tree) /\ PerDevice(staged) /\ PerDevice(cache)
    /\ PerDevice(st) /\ PerDevice(pc) /\ PerDevice(mem)

IInv == ServerInv /\ PerDeviceInv /\ \A d \in Device : DeviceInv(d)

\* A step of the command of d leaves the server and the other devices alone.
OnlyDevice(d) ==
    /\ UNCHANGED serverVars
    /\ PerDeviceInv'
    /\ \A e \in Device \ {d} :
        /\ tree'[e] = tree[e] /\ staged'[e] = staged[e] /\ cache'[e] = cache[e]
        /\ st'[e] = st[e] /\ pc'[e] = pc[e] /\ mem'[e] = mem[e]

LEMMA HeadIsNat == ASSUME ServerInv PROVE head \in Nat
BY LenProperties DEF ServerInv, head

LEMMA RevisionIsManifest ==
    ASSUME ServerInv, NEW r \in 0..head
    PROVE  IsManifest(ManifestAt(r))
BY HeadIsNat, EmptyIsManifest DEF ServerInv, ManifestAt

\* The revision a command works with exists.
LEMMA KnownRevision ==
    ASSUME IInv, NEW d \in Device
    PROVE  mem[d].head \in 0..head /\ IsManifest(Remote(d))
<1>1. head \in Nat
    BY HeadIsNat DEF IInv
<1>2. mem[d].head \in Nat /\ mem[d].head <= head
    BY DEF IInv, DeviceInv, IsMemory
<1>3. mem[d].head \in 0..head
    BY <1>1, <1>2
<1> QED
    BY <1>3, RevisionIsManifest DEF IInv, Remote

LEMMA LocalStep ==
    ASSUME IInv, NEW d \in Device, OnlyDevice(d), DeviceInv(d)'
    PROVE  IInv'
<1>1. ServerInv'
    BY DEF IInv, ServerInv, OnlyDevice, serverVars, head, ManifestAt
<1>2. ASSUME NEW e \in Device, e # d PROVE DeviceInv(e)'
    BY <1>2 DEF IInv, DeviceInv, OnlyDevice, serverVars, head, ManifestAt
<1> QED
    BY <1>1, <1>2 DEF IInv, OnlyDevice

LEMMA InitInv == Init => IInv
<1> SUFFICES ASSUME NEW seed \in Seeds,
                    history = IF seed = EmptyManifest THEN <<>> ELSE <<seed>>,
                    late = {},
                    tree = [d \in Device |-> seed],
                    staged = [d \in Device |-> seed],
                    cache = [d \in Device |-> Contents(seed)],
                    st = [d \in Device |->
                            IF seed = EmptyManifest THEN DefaultState
                            ELSE SyncState(seed, 1, None, EmptyManifest)],
                    pc = [d \in Device |-> "idle"],
                    mem = [d \in Device |-> NoCommand]
             PROVE  IInv
    BY DEF Init
<1>1. IsManifest(seed)
    BY WorkflowAssumption
<1>2. ServerInv
    <2>1. CASE seed = EmptyManifest
        BY <2>1 DEF ServerInv, head
    <2>2. CASE seed # EmptyManifest
        BY <1>1, <2>2 DEF ServerInv, head
    <2> QED
        BY <2>1, <2>2
<1>3. PerDeviceInv
    BY DEF PerDeviceInv, PerDevice
<1>4. IsSyncState(SyncState(seed, 1, None, EmptyManifest))
    BY <1>1 DEF IsSyncState, SyncState, EmptyManifest
<1>5. ASSUME NEW d \in Device PROVE DeviceInv(d)
    <2>1. mem[d].head <= head
        BY <1>2, HeadIsNat DEF NoCommand
    <2> QED
        BY <1>1, <1>4, <2>1, DefaultTypes, ContentsAreContent DEF DeviceInv, Labels
<1> QED
    BY <1>2, <1>3, <1>5 DEF IInv

\* What a command that goes on, or ends, leaves at its own device.
LEMMA ReturnInv ==
    ASSUME IInv, NEW d \in Device, UNCHANGED serverVars, PerDeviceInv',
           Return(d),
           \A e \in Device \ {d} : /\ tree'[e] = tree[e] /\ staged'[e] = staged[e]
                                   /\ cache'[e] = cache[e] /\ st'[e] = st[e],
           IsManifest(tree'[d]), IsManifest(staged'[d]), cache'[d] \subseteq Content,
           IsSyncState(st'[d])
    PROVE  IInv'
<1>1. OnlyDevice(d)
    BY DEF IInv, PerDeviceInv, PerDevice, Return, Goto, OnlyDevice
<1>2. mem'[d] = NoCommand /\ pc'[d] = "idle"
    BY DEF IInv, PerDeviceInv, PerDevice, Return, Goto
<1>3. mem'[d].head = 0 /\ head' \in Nat
    BY <1>2, HeadIsNat DEF NoCommand, IInv, head, serverVars
<1>4. DeviceInv(d)'
    BY <1>2, <1>3, DefaultTypes DEF DeviceInv, Labels
<1> QED
    BY <1>1, <1>4, LocalStep

\* stage_all saves a manifest and caches contents.
LEMMA StageInv ==
    ASSUME IInv, NEW d \in Device, stage_all(d)
    PROVE  /\ PerDevice(staged)' /\ PerDevice(cache)'
           /\ staged'[d] = tree[d] /\ IsManifest(staged'[d])
           /\ cache'[d] \subseteq Content
           /\ \A e \in Device \ {d} : staged'[e] = staged[e] /\ cache'[e] = cache[e]
<1>1. Contents(tree[d]) \subseteq Content
    BY ContentsAreContent DEF IInv, DeviceInv
<1> QED
    BY <1>1 DEF stage_all, IInv, PerDeviceInv, PerDevice, DeviceInv

LEMMA AttemptType ==
    ASSUME IInv, NEW d \in Device, NEW mode \in {"Reconcile", "DiscardLocal"},
           NEW retry \in 0..1
    PROVE  IsMemory(Attempt(d, mode, retry)) /\ Attempt(d, mode, retry).head = 0
<1>1. IsManifest(tree[d]) /\ IsSyncState(st[d])
    BY DEF IInv, DeviceInv
<1> QED
    BY <1>1, EmptyIsManifest DEF Attempt, IsMemory

LEMMA ScanLocalInv ==
    ASSUME IInv, NEW d \in Device, ScanLocal(d)
    PROVE  IInv'
<1>1. PICK mode \in Modes : mem' = [mem EXCEPT ![d] = Attempt(d, mode, 0)]
    BY DEF ScanLocal
<1>2. mode \in {"Reconcile", "DiscardLocal"}
    BY WorkflowAssumption
<1>3. IsMemory(Attempt(d, mode, 0)) /\ Attempt(d, mode, 0).head = 0
    BY <1>2, AttemptType
<1>4. OnlyDevice(d)
    BY <1>1 DEF ScanLocal, IInv, PerDeviceInv, PerDevice, Goto, OnlyDevice, serverVars
<1>5. /\ mem'[d] = Attempt(d, mode, 0) /\ pc'[d] = "fetch" /\ head' \in Nat
    BY <1>1, HeadIsNat
    DEF ScanLocal, IInv, PerDeviceInv, PerDevice, Goto, serverVars, head
<1>6. DeviceInv(d)'
    BY <1>3, <1>5 DEF ScanLocal, IInv, DeviceInv, Labels
<1> QED
    BY <1>4, <1>6, LocalStep

LEMMA FetchAndPlanInv ==
    ASSUME IInv, NEW d \in Device, FetchAndPlan(d)
    PROVE  IInv'
<1> DEFINE state == begin_pending(mem[d].state, "Planning")
<1>1. IsSyncState(state) /\ head \in Nat
    BY SyncStateFields, HeadIsNat DEF IInv, DeviceInv, IsMemory, begin_pending, Phases
<1>2. IsMemory([mem[d] EXCEPT !.head = head])
    BY <1>1, MemoryFields DEF IInv, DeviceInv
<1>3. IsMemory([mem[d] EXCEPT !.head = head, !.state = state])
    BY <1>1, <1>2, MemoryFields DEF IInv, DeviceInv
<1>4. OnlyDevice(d)
    BY DEF FetchAndPlan, IInv, PerDeviceInv, PerDevice, Goto, OnlyDevice, serverVars
<1>5. /\ \/ mem'[d] = [mem[d] EXCEPT !.head = head]
         \/ mem'[d] = [mem[d] EXCEPT !.head = head, !.state = state]
      /\ st'[d] \in {st[d], state} /\ pc'[d] \in {"unchanged", "stage"} /\ head' = head
      /\ tree'[d] = tree[d] /\ staged'[d] = staged[d] /\ cache'[d] = cache[d]
    BY DEF FetchAndPlan, IInv, PerDeviceInv, PerDevice, Goto, serverVars, head
<1>6. IsMemory(mem'[d]) /\ mem'[d].head = head
    <2>1. mem[d] = [mode |-> mem[d].mode, local |-> mem[d].local, state |-> mem[d].state,
                    head |-> mem[d].head, synced |-> mem[d].synced,
                    combined |-> mem[d].combined, todo |-> mem[d].todo,
                    retry |-> mem[d].retry]
        BY DEF IInv, DeviceInv, IsMemory
    <2> QED
        BY <1>2, <1>3, <1>5, <2>1
<1>7. DeviceInv(d)'
    BY <1>1, <1>5, <1>6 DEF IInv, DeviceInv, Labels
<1> QED
    BY <1>4, <1>7, LocalStep

LEMMA RecordUnchangedInv ==
    ASSUME IInv, NEW d \in Device, RecordUnchanged(d)
    PROVE  IInv'
<1> DEFINE state == [complete_pending(mem[d].state) EXCEPT
                        !.base = tree[d], !.rev = mem[d].head]
<1>1. IsSyncState(complete_pending(mem[d].state))
    BY SyncStateFields DEF IInv, DeviceInv, IsMemory, complete_pending
<1>2. IsSyncState([complete_pending(mem[d].state) EXCEPT !.base = tree[d]])
    BY <1>1, SyncStateFields DEF IInv, DeviceInv
<1>3. IsSyncState(state)
    BY <1>2, SyncStateFields DEF IInv, DeviceInv, IsMemory
<1>4. PerDeviceInv' /\ st'[d] \in {st[d], state}
    BY StageInv DEF RecordUnchanged, IInv, PerDeviceInv, PerDevice, Return, Goto
<1>5. /\ UNCHANGED serverVars /\ tree' = tree /\ Return(d) /\ stage_all(d)
      /\ \A e \in Device \ {d} : st'[e] = st[e]
    BY DEF RecordUnchanged, IInv, PerDeviceInv, PerDevice
<1> QED
    BY <1>3, <1>4, <1>5, StageInv, ReturnInv DEF IInv, DeviceInv

LEMMA StageLocalInv ==
    ASSUME IInv, NEW d \in Device, StageLocal(d)
    PROVE  IInv'
<1>1. /\ UNCHANGED <<serverVars, tree, st>> /\ stage_all(d)
      /\ (Goto(d, "combine") /\ UNCHANGED mem) \/ Return(d)
    BY DEF StageLocal
<1>2. CASE Return(d)
    <2>1. PerDeviceInv'
        BY <1>1, <1>2, StageInv DEF IInv, PerDeviceInv, PerDevice, Return, Goto
    <2> QED
        BY <1>1, <1>2, <2>1, StageInv, ReturnInv DEF IInv, DeviceInv
<1>3. CASE Goto(d, "combine") /\ UNCHANGED mem
    <2>1. OnlyDevice(d) /\ pc'[d] = "combine"
        BY <1>1, <1>3, StageInv DEF IInv, PerDeviceInv, PerDevice, Goto, OnlyDevice
    <2>2. DeviceInv(d)'
        BY <1>1, <1>3, <2>1, StageInv
        DEF IInv, DeviceInv, Labels, serverVars, head
    <2> QED
        BY <2>1, <2>2, LocalStep
<1> QED
    BY <1>1, <1>2, <1>3

LEMMA CombineManifestsInv ==
    ASSUME IInv, NEW d \in Device, CombineManifests(d)
    PROVE  IInv'
<1> DEFINE base == Base(mem[d].state)
           local == mem[d].local
           records == mem[d].state.conflicts
           reserved == AllPaths(base, local, Remote(d))
                        \cup {records[p].copy : p \in DOMAIN records}
           new == Conflicts(base, local, Remote(d))
           copy == [p \in new |-> remote_copy_path(p, mem[d].head, reserved)]
           conflicts == [p \in DOMAIN records \cup new |->
                IF p \in new
                THEN [copy |-> copy[p], remote_deleted |-> p \notin DOMAIN Remote(d)]
                ELSE records[p]]
           combined == Combined(base, local, Remote(d), copy)
           state == [mem[d].state EXCEPT !.conflicts = conflicts]
<1>1. /\ mem' = [mem EXCEPT ![d].combined = combined, ![d].state.conflicts = conflicts]
      /\ pc' = [pc EXCEPT ![d] = "check"]
      /\ UNCHANGED <<serverVars, tree, staged, cache, st>>
    BY DEF CombineManifests, Goto
<1>2. IsManifest(base) /\ IsManifest(local) /\ IsManifest(Remote(d))
    BY KnownRevision, EmptyIsManifest
    DEF IInv, DeviceInv, IsMemory, IsSyncState, Base
<1>3. IsManifest(combined)
    BY <1>2, CombinedIsManifest
<1>4. \A p \in DOMAIN conflicts : IsConflictRecord(conflicts[p])
    <2>1. \A p \in DOMAIN records : IsConflictRecord(records[p])
        BY DEF IInv, DeviceInv, IsMemory, IsSyncState
    <2> HIDE DEF new, copy, records
    <2> QED
        BY <2>1 DEF IsConflictRecord
<1>5. IsSyncState(state)
    <2> HIDE DEF conflicts
    <2> QED
        BY <1>4, SyncStateFields DEF IInv, DeviceInv, IsMemory
<1> HIDE DEF combined, state, conflicts
<1>6. IsMemory([[mem[d] EXCEPT !.combined = combined] EXCEPT !.state = state])
    BY <1>3, <1>5, MemoryFields DEF IInv, DeviceInv
<1>7. mem'[d] = [mem[d] EXCEPT !.combined = combined, !.state.conflicts = conflicts]
    BY <1>1 DEF IInv, PerDeviceInv, PerDevice
<1>8. mem[d] = [mode |-> mem[d].mode, local |-> mem[d].local, state |-> mem[d].state,
                head |-> mem[d].head, synced |-> mem[d].synced,
                combined |-> mem[d].combined, todo |-> mem[d].todo,
                retry |-> mem[d].retry]
    BY DEF IInv, DeviceInv, IsMemory
<1>9. mem'[d] = [[mem[d] EXCEPT !.combined = combined] EXCEPT !.state = state]
    BY <1>7, <1>8 DEF state
<1>10. IsMemory(mem'[d]) /\ mem'[d].head = mem[d].head
    BY <1>6, <1>8, <1>9
<1>11. OnlyDevice(d) /\ pc'[d] = "check"
    BY <1>1 DEF IInv, PerDeviceInv, PerDevice, OnlyDevice
<1>12. DeviceInv(d)'
    BY <1>1, <1>10, <1>11 DEF IInv, DeviceInv, Labels, serverVars, head
<1> QED
    BY <1>11, <1>12, LocalStep

LEMMA BeginApplyInv ==
    ASSUME IInv, NEW d \in Device, BeginApply(d)
    PROVE  IInv'
<1> DEFINE state == IF mem[d].mode = "DiscardLocal" THEN mem[d].state
                    ELSE begin_pending(mem[d].state, "Download")
<1>1. IsSyncState(state)
    BY SyncStateFields DEF IInv, DeviceInv, IsMemory, begin_pending, Phases
<1>2. IsMemory([mem[d] EXCEPT !.state = state])
    BY <1>1, MemoryFields DEF IInv, DeviceInv
<1> HIDE DEF state
<1>3. /\ UNCHANGED <<serverVars, tree, staged, cache>>
      /\ st' = st \/ st' = [st EXCEPT ![d] = state]
      /\ \/ mem' = [mem EXCEPT ![d].state = state] /\ Goto(d, "walk")
         \/ Return(d)
    BY DEF BeginApply, state
<1>4. /\ IsSyncState(st'[d]) /\ PerDevice(st)'
      /\ \A e \in Device \ {d} : st'[e] = st[e]
    BY <1>1, <1>3 DEF IInv, DeviceInv, PerDeviceInv, PerDevice
<1>5. CASE Return(d)
    <2>1. PerDeviceInv'
        BY <1>3, <1>4, <1>5 DEF IInv, PerDeviceInv, PerDevice, Return, Goto
    <2> QED
        BY <1>3, <1>4, <1>5, <2>1, ReturnInv DEF IInv, DeviceInv
<1>6. CASE mem' = [mem EXCEPT ![d].state = state] /\ Goto(d, "walk")
    <2>1. OnlyDevice(d) /\ pc'[d] = "walk" /\ mem'[d] = [mem[d] EXCEPT !.state = state]
        BY <1>3, <1>4, <1>6 DEF IInv, PerDeviceInv, PerDevice, Goto, OnlyDevice
    <2>2. mem'[d].head = mem[d].head
        BY <2>1 DEF IInv, DeviceInv, IsMemory
    <2>3. DeviceInv(d)'
        BY <1>2, <1>3, <1>4, <2>1, <2>2 DEF IInv, DeviceInv, Labels, serverVars, head
    <2> QED
        BY <2>1, <2>3, LocalStep
<1> QED
    BY <1>3, <1>5, <1>6

LEMMA WalkTreeInv ==
    ASSUME IInv, NEW d \in Device, WalkTree(d)
    PROVE  IInv'
<1> DEFINE todo == (collect_workspace_paths(d) \ DOMAIN mem[d].combined)
                    \cup {p \in DOMAIN mem[d].combined : ~matching_local_file(d, p)}
<1>1. /\ UNCHANGED <<serverVars, tree, staged, cache, st>>
      /\ \/ mem' = [mem EXCEPT ![d].todo = todo] /\ Goto(d, "apply")
         \/ Return(d)
    BY DEF WalkTree
<1>2. IsMemory([mem[d] EXCEPT !.todo = todo])
    BY MemoryFields DEF IInv, DeviceInv
<1> HIDE DEF todo
<1>3. CASE Return(d)
    <2>1. PerDeviceInv'
        BY <1>1, <1>3 DEF IInv, PerDeviceInv, PerDevice, Return, Goto
    <2> QED
        BY <1>1, <1>3, <2>1, ReturnInv DEF IInv, DeviceInv
<1>4. CASE mem' = [mem EXCEPT ![d].todo = todo] /\ Goto(d, "apply")
    <2>1. OnlyDevice(d) /\ pc'[d] = "apply" /\ mem'[d] = [mem[d] EXCEPT !.todo = todo]
        BY <1>1, <1>4 DEF IInv, PerDeviceInv, PerDevice, Goto, OnlyDevice
    <2>2. mem'[d].head = mem[d].head
        BY <2>1 DEF IInv, DeviceInv, IsMemory
    <2>3. DeviceInv(d)'
        BY <1>1, <1>2, <2>1, <2>2 DEF IInv, DeviceInv, Labels, serverVars, head
    <2> QED
        BY <2>1, <2>3, LocalStep
<1> QED
    BY <1>1, <1>3, <1>4

LEMMA ApplyRemoveInv ==
    ASSUME IInv, NEW d \in Device, ApplyRemove(d)
    PROVE  IInv'
<1>1. PICK p :
        /\ mem' = [mem EXCEPT ![d].todo = @ \ {p}]
        /\ tree' = [tree EXCEPT ![d] = IF \E q \in DOMAIN tree[d] : Below(p, q)
                                       THEN tree[d] ELSE RemovePath(tree[d], p)]
        /\ UNCHANGED <<serverVars, staged, cache, st, pc>>
    BY DEF ApplyRemove
<1>2. IsMemory([mem[d] EXCEPT !.todo = @ \ {p}])
    BY MemoryFields DEF IInv, DeviceInv
<1>3. IsManifest(tree'[d])
    BY <1>1, RemoveIsManifest DEF IInv, DeviceInv, PerDeviceInv, PerDevice
<1>4. OnlyDevice(d) /\ mem'[d] = [mem[d] EXCEPT !.todo = @ \ {p}]
    BY <1>1 DEF IInv, PerDeviceInv, PerDevice, OnlyDevice
<1>5. mem'[d].head = mem[d].head
    BY <1>4 DEF IInv, DeviceInv, IsMemory
<1>6. DeviceInv(d)'
    BY <1>1, <1>2, <1>3, <1>4, <1>5 DEF IInv, DeviceInv, serverVars, head, ManifestAt
<1> QED
    BY <1>4, <1>6, LocalStep

LEMMA ApplyWriteInv ==
    ASSUME IInv, NEW d \in Device, ApplyWrite(d)
    PROVE  IInv'
<1>1. PICK p \in mem[d].todo :
        /\ mem' = [mem EXCEPT ![d].todo = @ \ {p}]
        /\ cache' = [cache EXCEPT ![d] = @ \cup ({mem[d].combined[p]} \ {Directory})]
        /\ tree' = [tree EXCEPT ![d] = WriteEntry(@, p, mem[d].combined[p])]
        /\ p \in DOMAIN mem[d].combined
        /\ UNCHANGED <<serverVars, staged, st, pc>>
    BY DEF ApplyWrite
<1>2. IsMemory([mem[d] EXCEPT !.todo = @ \ {p}])
    BY MemoryFields DEF IInv, DeviceInv
<1>3. mem[d].combined[p] \in Entry
    BY <1>1 DEF IInv, DeviceInv, IsMemory, IsManifest
<1>4. IsManifest(tree'[d])
    BY <1>1, <1>3, WriteIsManifest DEF IInv, DeviceInv, PerDeviceInv, PerDevice
<1>5. cache'[d] \subseteq Content
    BY <1>1, <1>3 DEF IInv, DeviceInv, PerDeviceInv, PerDevice, Entry
<1>6. OnlyDevice(d) /\ mem'[d] = [mem[d] EXCEPT !.todo = @ \ {p}]
    BY <1>1 DEF IInv, PerDeviceInv, PerDevice, OnlyDevice
<1>7. mem'[d].head = mem[d].head
    BY <1>6 DEF IInv, DeviceInv, IsMemory
<1>8. DeviceInv(d)'
    BY <1>1, <1>2, <1>4, <1>5, <1>6, <1>7
    DEF IInv, DeviceInv, serverVars, head, ManifestAt
<1> QED
    BY <1>6, <1>8, LocalStep

LEMMA ApplyDoneInv ==
    ASSUME IInv, NEW d \in Device, ApplyDone(d)
    PROVE  IInv'
<1>1. Contents(mem[d].combined) \subseteq Content /\ IsManifest(mem[d].combined)
    BY ContentsAreContent DEF IInv, DeviceInv, IsMemory
<1>2. /\ OnlyDevice(d) /\ pc'[d] \in {"discarded", "restage"}
      /\ staged'[d] = mem[d].combined /\ cache'[d] \subseteq Content
    BY <1>1 DEF ApplyDone, IInv, DeviceInv, PerDeviceInv, PerDevice, Goto, OnlyDevice
<1>3. DeviceInv(d)'
    BY <1>1, <1>2 DEF ApplyDone, IInv, DeviceInv, Labels, serverVars, head
<1> QED
    BY <1>2, <1>3, LocalStep

LEMMA RestageInv ==
    ASSUME IInv, NEW d \in Device, Restage(d)
    PROVE  IInv'
<1> DEFINE applied == [mem[d].state EXCEPT !.base = Remote(d), !.rev = mem[d].head]
<1>1. PICK state :
        /\ state \in {applied, begin_pending(applied, "Publication")}
        /\ stage_all(d)
        /\ st' = [st EXCEPT ![d] = state]
        /\ mem' = [mem EXCEPT ![d].state = state, ![d].synced = mem[d].head]
        /\ Goto(d, "publish") \/ Goto(d, "finish")
        /\ UNCHANGED <<serverVars, tree>>
    BY DEF Restage
<1>2. mem[d].head \in Nat /\ IsManifest(Remote(d)) /\ IsSyncState(mem[d].state)
    BY KnownRevision DEF IInv, DeviceInv, IsMemory
<1>3. IsSyncState(applied) /\ applied.base = Remote(d) /\ applied.rev = mem[d].head
    <2>1. IsSyncState([mem[d].state EXCEPT !.base = Remote(d)])
        BY <1>2, SyncStateFields
    <2>2. IsSyncState(applied)
        BY <1>2, <2>1, SyncStateFields
    <2> QED
        BY <1>2, <2>2 DEF IsSyncState, SyncState
<1> HIDE DEF applied
<1>4. IsSyncState(state) /\ state.base = Remote(d) /\ state.rev = mem[d].head
    BY <1>1, <1>3, SyncStateFields DEF begin_pending, Phases, IsSyncState, SyncState
<1>5. IsMemory([[mem[d] EXCEPT !.state = state] EXCEPT !.synced = mem[d].head])
    BY <1>2, <1>4, MemoryFields DEF IInv, DeviceInv
<1>6. /\ mem'[d] = [mem[d] EXCEPT !.state = state, !.synced = mem[d].head]
      /\ st'[d] = state
      /\ pc'[d] \in {"publish", "finish"}
    BY <1>1 DEF IInv, PerDeviceInv, PerDevice, Goto
<1>7. mem'[d].head = mem[d].head /\ IsMemory(mem'[d])
    BY <1>5, <1>6 DEF IInv, DeviceInv, IsMemory
<1>8. OnlyDevice(d)
    BY <1>1, StageInv DEF IInv, PerDeviceInv, PerDevice, Goto, OnlyDevice
<1>9. DeviceInv(d)'
    BY <1>1, <1>4, <1>6, <1>7, <1>8, StageInv
    DEF IInv, DeviceInv, Labels, Remote, ManifestAt, serverVars, head
<1> QED
    BY <1>8, <1>9, LocalStep

\* A publication extends the history; what earlier revisions hold stays.
LEMMA PublicationInv ==
    ASSUME IInv, NEW m, IsManifest(m), history' = Append(history, m),
           \A u \in late' : u \in late
    PROVE  /\ ServerInv'
           /\ head' = head + 1 /\ head \in Nat
           /\ \A r \in 0..head : ManifestAt(r)' = ManifestAt(r)
<1>1. /\ head' = head + 1 /\ head \in Nat
      /\ history' \in Seq({history'[i] : i \in 1..head'})
      /\ \A i \in 1..head : history'[i] = history[i]
      /\ history'[head + 1] = m
    BY AppendManifest DEF IInv, ServerInv, head
<1>2. \A r \in 0..head : ManifestAt(r)' = ManifestAt(r)
    <2> TAKE r \in 0..head
    <2>1. r = 0 \/ r \in 1..head
        BY <1>1
    <2> QED
        BY <1>1, <2>1 DEF ManifestAt
<1>3. \A i \in 1..head' : IsManifest(history'[i])
    <2> TAKE i \in 1..head'
    <2>1. i \in 1..head \/ i = head + 1
        BY <1>1
    <2> QED
        BY <1>1, <2>1 DEF IInv, ServerInv
<1>4. \A u \in late' : /\ u.expected \in 0..head' /\ IsManifest(u.manifest)
                       /\ u.base = ManifestAt(u.expected)'
    <2> TAKE u \in late'
    <2>1. /\ u.expected \in 0..head /\ IsManifest(u.manifest)
          /\ u.base = ManifestAt(u.expected)
        BY DEF IInv, ServerInv
    <2>2. ManifestAt(u.expected)' = ManifestAt(u.expected)
        BY <1>2, <2>1 DEF ManifestAt
    <2>3. u.expected \in 0..head'
        BY <1>1, <2>1
    <2> QED
        BY <2>1, <2>2, <2>3
<1>5. ServerInv'
    BY <1>1, <1>3, <1>4 DEF ServerInv
<1> QED
    BY <1>1, <1>2, <1>5

\* ... so the other devices are as they were.
LEMMA DeviceKept ==
    ASSUME IInv, NEW m, IsManifest(m), history' = Append(history, m),
           \A u \in late' : u \in late, NEW e \in Device,
           tree'[e] = tree[e], staged'[e] = staged[e], cache'[e] = cache[e],
           st'[e] = st[e], pc'[e] = pc[e], mem'[e] = mem[e]
    PROVE  DeviceInv(e)'
<1>1. /\ head' = head + 1 /\ head \in Nat
      /\ \A r \in 0..head : ManifestAt(r)' = ManifestAt(r)
    BY PublicationInv
<1>2. mem[e].head \in 0..head
    BY KnownRevision
<1>3. ManifestAt(mem[e].head)' = ManifestAt(mem[e].head)
    BY <1>1, <1>2 DEF ManifestAt
<1>4. mem'[e].head <= head'
    BY <1>1, <1>2
<1> QED
    BY <1>3, <1>4 DEF IInv, DeviceInv, ManifestAt

LEMMA PublishHeadInv ==
    ASSUME IInv, NEW d \in Device, PublishHead(d)
    PROVE  IInv'
<1>1. /\ history' = Append(history, staged[d]) /\ IsManifest(staged[d])
      /\ late' = late
    BY DEF PublishHead, IInv, DeviceInv
<1>2. ServerInv' /\ head' = head + 1 /\ head \in Nat
    BY <1>1, PublicationInv
<1>3. /\ PerDeviceInv' /\ pc'[d] = "finish"
      /\ mem'[d] = [mem[d] EXCEPT !.synced = head + 1]
      /\ UNCHANGED <<tree, staged, cache, st>>
      /\ \A e \in Device \ {d} : pc'[e] = pc[e] /\ mem'[e] = mem[e]
    BY DEF PublishHead, IInv, PerDeviceInv, PerDevice, Goto
<1>4. IsMemory(mem'[d])
    BY <1>2, <1>3, MemoryFields DEF IInv, DeviceInv
<1>5. mem'[d].head <= head'
    <2>1. mem'[d].head = mem[d].head
        BY <1>3 DEF IInv, DeviceInv, IsMemory
    <2> QED
        BY <1>2, <2>1, KnownRevision
<1>6. DeviceInv(d)'
    BY <1>3, <1>4, <1>5 DEF IInv, DeviceInv, Labels
<1>7. ASSUME NEW e \in Device, e # d PROVE DeviceInv(e)'
    BY <1>1, <1>3, <1>7, DeviceKept
<1> QED
    BY <1>2, <1>3, <1>6, <1>7 DEF IInv

LEMMA PublicationRaceInv ==
    ASSUME IInv, NEW d \in Device, PublicationRace(d)
    PROVE  IInv'
<1>1. /\ UNCHANGED <<serverVars, tree, staged, cache, st>>
      /\ \/ mem' = [mem EXCEPT ![d] = Attempt(d, "Reconcile", 1)] /\ Goto(d, "fetch")
         \/ Return(d)
    BY DEF PublicationRace
<1>2. CASE Return(d)
    <2>1. PerDeviceInv'
        BY <1>1, <1>2 DEF IInv, PerDeviceInv, PerDevice, Return, Goto
    <2> QED
        BY <1>1, <1>2, <2>1, ReturnInv DEF IInv, DeviceInv
<1>3. CASE mem' = [mem EXCEPT ![d] = Attempt(d, "Reconcile", 1)] /\ Goto(d, "fetch")
    <2>1. /\ OnlyDevice(d) /\ pc'[d] = "fetch" /\ mem'[d] = Attempt(d, "Reconcile", 1)
          /\ head' = head
        BY <1>1, <1>3 DEF IInv, PerDeviceInv, PerDevice, Goto, OnlyDevice, serverVars, head
    <2>2. IsMemory(mem'[d]) /\ mem'[d].head = 0 /\ head' \in Nat
        BY <2>1, AttemptType, HeadIsNat DEF IInv
    <2>3. DeviceInv(d)'
        BY <1>1, <2>1, <2>2 DEF IInv, DeviceInv, Labels
    <2> QED
        BY <2>1, <2>3, LocalStep
<1> QED
    BY <1>1, <1>2, <1>3

LEMMA FinishSyncInv ==
    ASSUME IInv, NEW d \in Device, FinishSync(d)
    PROVE  IInv'
<1> DEFINE state == [complete_pending(mem[d].state) EXCEPT
                        !.base = staged[d], !.rev = mem[d].synced]
<1>1. IsSyncState(complete_pending(mem[d].state))
    BY SyncStateFields DEF IInv, DeviceInv, IsMemory, complete_pending
<1>2. IsSyncState([complete_pending(mem[d].state) EXCEPT !.base = staged[d]])
    BY <1>1, SyncStateFields DEF IInv, DeviceInv
<1>3. IsSyncState(state)
    BY <1>2, SyncStateFields DEF IInv, DeviceInv, IsMemory
<1>4. /\ PerDeviceInv' /\ st'[d] = state
      /\ UNCHANGED <<serverVars, tree, staged, cache>> /\ Return(d)
      /\ \A e \in Device \ {d} : st'[e] = st[e]
    BY DEF FinishSync, IInv, PerDeviceInv, PerDevice, Return, Goto
<1> QED
    BY <1>3, <1>4, ReturnInv DEF IInv, DeviceInv

LEMMA FetchForDiscardInv ==
    ASSUME IInv, NEW d \in Device, FetchForDiscard(d)
    PROVE  IInv'
<1>1. head \in Nat /\ IsManifest(ManifestAt(head))
    BY HeadIsNat, RevisionIsManifest DEF IInv
<1>2. IsMemory([[mem[d] EXCEPT !.head = head] EXCEPT !.combined = ManifestAt(head)])
    BY <1>1, MemoryFields DEF IInv, DeviceInv
<1>3. /\ OnlyDevice(d) /\ pc'[d] = "check" /\ head' = head
      /\ mem'[d] = [mem[d] EXCEPT !.head = head, !.combined = ManifestAt(head)]
    BY DEF FetchForDiscard, IInv, PerDeviceInv, PerDevice, Goto, OnlyDevice, serverVars, head
<1>4. mem'[d].head = head /\ IsMemory(mem'[d])
    BY <1>2, <1>3 DEF IInv, DeviceInv, IsMemory
<1>5. DeviceInv(d)'
    BY <1>1, <1>3, <1>4 DEF FetchForDiscard, IInv, DeviceInv, Labels
<1> QED
    BY <1>3, <1>5, LocalStep

LEMMA FinishDiscardInv ==
    ASSUME IInv, NEW d \in Device, FinishDiscard(d)
    PROVE  IInv'
<1> DEFINE state == SyncState(staged[d], mem[d].head, None, EmptyManifest)
<1>1. IsManifest(staged[d]) /\ mem[d].head \in Nat
    BY DEF IInv, DeviceInv, IsMemory
<1>2. IsSyncState(state)
    BY <1>1 DEF IsSyncState, SyncState, EmptyManifest
<1>3. /\ PerDeviceInv' /\ st'[d] = state
      /\ UNCHANGED <<serverVars, tree, staged, cache>> /\ Return(d)
      /\ \A e \in Device \ {d} : st'[e] = st[e]
    BY DEF FinishDiscard, IInv, PerDeviceInv, PerDevice, Return, Goto
<1> QED
    BY <1>2, <1>3, ReturnInv DEF IInv, DeviceInv

\* resolve keeps the other records, and its own state until it saves it.
LEMMA ResolvingType ==
    ASSUME IInv, NEW d \in Device, NEW p, Resolving(d, p)
    PROVE  /\ IsMemory(mem'[d]) /\ mem'[d].head = 0
           /\ PerDevice(mem)' /\ \A e \in Device \ {d} : mem'[e] = mem[e]
<1> DEFINE records == st[d].conflicts
           kept == [q \in DOMAIN records \ {p} |-> records[q]]
           state == [st[d] EXCEPT !.conflicts = kept]
<1>1. \A q \in DOMAIN kept : IsConflictRecord(kept[q])
    BY DEF IInv, DeviceInv, IsSyncState
<1>2. IsSyncState(state)
    <2> HIDE DEF kept
    <2> QED
        BY <1>1, SyncStateFields DEF IInv, DeviceInv
<1>3. mem' = [mem EXCEPT ![d] = [NoCommand EXCEPT !.todo = {p}, !.state = state]]
    BY DEF Resolving
<1> HIDE DEF state
<1>4. /\ IsMemory([[NoCommand EXCEPT !.todo = {p}] EXCEPT !.state = state])
    BY <1>2, DefaultTypes, MemoryFields
<1>5. mem'[d] = [[NoCommand EXCEPT !.todo = {p}] EXCEPT !.state = state]
    BY <1>3 DEF IInv, PerDeviceInv, PerDevice, NoCommand
<1>6. mem'[d].head = 0
    BY <1>5 DEF NoCommand
<1> QED
    BY <1>3, <1>4, <1>5, <1>6 DEF IInv, PerDeviceInv, PerDevice

LEMMA ResolveStep ==
    ASSUME IInv, NEW d \in Device, NEW p, Resolving(d, p), NEW after, IsManifest(after),
           tree' = [tree EXCEPT ![d] = after], NEW label \in {"resolved", "rename"},
           Goto(d, label), UNCHANGED <<serverVars, staged, cache, st>>
    PROVE  IInv'
<1>1. OnlyDevice(d) /\ tree'[d] = after /\ pc'[d] = label
    BY ResolvingType DEF IInv, PerDeviceInv, PerDevice, Goto, OnlyDevice
<1>2. head' \in Nat
    BY HeadIsNat DEF IInv, serverVars, head
<1>3. DeviceInv(d)'
    BY <1>1, <1>2, ResolvingType DEF IInv, DeviceInv, Labels
<1> QED
    BY <1>1, <1>3, LocalStep

LEMMA ResolveKeepLocalInv ==
    ASSUME IInv, NEW d \in Device, ResolveKeepLocal(d)
    PROVE  IInv'
<1>1. PICK p \in DOMAIN st[d].conflicts :
        /\ Resolving(d, p)
        /\ tree' = [tree EXCEPT ![d] =
                IF st[d].conflicts[p].remote_deleted THEN tree[d]
                ELSE RemovePath(tree[d], st[d].conflicts[p].copy)]
    BY DEF ResolveKeepLocal
<1>2. Goto(d, "resolved") /\ UNCHANGED <<serverVars, staged, cache, st>>
    BY DEF ResolveKeepLocal
<1>3. IsManifest(IF st[d].conflicts[p].remote_deleted THEN tree[d]
                 ELSE RemovePath(tree[d], st[d].conflicts[p].copy))
    BY RemoveIsManifest DEF IInv, DeviceInv
<1> QED
    BY <1>1, <1>2, <1>3, ResolveStep

LEMMA ResolveKeepRemoteInv ==
    ASSUME IInv, NEW d \in Device, ResolveKeepRemote(d)
    PROVE  IInv'
<1>1. PICK p \in DOMAIN st[d].conflicts :
        /\ Resolving(d, p)
        /\ tree' = [tree EXCEPT ![d] = RemovePath(tree[d], p)]
        /\ Goto(d, IF st[d].conflicts[p].remote_deleted THEN "resolved" ELSE "rename")
    BY DEF ResolveKeepRemote
<1>2. UNCHANGED <<serverVars, staged, cache, st>>
    BY DEF ResolveKeepRemote
<1>3. IsManifest(RemovePath(tree[d], p))
    BY RemoveIsManifest DEF IInv, DeviceInv
<1>4. Goto(d, "resolved") \/ Goto(d, "rename")
    BY <1>1
<1> QED
    BY <1>1, <1>2, <1>3, <1>4, ResolveStep

\* Renaming moves entries.
LEMMA RenamedIsManifest ==
    ASSUME NEW m, IsManifest(m), NEW from, NEW to
    PROVE  IsManifest(Renamed(m, from, to))
<1> DEFINE moved == Subtree(from, DOMAIN m)
           target == {CopyOf(from, q, to) : q \in moved}
           origin(x) == CHOOSE q \in moved : x = CopyOf(from, q, to)
           result == [x \in (DOMAIN m \ moved) \cup target |->
                        IF x \in target THEN m[origin(x)] ELSE m[x]]
<1>1. result = Renamed(m, from, to)
    BY DEF Renamed
<1>2. \A x \in target : origin(x) \in DOMAIN m
    BY DEF Subtree
<1>3. \A x \in DOMAIN result : result[x] \in Entry
    <2> HIDE DEF origin, target
    <2> QED
        BY <1>2 DEF IsManifest
<1>4. result = [x \in DOMAIN result |-> result[x]]
    OBVIOUS
<1> QED
    BY <1>1, <1>3, <1>4 DEF IsManifest

LEMMA ResolveRenameInv ==
    ASSUME IInv, NEW d \in Device, ResolveRename(d)
    PROVE  IInv'
<1>1. /\ UNCHANGED <<serverVars, staged, cache, st>>
      /\ \E p : LET copy == st[d].conflicts[p].copy IN
            \/ /\ tree' = [tree EXCEPT ![d] = Renamed(@, copy, p)]
               /\ Goto(d, "resolved") /\ UNCHANGED mem
            \/ Return(d) /\ UNCHANGED tree
    BY DEF ResolveRename
<1>2. PICK p : LET copy == st[d].conflicts[p].copy IN
            \/ /\ tree' = [tree EXCEPT ![d] = Renamed(@, copy, p)]
               /\ Goto(d, "resolved") /\ UNCHANGED mem
            \/ Return(d) /\ UNCHANGED tree
    BY <1>1
<1>3. CASE Return(d) /\ UNCHANGED tree
    <2>1. PerDeviceInv'
        BY <1>1, <1>3 DEF IInv, PerDeviceInv, PerDevice, Return, Goto
    <2> QED
        BY <1>1, <1>3, <2>1, ReturnInv DEF IInv, DeviceInv
<1>4. CASE /\ tree' = [tree EXCEPT ![d] = Renamed(@, st[d].conflicts[p].copy, p)]
           /\ Goto(d, "resolved") /\ UNCHANGED mem
    <2>1. IsManifest(Renamed(tree[d], st[d].conflicts[p].copy, p))
        BY RenamedIsManifest DEF IInv, DeviceInv
    <2>2. /\ OnlyDevice(d) /\ pc'[d] = "resolved" /\ head' = head
          /\ tree'[d] = Renamed(tree[d], st[d].conflicts[p].copy, p)
        BY <1>1, <1>4 DEF IInv, PerDeviceInv, PerDevice, Goto, OnlyDevice, serverVars, head
    <2>3. DeviceInv(d)'
        BY <1>1, <1>4, <2>1, <2>2 DEF IInv, DeviceInv, Labels
    <2> QED
        BY <2>2, <2>3, LocalStep
<1> QED
    BY <1>2, <1>3, <1>4

LEMMA ResolveSaveInv ==
    ASSUME IInv, NEW d \in Device, ResolveSave(d)
    PROVE  IInv'
<1>1. /\ PerDeviceInv' /\ st'[d] = mem[d].state
      /\ UNCHANGED <<serverVars, tree, staged, cache>> /\ Return(d)
      /\ \A e \in Device \ {d} : st'[e] = st[e]
    BY DEF ResolveSave, IInv, PerDeviceInv, PerDevice, Return, Goto
<1>2. IsSyncState(mem[d].state)
    BY DEF IInv, DeviceInv, IsMemory
<1> QED
    BY <1>1, <1>2, ReturnInv DEF IInv, DeviceInv

LEMMA InterruptInv ==
    ASSUME IInv, NEW d \in Device, Interrupt(d)
    PROVE  IInv'
<1>1. /\ PerDeviceInv' /\ Return(d)
      /\ UNCHANGED <<serverVars, tree, staged, cache, st>>
    BY DEF Interrupt, IInv, PerDeviceInv, PerDevice, Return, Goto
<1> QED
    BY <1>1, ReturnInv DEF IInv, DeviceInv

LEMMA TimeOutInv ==
    ASSUME IInv, NEW d \in Device, TimeOut(d)
    PROVE  IInv'
<1> DEFINE update == [expected |-> mem[d].head, manifest |-> staged[d], base |-> st[d].base]
<1>1. /\ late' = late \cup {update} /\ history' = history /\ pc[d] = "publish"
      /\ UNCHANGED <<tree, staged, cache, st>> /\ Return(d)
    BY DEF TimeOut
<1>2. /\ update.expected \in 0..head /\ IsManifest(update.manifest)
      /\ update.base = ManifestAt(update.expected)
    BY <1>1, KnownRevision DEF IInv, DeviceInv
<1> HIDE DEF update
<1>3. head' = head /\ \A r : ManifestAt(r)' = ManifestAt(r)
    BY <1>1 DEF head, ManifestAt
<1>4. ServerInv'
    BY <1>1, <1>2, <1>3 DEF IInv, ServerInv
<1>5. /\ PerDeviceInv' /\ pc'[d] = "idle" /\ mem'[d] = NoCommand
      /\ \A e \in Device \ {d} : pc'[e] = pc[e] /\ mem'[e] = mem[e]
    BY <1>1 DEF IInv, PerDeviceInv, PerDevice, Return, Goto
<1>6. DeviceInv(d)'
    <2>1. mem'[d].head <= head'
        BY <1>3, <1>5, HeadIsNat DEF NoCommand, IInv
    <2> QED
        BY <1>1, <1>5, <2>1, DefaultTypes DEF IInv, DeviceInv, Labels
<1>7. ASSUME NEW e \in Device, e # d PROVE DeviceInv(e)'
    BY <1>1, <1>3, <1>5, <1>7 DEF IInv, DeviceInv, ManifestAt
<1> QED
    BY <1>4, <1>5, <1>6, <1>7 DEF IInv

LEMMA LateUpdateInv ==
    ASSUME IInv, LateUpdate
    PROVE  IInv'
<1>1. PICK update \in late :
        /\ late' = late \ {update}
        /\ history' = IF head_matches(update.expected)
                      THEN Append(history, update.manifest) ELSE history
    BY DEF LateUpdate
<1>2. UNCHANGED <<tree, staged, cache, st, pc, mem>> /\ PerDeviceInv'
    BY DEF LateUpdate, deviceVars, IInv, PerDeviceInv, PerDevice
<1>3. IsManifest(update.manifest)
    BY DEF IInv, ServerInv
<1>4. CASE history' = Append(history, update.manifest)
    <2>1. ServerInv'
        BY <1>1, <1>3, <1>4, PublicationInv
    <2>2. ASSUME NEW e \in Device PROVE DeviceInv(e)'
        BY <1>1, <1>2, <1>3, <1>4, DeviceKept
    <2> QED
        BY <1>2, <2>1, <2>2 DEF IInv
<1>5. CASE history' = history
    <2>1. head' = head /\ \A r : ManifestAt(r)' = ManifestAt(r)
        BY <1>5 DEF head, ManifestAt
    <2>2. ServerInv'
        BY <1>1, <1>5, <2>1 DEF IInv, ServerInv
    <2>3. ASSUME NEW e \in Device PROVE DeviceInv(e)'
        BY <1>2, <2>1 DEF IInv, DeviceInv, ManifestAt
    <2> QED
        BY <1>2, <2>2, <2>3 DEF IInv
<1> QED
    BY <1>1, <1>4, <1>5

LEMMA UserEditInv ==
    ASSUME IInv, NEW d \in Device, UserEdit(d)
    PROVE  IInv'
<1> DEFINE edited(p) == {WriteEntry(tree[d], p, e) : e \in UserEntries[p]}
                            \cup {RemovePath(tree[d], p)}
<1>0. PICK p \in DOMAIN UserEntries : \E after \in edited(p) : tree' = [tree EXCEPT ![d] = after]
    BY DEF UserEdit
<1>1. PICK after \in edited(p) : tree' = [tree EXCEPT ![d] = after]
    BY <1>0
<1>2. UserEntries[p] \subseteq Entry
    BY WorkflowAssumption DEF Entry
<1>3. IsManifest(after)
    <2>1. IsManifest(tree[d])
        BY DEF IInv, DeviceInv
    <2>2. \A e \in UserEntries[p] : IsManifest(WriteEntry(tree[d], p, e))
        BY <1>2, <2>1, WriteIsManifest
    <2>3. IsManifest(RemovePath(tree[d], p))
        BY <2>1, RemoveIsManifest
    <2> QED
        BY <2>2, <2>3
<1>4. UNCHANGED <<serverVars, staged, cache, st, pc, mem>>
    BY DEF UserEdit
<1>5. OnlyDevice(d) /\ tree'[d] = after
    BY <1>1, <1>4 DEF IInv, PerDeviceInv, PerDevice, OnlyDevice
<1>6. DeviceInv(d)'
    BY <1>3, <1>4, <1>5 DEF IInv, DeviceInv, serverVars, head, ManifestAt
<1> QED
    BY <1>5, <1>6, LocalStep

LEMMA StutterInv ==
    ASSUME IInv, UNCHANGED vars
    PROVE  IInv'
BY DEF IInv, ServerInv, PerDeviceInv, PerDevice, DeviceInv, vars, serverVars, deviceVars,
       head, ManifestAt

LEMMA NextInv == IInv /\ [Next]_vars => IInv'
<1> SUFFICES ASSUME IInv, [Next]_vars PROVE IInv'
    OBVIOUS
<1>1. ASSUME NEW d \in Device, SyncStep(d) PROVE IInv'
    BY <1>1, FetchAndPlanInv, RecordUnchangedInv, StageLocalInv, CombineManifestsInv,
       BeginApplyInv, WalkTreeInv, ApplyRemoveInv, ApplyWriteInv, ApplyDoneInv, RestageInv,
       PublishHeadInv, PublicationRaceInv, FinishSyncInv, FetchForDiscardInv,
       FinishDiscardInv, ResolveRenameInv, ResolveSaveInv
    DEF SyncStep
<1> QED
    BY <1>1, ScanLocalInv, ResolveKeepLocalInv, ResolveKeepRemoteInv, InterruptInv,
       TimeOutInv, UserEditInv, LateUpdateInv, StutterInv
    DEF Next

-----------------------------------------------------------------------------
\* TypeOK is an invariant: through every sync, discard, resolve, interruption and late
\* update, manifest.json, sync-state.json and the published revisions hold manifests.
THEOREM TypeCorrect == Spec => []TypeOK
<1>1. IInv => TypeOK
    <2> SUFFICES ASSUME IInv PROVE TypeOK
        OBVIOUS
    <2>1. \A u \in late : u.expected \in Nat /\ IsManifest(u.manifest)
        BY HeadIsNat DEF IInv, ServerInv
    <2> QED
        BY <2>1 DEF IInv, ServerInv, PerDeviceInv, DeviceInv, TypeOK
<1> QED
    BY <1>1, InitInv, NextInv, PTL DEF Spec

\* Only a publication, in time or late, changes the published manifests.
LEMMA OnlyPublicationMoves ==
    ASSUME [Next]_vars, history' # history
    PROVE  LateUpdate \/ \E d \in Device : PublishHead(d)
<1>1. ASSUME NEW d \in Device,
             \/ ScanLocal(d) \/ (SyncStep(d) /\ ~PublishHead(d))
             \/ ResolveKeepLocal(d) \/ ResolveKeepRemote(d)
             \/ Interrupt(d) \/ TimeOut(d) \/ UserEdit(d)
      PROVE  history' = history
    BY <1>1 DEF ScanLocal, SyncStep, FetchAndPlan, RecordUnchanged, StageLocal,
        CombineManifests, BeginApply, WalkTree, ApplyRemove, ApplyWrite, ApplyDone,
        Restage, PublicationRace, FinishSync, FetchForDiscard, FinishDiscard,
        ResolveKeepLocal, ResolveKeepRemote, ResolveRename, ResolveSave, Interrupt,
        TimeOut, UserEdit, serverVars
<1> QED
    BY <1>1 DEF Next, vars, serverVars

\* Whatever races, timeouts and late updates happen, a head update replaces the very
\* manifest its sender reconciled with: compare-and-swap on the revision number
\* (update_head in sqlite.rs) is enough for that.
THEOREM PublicationsReplaceTheirBase == Spec => PublishesOverBase
<1>1. IInv /\ [Next]_vars => [ReplacesItsBase]_vars
    <2> SUFFICES ASSUME IInv, Next, head' # head PROVE ReplacesItsBase
        BY DEF ReplacesItsBase
    <2>1. ASSUME NEW d \in Device, PublishHead(d) PROVE ReplacesItsBase
        <3>1. history' = Append(history, staged[d]) /\ IsManifest(staged[d]) /\ late' = late
            BY <2>1 DEF PublishHead, IInv, DeviceInv
        <3>2. head' = head + 1
            BY <3>1, PublicationInv
        <3>3. pc[d] = "publish" /\ mem[d].head = head
            BY <2>1 DEF PublishHead, head_matches
        <3> QED
            BY <3>2, <3>3 DEF IInv, DeviceInv, ReplacesItsBase
    <2>2. CASE LateUpdate
        <3>1. PICK u \in late :
                /\ late' = late \ {u}
                /\ history' = IF head_matches(u.expected)
                              THEN Append(history, u.manifest) ELSE history
            BY <2>2 DEF LateUpdate
        <3>2. u.expected = head /\ history' = Append(history, u.manifest)
            BY <3>1 DEF head, head_matches
        <3>3. head' = head + 1
            BY <3>1, <3>2, PublicationInv DEF IInv, ServerInv
        <3> QED
            BY <3>2, <3>3 DEF IInv, ServerInv, ReplacesItsBase
    <2>3. LateUpdate \/ \E d \in Device : PublishHead(d)
        BY OnlyPublicationMoves DEF head
    <2> QED
        BY <2>1, <2>2, <2>3
<1> QED
    BY <1>1, InitInv, NextInv, PTL DEF Spec, PublishesOverBase
=============================================================================
