--------------------------- MODULE Reconciliation ---------------------------
(***************************************************************************)
(* Three-way reconciliation of manifests.                                  *)
(*                                                                         *)
(* The planner and the text merge of rustsync-core/src/reconciliation.rs,  *)
(* the manifest comparison of rustsync-core/src/manifest/diff.rs, and the  *)
(* loop of rustsync-cli/src/sync_workflow.rs that turns a plan into the    *)
(* manifest to apply.  All of it is pure; SyncWorkflow drives it.          *)
(*                                                                         *)
(* A manifest is a function from the paths it lists to entries.  A path is *)
(* the sequence of its components, and a component is the sequence that    *)
(* starts with a name and is followed by one (revision, suffix) pair for   *)
(* each ".rustsync-conflict-remote-r<revision>[-<suffix>]" ending; suffix  *)
(* 0 stands for the ending without "-<suffix>".  A file entry is the       *)
(* file's content: entries compare sizes and SHA-256 hashes, so equal      *)
(* entries are equal contents as long as no two contents collide.  A text  *)
(* is the sequence of its lines; anything that is not UTF-8 is a Binary.   *)
(***************************************************************************)
EXTENDS Naturals, Sequences, FiniteSets

CONSTANTS
    Name,       \* the names that files and directories are given
    Line,       \* the lines a text file can hold
    Binary,     \* the contents that are not UTF-8
    Directory,  \* the entry of a directory
    None        \* "no entry" and "no merge": Option::None

Text == Seq(Line)
Content == Text \cup Binary
Entry == Content \cup {Directory}

ASSUME ValueAssumption ==
    /\ None \notin Entry
    /\ Directory \notin Content
    /\ \A b \in Binary : b \notin Text

IsManifest(m) ==
    /\ m = [p \in DOMAIN m |-> m[p]]
    /\ \A p \in DOMAIN m : m[p] \in Entry

EmptyManifest == [p \in {} |-> None]

get(m, p) == IF p \in DOMAIN m THEN m[p] ELSE None

IsFile(e) == e \notin {None, Directory}

Contents(m) == {m[p] : p \in {q \in DOMAIN m : IsFile(m[q])}}

-----------------------------------------------------------------------------
(* Paths.                                                                  *)

Component == Seq(Name \cup Nat)

Path == Seq(Component) \ {<<>>}

\* `path.starts_with("{root}/")`
Below(root, p) == Len(root) < Len(p) /\ SubSeq(p, 1, Len(root)) = root

Subtree(root, S) == {p \in S : p = root \/ Below(root, p)}

conflict_copy_path(p, revision, suffix) ==
    [p EXCEPT ![Len(p)] = @ \o <<revision, suffix>>]

-----------------------------------------------------------------------------
(* Changes to the files of a working tree.                                 *)

\* Entry e at p.  A file that replaces a directory removes what is below it.
WriteEntry(m, p, e) ==
    LET gone == IF e = Directory THEN {} ELSE Subtree(p, DOMAIN m) IN
    [q \in (DOMAIN m \ gone) \cup {p} |-> IF q = p THEN e ELSE m[q]]

RemovePath(m, p) == [q \in DOMAIN m \ Subtree(p, DOMAIN m) |-> m[q]]

\* Only directories have something below them, and every parent exists.
IsTree(m) ==
    \A p \in DOMAIN m : \A n \in 1..(Len(p) - 1) : get(m, SubSeq(p, 1, n)) = Directory

\* validate_manifest_paths: no entry below a file.
ValidPaths(m) == \A p, q \in DOMAIN m : Below(p, q) => m[p] = Directory

-----------------------------------------------------------------------------
(* Planning.                                                               *)

entries_equal(left, right) == left = right

\* Whether two scans of the working tree differ: ensure_unchanged fails then.
diff_manifests(old, new) ==
    {p \in DOMAIN old \cup DOMAIN new : ~entries_equal(get(old, p), get(new, p))}

\* Mutant of reconcile_entry: the remote version replaces a local deletion.
RemoteOverDeletion(base, local, remote) ==
    IF entries_equal(local, remote) THEN "Unchanged"
    ELSE IF entries_equal(base, local) \/ local = None THEN "Download"
    ELSE IF entries_equal(base, remote) THEN "Upload"
    ELSE IF IsFile(local) /\ IsFile(remote) THEN "Merge"
    ELSE "Conflict"

reconcile_entry(base, local, remote) ==
    IF entries_equal(local, remote) THEN "Unchanged"
    ELSE IF entries_equal(base, local) THEN "Download"
    ELSE IF entries_equal(base, remote) THEN "Upload"
    ELSE IF IsFile(local) /\ IsFile(remote) THEN "Merge"
    ELSE "Conflict"

\* Mutant of subtrees_equal: only the entry at the root is compared.
RootsEqual(left, right, root) == entries_equal(get(left, root), get(right, root))

subtrees_equal(left, right, root) ==
    \A p \in Subtree(root, DOMAIN left \cup DOMAIN right) :
        entries_equal(get(left, p), get(right, p))

\* Exactly one side holds a directory at p.
Structural(local, remote, p) ==
    (get(local, p) = Directory) # (get(remote, p) = Directory)

\* p joins conflict_roots: everything below it is left out of the plan.
ConflictRoot(base, local, remote, p) ==
    /\ Structural(local, remote, p)
    /\ ~subtrees_equal(base, local, p)
    /\ ~subtrees_equal(base, remote, p)

AllPaths(base, local, remote) == DOMAIN base \cup DOMAIN local \cup DOMAIN remote

\* A path sorts after its ancestors, so a root is known before what is below it.
PlannedPaths(base, local, remote) ==
    {p \in AllPaths(base, local, remote) :
        ~\E root \in AllPaths(base, local, remote) :
            Below(root, p) /\ ConflictRoot(base, local, remote, root)}

PlannedAction(base, local, remote, p) ==
    IF ~Structural(local, remote, p)
    THEN reconcile_entry(get(base, p), get(local, p), get(remote, p))
    ELSE IF subtrees_equal(base, local, p) THEN "Download"
    ELSE IF subtrees_equal(base, remote, p) THEN "Upload"
    ELSE "Conflict"

plan_reconciliation(base, local, remote) ==
    [p \in PlannedPaths(base, local, remote) |-> PlannedAction(base, local, remote, p)]

has_changes(plan) == \E p \in DOMAIN plan : plan[p] # "Unchanged"

\* Mutant of requires_publication: an action that is forgotten.
PublishesUnlessMerge(plan) == \E p \in DOMAIN plan : plan[p] \in {"Upload", "Conflict"}

requires_publication(plan) ==
    \E p \in DOMAIN plan : plan[p] \in {"Upload", "Merge", "Conflict"}

-----------------------------------------------------------------------------
(* Text merge.                                                             *)

\* Both sides changed line i of the base, and not to the same line.
Overlap(base, local, remote, i) ==
    local[i] # base[i] /\ remote[i] # base[i] /\ local[i] # remote[i]

\* Mutant of merge_text_three_way: lines are paired up, and what is left over is dropped.
MergeShortest(base, local, remote) ==
    LET paired == {i \in 1..Len(base) : i <= Len(local) /\ i <= Len(remote)} IN
    IF \/ {base, local, remote} \cap Binary # {}
       \/ \E i \in paired : Overlap(base, local, remote, i)
    THEN None
    ELSE [i \in paired |-> IF local[i] # base[i] THEN local[i] ELSE remote[i]]

merge_text_three_way(base, local, remote) ==
    IF \/ {base, local, remote} \cap Binary # {}
       \/ Len(base) # Len(local)
       \/ Len(base) # Len(remote)
       \/ \E i \in 1..Len(base) : Overlap(base, local, remote, i)
    THEN None
    ELSE [i \in 1..Len(base) |-> IF local[i] # base[i] THEN local[i] ELSE remote[i]]

-----------------------------------------------------------------------------
(* The manifest to apply.                                                  *)

\* What a planned Merge writes, None when it falls back to a conflict.
MergedText(base, local, remote, p) ==
    IF IsFile(get(base, p)) /\ IsFile(get(local, p)) /\ IsFile(get(remote, p))
    THEN merge_text_three_way(base[p], local[p], remote[p])
    ELSE None

\* The paths add_conflict is called for.
Conflicts(base, local, remote) ==
    LET plan == plan_reconciliation(base, local, remote) IN
    {p \in DOMAIN plan :
        \/ plan[p] = "Conflict"
        \/ plan[p] = "Merge" /\ MergedText(base, local, remote, p) = None}

\* The first copy name for p that is not reserved.  Copy names of different
\* conflicts differ, so the reservations one conflict adds do not affect another.
remote_copy_path(p, revision, reserved) ==
    LET free(n) == conflict_copy_path(p, revision, n) \notin reserved IN
    conflict_copy_path(p, revision,
        CHOOSE n \in 0..Cardinality(reserved) :
            free(n) /\ \A m \in 0..(n - 1) : ~free(m))

\* Where add_conflict puts the remote entry at q, a path of the subtree of p.
CopyOf(p, q, copy) == copy \o SubSeq(q, Len(p) + 1, Len(q))

\* Mutant of CopiedEntries: what is below the path in conflict is not copied.
CopiedRoots(base, local, remote, copy) ==
    LET roots == Conflicts(base, local, remote) \cap DOMAIN remote IN
    [x \in {copy[p] : p \in roots} |-> remote[CHOOSE p \in roots : copy[p] = x]]

\* The remote subtrees of the conflicts at their copy paths.
CopiedEntries(base, local, remote, copy) ==
    LET moved == {m \in Conflicts(base, local, remote) \X DOMAIN remote :
                    m[1] = m[2] \/ Below(m[1], m[2])}
        target(m) == CopyOf(m[1], m[2], copy[m[1]])
    IN [x \in {target(m) : m \in moved} |->
            remote[(CHOOSE m \in moved : target(m) = x)[2]]]

\* The entry the plan leaves at p itself: None when p is not in the result.
PlannedEntry(base, local, remote, p) ==
    LET action == plan_reconciliation(base, local, remote)[p] IN
    IF p \notin PlannedPaths(base, local, remote) THEN get(local, p)
    ELSE IF action = "Download" THEN get(remote, p)
    ELSE IF action = "Merge" /\ MergedText(base, local, remote, p) # None
    THEN MergedText(base, local, remote, p)
    ELSE get(local, p)

\* The paths that keep an entry: a planned deletion leaves none.
KeptPaths(base, local, remote) ==
    {p \in AllPaths(base, local, remote) : PlannedEntry(base, local, remote, p) # None}

\* `combined`: what the planned paths and the untouched local subtrees of the
\* conflicts hold, and the copies.
Combined(base, local, remote, copy) ==
    LET copies == CopiedEntries(base, local, remote, copy)
    IN [p \in KeptPaths(base, local, remote) \cup DOMAIN copies |->
            IF p \in DOMAIN copies THEN copies[p]
            ELSE PlannedEntry(base, local, remote, p)]
=============================================================================
