--------------------------- MODULE Planning_proofs ---------------------------
(***************************************************************************)
(* Proofs about Planning: what reconciliation owes to the two sides it     *)
(* owes to all trees, of any paths, contents and depth.                    *)
(***************************************************************************)
EXTENDS Planning, Reconciliation_proofs

\* The three sides are trees, which CombinedIsTree, EditsSurvive and UntouchedSideYields
\* need.
Inv == IsWorkingTree(base) /\ IsWorkingTree(local) /\ IsWorkingTree(remote)

LEMMA EditedIsWorkingTree ==
    ASSUME NEW m, IsWorkingTree(m), NEW t \in Edited(m)
    PROVE  IsWorkingTree(t)
<1>1. CASE \E p \in Universe, e \in Versions \cup {Directory} : t = WriteEntry(m, p, e)
    <2>1. PICK p \in Universe, e \in Versions \cup {Directory} : t = WriteEntry(m, p, e)
        BY <1>1
    <2>2. p \in Path /\ e \in Entry /\ IsTree(t)
        BY PlanningAssumption DEF Edited, Entry
    <2> QED BY <2>1, <2>2, WriteIsFinite DEF IsWorkingTree
<1>2. CASE \E p \in DOMAIN m : t = RemovePath(m, p)
    BY <1>2, RemoveIsWorkingTree DEF IsWorkingTree
<1> QED
    BY <1>1, <1>2 DEF Edited

LEMMA Invariance == Spec => []Inv
<1>1. Init => Inv
    BY EmptyIsWorkingTree DEF Init, Inv
<1>2. Inv /\ [Next]_vars => Inv'
    BY EditedIsWorkingTree DEF Inv, Next, LocalEdit, RemoteEdit, Agree, vars
<1> QED
    BY <1>1, <1>2, PTL DEF Spec

\* The names add_conflict finds are free and different.
LEMMA CopyIsFresh ==
    ASSUME Inv
    PROVE  FreshCopies(Copy, Conflicts(base, local, remote), AllPaths(base, local, remote))
<1>1. Conflicts(base, local, remote) \in SUBSET Path
    BY DEF Conflicts, plan_reconciliation, PlannedPaths, AllPaths, Inv, IsWorkingTree
<1>2. IsFiniteSet(Reserved) /\ AllPaths(base, local, remote) \in SUBSET Reserved
    BY AllPathsFinite DEF Inv, Reserved
<1>3. Copy = [p \in Conflicts(base, local, remote) |-> remote_copy_path(p, Revision, Reserved)]
    BY DEF Copy
<1> QED
    BY <1>1, <1>2, <1>3, CopiesAreFresh, PlanningAssumption

\* The manifest that sync_workflow makes of a plan is a tree that validate_manifest_paths
\* accepts, for all sides that users can bring about.
THEOREM ResultIsTree == Spec => []CombinedIsTree
<1>1. Inv => CombinedIsTree
    <2> SUFFICES ASSUME Inv PROVE CombinedIsTree
        OBVIOUS
    <2> QED
        BY CopyIsFresh, CombinedIsWorkingTree DEF Inv, CombinedIsTree, Result, IsWorkingTree
<1> QED BY <1>1, Invariance, PTL

-----------------------------------------------------------------------------
(* The plan of one side and of the other.                                  *)

LEMMA MirroredPaths ==
    PlannedPaths(base, remote, local) = PlannedPaths(base, local, remote)
<1>1. AllPaths(base, remote, local) = AllPaths(base, local, remote)
    BY DEF AllPaths
<1>2. \A p : ConflictRoot(base, remote, local, p) <=> ConflictRoot(base, local, remote, p)
    BY DEF ConflictRoot, Structural
<1> QED
    BY <1>1, <1>2 DEF PlannedPaths

Mirror == [Unchanged |-> "Unchanged", Upload |-> "Download", Download |-> "Upload",
           Merge |-> "Merge", Conflict |-> "Conflict"]

LEMMA MirroredAction ==
    ASSUME NEW p \in AllPaths(base, local, remote)
    PROVE  PlannedAction(base, remote, local, p) = Mirror[PlannedAction(base, local, remote, p)]
<1>1. Structural(remote, local, p) <=> Structural(local, remote, p)
    BY DEF Structural
<1>2. CASE ~Structural(local, remote, p)
    BY <1>1, <1>2 DEF PlannedAction, reconcile_entry, entries_equal, Mirror
<1>3. CASE Structural(local, remote, p)
    <2>1. get(local, p) # get(remote, p)
        BY <1>3 DEF Structural
    <2>2. ~(subtrees_equal(base, local, p) /\ subtrees_equal(base, remote, p))
        BY <2>1 DEF subtrees_equal, Subtree, entries_equal, get, AllPaths
    <2> QED
        BY <1>1, <1>3, <2>2 DEF PlannedAction, Mirror
<1> QED BY <1>2, <1>3

\* plan_reconciliation does not prefer a side: seen from the other one, the same paths
\* conflict and merge, and an upload is a download.
THEOREM PlansMirror == Spec => []PlanIsSymmetric
<1>1. PlanIsSymmetric
    <2> DEFINE plan == plan_reconciliation(base, local, remote)
               other == plan_reconciliation(base, remote, local)
    <2>1. other = [p \in PlannedPaths(base, local, remote) |->
                        PlannedAction(base, remote, local, p)]
        BY MirroredPaths DEF plan_reconciliation
    <2>2. /\ DOMAIN plan = PlannedPaths(base, local, remote)
          /\ \A p \in DOMAIN plan : /\ plan[p] = PlannedAction(base, local, remote, p)
                                    /\ p \in AllPaths(base, local, remote)
        BY DEF plan_reconciliation, PlannedPaths
    <2>3. other = [p \in DOMAIN plan |-> Mirror[plan[p]]]
        <3> HIDE DEF plan, other
        <3>1. \A p \in DOMAIN plan : PlannedAction(base, remote, local, p) = Mirror[plan[p]]
            BY <2>2, MirroredAction
        <3> QED BY <2>1, <2>2, <3>1
    <2> QED
        BY <2>3 DEF PlanIsSymmetric, Mirror
<1> QED BY <1>1, PTL

-----------------------------------------------------------------------------
(* What a user wrote.                                                      *)

\* A merged text carries the lines that either side changed.
LEMMA MergeCarries ==
    ASSUME NEW from \in Content, NEW left \in Content, NEW right \in Content,
           merge_text_three_way(from, left, right) # None
    PROVE  /\ Carries(merge_text_three_way(from, left, right), from, left)
           /\ Carries(merge_text_three_way(from, left, right), from, right)
<1> DEFINE text == merge_text_three_way(from, left, right)
<1>1. /\ {from, left, right} \cap Binary = {}
      /\ Len(from) = Len(left) /\ Len(from) = Len(right)
      /\ \A i \in 1..Len(from) : ~Overlap(from, left, right, i)
      /\ text = [i \in 1..Len(from) |-> IF left[i] # from[i] THEN left[i] ELSE right[i]]
    BY DEF merge_text_three_way
<1>2. from \in Seq(Line) /\ left \in Seq(Line) /\ right \in Seq(Line)
    BY <1>1 DEF Content, Text
<1>3. Len(from) \in Nat /\ \A i \in 1..Len(from) : left[i] \in Line /\ right[i] \in Line
    <2>1. Len(from) \in Nat
        BY <1>2
    <2>2. \A i \in 1..Len(left) : left[i] \in Line
        BY <1>2, ElementOfSeq
    <2>3. \A i \in 1..Len(right) : right[i] \in Line
        BY <1>2, ElementOfSeq
    <2> QED
        BY <1>1, <2>1, <2>2, <2>3
<1> HIDE DEF text
<1>4. text \in [1..Len(from) -> Line]
    BY <1>1, <1>3
<1>5. text \in Seq(Line) /\ Len(text) = Len(from)
    BY <1>3, <1>4
<1>6. text \notin Binary
    BY <1>5, ValueAssumption DEF Text
<1>7. \A i \in 1..Len(from) : /\ left[i] # from[i] => text[i] = left[i]
                              /\ right[i] # from[i] => text[i] = right[i]
    BY <1>1 DEF Overlap
<1> QED
    BY <1>1, <1>5, <1>6, <1>7 DEF Carries, text

\* Of a planned Merge, what is written carries both sides.
LEMMA MergedCarries ==
    ASSUME Inv, NEW p, MergedText(base, local, remote, p) # None
    PROVE  /\ IsFile(get(base, p)) /\ IsFile(MergedText(base, local, remote, p))
           /\ Carries(MergedText(base, local, remote, p), base[p], local[p])
           /\ Carries(MergedText(base, local, remote, p), base[p], remote[p])
<1>1. IsFile(get(base, p)) /\ IsFile(get(local, p)) /\ IsFile(get(remote, p))
    BY DEF MergedText
<1>2. base[p] \in Content /\ local[p] \in Content /\ remote[p] \in Content
    BY <1>1 DEF IsFile, get, Inv, IsWorkingTree, IsManifest, Entry
<1>3. MergedText(base, local, remote, p) = merge_text_three_way(base[p], local[p], remote[p])
    BY <1>1 DEF MergedText
<1>4. MergedText(base, local, remote, p) \in Content
    BY <1>2, <1>3, MergeIsContent
<1> QED
    BY <1>1, <1>2, <1>3, <1>4, MergeCarries, ValueAssumption DEF IsFile, Entry

\* Nothing that a user wrote since the base disappears in a reconciliation: it is at its
\* path, in the merged text, or in a conflict copy of add_conflict.
THEOREM NothingIsLost == Spec => []EditsSurvive
<1>1. Inv => EditsSurvive
    <2> SUFFICES ASSUME Inv PROVE EditsSurvive
        OBVIOUS
    <2> DEFINE All == AllPaths(base, local, remote)
               Planned == PlannedPaths(base, local, remote)
               action(p) == PlannedAction(base, local, remote, p)
               merged(p) == MergedText(base, local, remote, p)
               copiesOf(p) == {CopyOf(q, p, Copy[q]) :
                                q \in {r \in DOMAIN Copy : r = p \/ Below(r, p)}}
               carried(side, p) == /\ IsFile(get(base, p)) /\ IsFile(get(Result, p))
                                   /\ Carries(Result[p], base[p], side[p])
    <2>1. /\ IsWorkingTree(base) /\ IsWorkingTree(local) /\ IsWorkingTree(remote)
          /\ FreshCopies(Copy, Conflicts(base, local, remote), All)
          /\ Result = Combined(base, local, remote, Copy)
          /\ DOMAIN Copy = Conflicts(base, local, remote)
        BY CopyIsFresh DEF Inv, Result, Copy
    <2>2. /\ \A p \in All : get(Result, p) = PlannedEntry(base, local, remote, p)
          /\ \A q \in DOMAIN Copy : \A p \in DOMAIN remote : Within(q, p) =>
                /\ CopyOf(q, p, Copy[q]) \in DOMAIN Result
                /\ Result[CopyOf(q, p, Copy[q])] = remote[p]
        BY <2>1, ResultHolds
    <2>3. \A p \in Planned : /\ plan_reconciliation(base, local, remote)[p] = action(p)
                             /\ p \in All
        BY DEF plan_reconciliation, PlannedPaths
    <2>4. ASSUME NEW p \in Planned, action(p) = "Merge", merged(p) # None
          PROVE  carried(local, p) /\ carried(remote, p)
        <3>1. get(Result, p) = merged(p)
            BY <2>2, <2>3, <2>4 DEF PlannedEntry
        <3>2. Result[p] = merged(p)
            BY <2>4, <3>1 DEF get
        <3> QED BY <2>4, <3>1, <3>2, MergedCarries
    <2>5. ASSUME NEW p \in DOMAIN local, local[p] # get(base, p)
          PROVE  local[p] = get(Result, p) \/ carried(local, p)
        <3>1. p \in All /\ get(local, p) = local[p]
            BY DEF AllPaths, get
        <3>2. CASE p \in Planned /\ action(p) = "Download"
            BY <2>5, <3>1, <3>2
               DEF PlannedAction, reconcile_entry, subtrees_equal, Subtree, entries_equal
        <3>3. CASE p \in Planned /\ action(p) = "Merge" /\ merged(p) # None
            BY <2>4, <3>3
        <3>4. CASE ~(p \in Planned /\ action(p) = "Download")
                   /\ ~(p \in Planned /\ action(p) = "Merge" /\ merged(p) # None)
            BY <2>2, <2>3, <3>1, <3>4 DEF PlannedEntry
        <3> QED BY <3>2, <3>3, <3>4
    <2>6. ASSUME NEW p \in DOMAIN remote, remote[p] # get(base, p)
          PROVE  \/ remote[p] = get(Result, p)
                 \/ \E c \in copiesOf(p) : remote[p] = get(Result, c)
                 \/ carried(remote, p)
        <3>1. p \in All /\ get(remote, p) = remote[p]
            BY DEF AllPaths, get
        <3>2. ASSUME NEW r \in Conflicts(base, local, remote), Within(r, p)
              PROVE  \E c \in copiesOf(p) : remote[p] = get(Result, c)
            <4>1. CopyOf(r, p, Copy[r]) \in copiesOf(p)
                BY <2>1, <3>2 DEF Within
            <4>2. get(Result, CopyOf(r, p, Copy[r])) = remote[p]
                BY <2>1, <2>2, <3>2 DEF get
            <4> QED BY <4>1, <4>2
        <3>3. CASE p \notin Planned
            BY <2>1, <3>1, <3>2, <3>3, RootIsConflict DEF Within
        <3>4. CASE p \in Planned /\ action(p) \in {"Unchanged", "Download"}
            <4>1. get(Result, p) = IF action(p) = "Download" THEN get(remote, p) ELSE get(local, p)
                BY <2>2, <2>3, <3>4 DEF PlannedEntry
            <4>2. action(p) = "Unchanged" => get(local, p) = get(remote, p)
                BY DEF PlannedAction, reconcile_entry, entries_equal
            <4> QED BY <3>1, <3>4, <4>1, <4>2
        <3>5. CASE p \in Planned /\ action(p) = "Upload"
            BY <2>6, <3>1, <3>5
               DEF PlannedAction, reconcile_entry, subtrees_equal, Subtree, entries_equal
        <3>6. CASE p \in Planned /\ action(p) = "Merge" /\ merged(p) # None
            BY <2>4, <3>6
        <3>7. CASE p \in Planned /\ (action(p) = "Conflict"
                                        \/ (action(p) = "Merge" /\ merged(p) = None))
            <4>1. p \in Conflicts(base, local, remote)
                BY <3>7 DEF Conflicts, plan_reconciliation
            <4> QED BY <3>2, <4>1 DEF Within
        <3>8. action(p) \in {"Unchanged", "Download", "Upload", "Merge", "Conflict"}
            BY DEF PlannedAction, reconcile_entry
        <3> QED BY <3>3, <3>4, <3>5, <3>6, <3>7, <3>8
    <2> QED
        BY <2>5, <2>6 DEF EditsSurvive
<1> QED BY <1>1, Invariance, PTL

-----------------------------------------------------------------------------
(* What a side left alone.                                                 *)

\* A copy that is within a tree of the three sides is one of a conflict in it.
LEMMA CopyStaysInDirectory ==
    ASSUME NEW paths, IsUpwardClosed(paths), NEW p \in paths, NEW c \in Path,
           NEW q \in Path, Within(c, q), NEW copy, IsCopyName(c, copy), copy \notin paths,
           Within(p, CopyOf(c, q, copy))
    PROVE  Below(p, c)
<1> DEFINE x == CopyOf(c, q, copy)
<1>1. /\ x \in Path /\ Len(x) = Len(q)
      /\ \A i \in 1..Len(q) : x[i] = IF i <= Len(c) THEN copy[i] ELSE q[i]
    BY CopyOfByElements DEF IsCopyName
<1>2. /\ p \in Path /\ copy \in Path /\ Len(copy) = Len(c)
      /\ \A i \in 1..(Len(c) - 1) : copy[i] = c[i]
    BY DEF IsUpwardClosed, IsCopyName
<1>3. /\ Len(c) \in Nat \ {0} /\ Len(q) \in Nat \ {0} /\ Len(c) <= Len(q)
      /\ Len(p) \in Nat \ {0}
      /\ copy \in Seq(Component) /\ p \in Seq(Component)
    BY <1>2, WithinByElements, PathLength
<1>4. Len(p) <= Len(x) /\ \A i \in 1..Len(p) : x[i] = p[i]
    BY <1>1, <1>2, WithinByElements
<1> HIDE DEF x
<1>5. CASE Len(p) < Len(c)
    <2>1. \A i \in 1..Len(p) : c[i] = p[i]
        BY <1>1, <1>2, <1>3, <1>4, <1>5
    <2> QED BY <1>2, <1>5, <2>1, BelowByElements
<1>6. CASE Len(c) <= Len(p)
    <2>1. \A i \in 1..Len(copy) : p[i] = copy[i]
        BY <1>1, <1>2, <1>3, <1>4, <1>6
    <2>2. Within(copy, p)
        <3>1. CASE Len(copy) < Len(p)
            BY <1>2, <2>1, <3>1, BelowByElements DEF Within
        <3>2. CASE Len(copy) = Len(p)
            BY <1>3, <2>1, <3>2, SeqEqual DEF Within
        <3> QED BY <1>2, <1>3, <1>6, <3>1, <3>2
    <2> QED BY <1>2, <2>2 DEF IsUpwardClosed
<1> QED BY <1>3, <1>5, <1>6

\* What is within p has in the three sides what its paths have.
LEMMA SameWithin ==
    ASSUME NEW one, NEW other, NEW p, SameBelow(one, other, p), NEW q, Within(p, q)
    PROVE  get(one, q) = get(other, q)
BY DEF SameBelow, Subtree, Within, get

\* A subtree that one side left alone, outside of every conflict, has in the result what
\* the other side has, and nothing else.
THEOREM UntouchedYields == Spec => []UntouchedSideYields
<1>1. Inv => UntouchedSideYields
    <2> SUFFICES ASSUME Inv,
                        NEW p \in Reserved, \A root \in DOMAIN Copy : ~Below(root, p)
                 PROVE  /\ SameBelow(base, local, p) => SameBelow(Result, remote, p)
                        /\ SameBelow(base, remote, p) => SameBelow(Result, local, p)
        BY DEF UntouchedSideYields
    <2> DEFINE All == AllPaths(base, local, remote)
               Planned == PlannedPaths(base, local, remote)
               Conflicting == Conflicts(base, local, remote)
               action(q) == PlannedAction(base, local, remote, q)
    <2>1. /\ IsWorkingTree(base) /\ IsWorkingTree(local) /\ IsWorkingTree(remote)
          /\ FreshCopies(Copy, Conflicting, All)
          /\ Result = Combined(base, local, remote, Copy)
          /\ DOMAIN Copy = Conflicting /\ p \in All
        BY CopyIsFresh DEF Inv, Result, Copy, Reserved
    <2>2. /\ \A q \in All : get(Result, q) = PlannedEntry(base, local, remote, q)
          /\ \A x \in DOMAIN Result :
                \/ x \in KeptPaths(base, local, remote)
                \/ \E c \in Conflicting : \E q \in DOMAIN remote :
                        Within(c, q) /\ x = CopyOf(c, q, Copy[c])
        BY <2>1, ResultHolds
    <2>3. IsUpwardClosed(All) /\ All \subseteq Path /\ Conflicting \subseteq Planned
          /\ Planned \subseteq All /\ DOMAIN remote \subseteq All
        BY <2>1, AllPathsClosed
           DEF IsUpwardClosed, Conflicts, plan_reconciliation, PlannedPaths, AllPaths
    <2>4. \A q \in Planned : plan_reconciliation(base, local, remote)[q] = action(q)
        BY DEF plan_reconciliation
    <2>5. ASSUME NEW q \in Planned
          PROVE  q \in Conflicting <=> \/ action(q) = "Conflict"
                                       \/ /\ action(q) = "Merge"
                                          /\ MergedText(base, local, remote, q) = None
        BY <2>4 DEF Conflicts, plan_reconciliation
    \* At a path within p the untouched side never conflicts, and yields.
    <2>6. ASSUME SameBelow(base, local, p), NEW q \in All, Within(p, q)
          PROVE  q \notin Conflicting /\ get(Result, q) = get(remote, q)
        <3>1. subtrees_equal(base, local, q)
            <4> SUFFICES ASSUME NEW z \in Subtree(q, DOMAIN base \cup DOMAIN local)
                         PROVE  get(base, z) = get(local, z)
                BY DEF subtrees_equal, entries_equal
            <4>1. z \in All /\ Within(q, z)
                BY DEF Subtree, Within, AllPaths
            <4>2. Within(p, z)
                BY <2>1, <2>3, <2>6, <4>1, BelowIsTransitive DEF Within
            <4> QED BY <2>6, <4>2, SameWithin
        <3>2. get(base, q) = get(local, q)
            BY <2>6, SameWithin
        <3>3. action(q) \in {"Unchanged", "Download"}
              /\ (action(q) = "Unchanged" => get(local, q) = get(remote, q))
            BY <3>1, <3>2 DEF PlannedAction, reconcile_entry, entries_equal
        <3>4. q \in Planned
            <4> SUFFICES ASSUME q \notin Planned PROVE FALSE
                OBVIOUS
            <4>1. PICK r \in Conflicting : Below(r, q)
                BY <2>1, RootIsConflict
            <4>2. r \in All /\ r \in Path /\ p \in Path /\ q \in Path
                BY <2>1, <2>3
            <4>3. Within(p, r)
                BY <2>1, <2>6, <4>1, <4>2, AncestorsCompare DEF Within
            <4>4. subtrees_equal(base, local, r)
                <5> SUFFICES ASSUME NEW z \in Subtree(r, DOMAIN base \cup DOMAIN local)
                             PROVE  get(base, z) = get(local, z)
                    BY DEF subtrees_equal, entries_equal
                <5>1. z \in All /\ Within(r, z)
                    BY DEF Subtree, Within, AllPaths
                <5>2. Within(p, z)
                    BY <2>3, <4>2, <4>3, <5>1, BelowIsTransitive DEF Within
                <5> QED BY <2>6, <5>2, SameWithin
            <4>5. get(base, r) = get(local, r)
                BY <2>6, <4>3, SameWithin
            <4>6. action(r) \in {"Unchanged", "Download"}
                BY <4>4, <4>5 DEF PlannedAction, reconcile_entry, entries_equal
            <4> QED BY <2>3, <2>5, <4>1, <4>6
        <3> QED
            BY <2>2, <2>4, <2>5, <3>3, <3>4 DEF PlannedEntry
    <2>7. ASSUME SameBelow(base, remote, p), NEW q \in All, Within(p, q)
          PROVE  q \notin Conflicting /\ get(Result, q) = get(local, q)
        <3>1. ASSUME NEW r \in All, Within(p, r)
              PROVE  /\ action(r) \in {"Unchanged", "Upload", "Download"}
                     /\ action(r) = "Download" => get(local, r) = get(remote, r)
            <4>1. subtrees_equal(base, remote, r)
                <5> SUFFICES ASSUME NEW z \in Subtree(r, DOMAIN base \cup DOMAIN remote)
                             PROVE  get(base, z) = get(remote, z)
                    BY DEF subtrees_equal, entries_equal
                <5>1. z \in All /\ Within(r, z)
                    BY DEF Subtree, Within, AllPaths
                <5>2. Within(p, z)
                    BY <2>1, <2>3, <3>1, <5>1, BelowIsTransitive DEF Within
                <5> QED BY <2>7, <5>2, SameWithin
            <4>2. get(base, r) = get(remote, r)
                BY <2>7, <3>1, SameWithin
            <4>3. CASE Structural(local, remote, r)
                <5>1. get(local, r) # get(base, r)
                    BY <4>2, <4>3 DEF Structural
                <5>2. ~subtrees_equal(base, local, r)
                    BY <5>1 DEF subtrees_equal, Subtree, entries_equal, get
                <5> QED BY <4>1, <4>3, <5>2 DEF PlannedAction
            <4>4. CASE ~Structural(local, remote, r)
                BY <4>2, <4>4 DEF PlannedAction, reconcile_entry, entries_equal
            <4> QED BY <4>3, <4>4
        <3>2. q \in Planned
            <4> SUFFICES ASSUME q \notin Planned PROVE FALSE
                OBVIOUS
            <4>1. PICK r \in Conflicting : Below(r, q)
                BY <2>1, RootIsConflict
            <4>2. r \in All /\ r \in Path /\ p \in Path /\ q \in Path
                BY <2>1, <2>3
            <4>3. Within(p, r)
                BY <2>1, <2>7, <4>1, <4>2, AncestorsCompare DEF Within
            <4> QED BY <2>3, <2>5, <3>1, <4>1, <4>2, <4>3
        <3> QED
            BY <2>2, <2>4, <2>5, <2>7, <3>1, <3>2 DEF PlannedEntry
    \* And no copy is put there.
    <2>8. ASSUME NEW x \in DOMAIN Result, Within(p, x),
                 \A q \in All : Within(p, q) => q \notin Conflicting
          PROVE  x \in All
        <3>1. CASE x \in KeptPaths(base, local, remote)
            BY <3>1 DEF KeptPaths
        <3>2. CASE \E c \in Conflicting : \E q \in DOMAIN remote :
                        Within(c, q) /\ x = CopyOf(c, q, Copy[c])
            <4>1. PICK c \in Conflicting, q \in DOMAIN remote :
                        Within(c, q) /\ x = CopyOf(c, q, Copy[c])
                BY <3>2
            <4>2. c \in Path /\ q \in Path /\ c \in All
                BY <2>3
            <4>3. IsCopyName(c, Copy[c]) /\ Copy[c] \notin All
                BY <2>1 DEF FreshCopies
            <4>4. Within(p, CopyOf(c, q, Copy[c]))
                BY <2>8, <4>1
            <4> HIDE DEF All, Conflicting
            <4>5. Below(p, c)
                BY <2>1, <2>3, <4>1, <4>2, <4>3, <4>4, CopyStaysInDirectory
            <4> QED BY <2>8, <4>2, <4>5 DEF Within
        <3> QED BY <2>2, <3>1, <3>2
    <2>9. ASSUME NEW side, DOMAIN side \subseteq All,
                 \A q \in All : Within(p, q) =>
                    q \notin Conflicting /\ get(Result, q) = get(side, q)
          PROVE  SameBelow(Result, side, p)
        <3> SUFFICES ASSUME NEW q \in Subtree(p, DOMAIN Result \cup DOMAIN side)
                     PROVE  get(Result, q) = get(side, q)
            BY DEF SameBelow
        <3>1. Within(p, q) /\ q \in DOMAIN Result \cup DOMAIN side
            BY DEF Subtree, Within
        <3>2. q \in All
            BY <2>8, <2>9, <3>1
        <3> QED BY <2>9, <3>1, <3>2
    <2>10. DOMAIN local \subseteq All /\ DOMAIN remote \subseteq All
        BY DEF AllPaths
    <2> HIDE DEF All, Conflicting
    <2> QED BY <2>6, <2>7, <2>9, <2>10
<1> QED BY <1>1, Invariance, PTL
=============================================================================
