------------------------ MODULE Reconciliation_proofs ------------------------
(***************************************************************************)
(* What the operators of Reconciliation.tla return, for every manifest.    *)
(***************************************************************************)
EXTENDS Reconciliation, SequenceTheorems, FiniteSetTheorems, WellFoundedInduction, TLAPS

\* get returns an entry or None.
LEMMA GetEntry ==
    ASSUME NEW m, IsManifest(m), NEW p
    PROVE  get(m, p) \in Entry \cup {None}
BY DEF IsManifest, get

\* Two manifests with the same entries are the same manifest.
LEMMA ManifestExtensionality ==
    ASSUME NEW m, IsManifest(m), NEW n, IsManifest(n), \A p : get(m, p) = get(n, p)
    PROVE  m = n
<1>1. DOMAIN m = DOMAIN n
    BY ValueAssumption DEF IsManifest, get
<1>2. \A p \in DOMAIN m : m[p] = n[p]
    BY <1>1 DEF get
<1>3. m = [p \in DOMAIN m |-> m[p]] /\ n = [p \in DOMAIN n |-> n[p]]
    BY DEF IsManifest
<1> QED
    BY <1>1, <1>2, <1>3

\* No file content is None or the directory entry.
LEMMA ContentsAreContent ==
    ASSUME NEW m, IsManifest(m)
    PROVE  Contents(m) \subseteq Content
BY DEF IsManifest, Contents, IsFile, Entry

LEMMA EmptyIsManifest == IsManifest(EmptyManifest)
BY DEF IsManifest, EmptyManifest

LEMMA WriteIsManifest ==
    ASSUME NEW m, IsManifest(m), NEW p, NEW e \in Entry
    PROVE  IsManifest(WriteEntry(m, p, e))
BY DEF IsManifest, WriteEntry, Subtree

LEMMA RemoveIsManifest ==
    ASSUME NEW m, IsManifest(m), NEW p
    PROVE  IsManifest(RemovePath(m, p))
BY DEF IsManifest, RemovePath, Subtree

\* A successful merge is a text.
LEMMA MergeIsContent ==
    ASSUME NEW base \in Content, NEW local \in Content, NEW remote \in Content
    PROVE  merge_text_three_way(base, local, remote) \in Content \cup {None}
<1> DEFINE merged == merge_text_three_way(base, local, remote)
<1> SUFFICES ASSUME merged # None PROVE merged \in Text
    BY DEF Content
<1>1. /\ base \in Text /\ local \in Text /\ remote \in Text
      /\ Len(base) = Len(local) /\ Len(base) = Len(remote)
      /\ merged = [i \in 1..Len(base) |->
                    IF local[i] # base[i] THEN local[i] ELSE remote[i]]
    BY DEF merge_text_three_way, Content
<1>2. Len(base) \in Nat
    BY <1>1 DEF Text
<1>3. \A i \in 1..Len(base) : local[i] \in Line /\ remote[i] \in Line
    BY <1>1, ElementOfSeq DEF Text
<1>4. merged \in [1..Len(base) -> Line]
    BY <1>1, <1>3
<1> QED
    BY <1>2, <1>4 DEF Text

\* What the plan leaves at a path is an entry of one of the sides, or their merge.
LEMMA PlannedIsEntry ==
    ASSUME NEW base, IsManifest(base), NEW local, IsManifest(local),
           NEW remote, IsManifest(remote), NEW p
    PROVE  PlannedEntry(base, local, remote, p) \in Entry \cup {None}
<1>1. get(local, p) \in Entry \cup {None} /\ get(remote, p) \in Entry \cup {None}
    BY GetEntry
<1>2. MergedText(base, local, remote, p) \in Entry \cup {None}
    <2>1. CASE IsFile(get(base, p)) /\ IsFile(get(local, p)) /\ IsFile(get(remote, p))
        <3>1. /\ base[p] \in Content /\ local[p] \in Content /\ remote[p] \in Content
            BY <2>1 DEF IsFile, get, IsManifest, Entry
        <3> QED
            BY <2>1, <3>1, MergeIsContent DEF MergedText, Entry
    <2>2. CASE ~(IsFile(get(base, p)) /\ IsFile(get(local, p)) /\ IsFile(get(remote, p)))
        BY <2>2 DEF MergedText
    <2> QED
        BY <2>1, <2>2
<1> QED
    BY <1>1, <1>2 DEF PlannedEntry

\* The manifest to apply is a manifest.
THEOREM CombinedIsManifest ==
    ASSUME NEW base, IsManifest(base), NEW local, IsManifest(local),
           NEW remote, IsManifest(remote), NEW copy
    PROVE  IsManifest(Combined(base, local, remote, copy))
<1> DEFINE copies == CopiedEntries(base, local, remote, copy)
           result == Combined(base, local, remote, copy)
<1>1. \A x \in DOMAIN copies : copies[x] \in Entry
    <2> DEFINE moved == {m \in Conflicts(base, local, remote) \X DOMAIN remote :
                            m[1] = m[2] \/ Below(m[1], m[2])}
               target(m) == CopyOf(m[1], m[2], copy[m[1]])
               source(x) == CHOOSE m \in moved : target(m) = x
    <2>1. copies = [x \in {target(m) : m \in moved} |-> remote[source(x)[2]]]
        BY DEF CopiedEntries
    <2>2. \A m \in moved : m[2] \in DOMAIN remote
        OBVIOUS
    <2>3. \A x \in {target(m) : m \in moved} : source(x) \in moved
        OBVIOUS
    <2> HIDE DEF moved, source, target
    <2>4. \A x \in DOMAIN copies : copies[x] = remote[source(x)[2]] /\ source(x)[2] \in DOMAIN remote
        BY <2>1, <2>2, <2>3
    <2> QED
        BY <2>4 DEF IsManifest
<1>2. \A p \in KeptPaths(base, local, remote) :
        PlannedEntry(base, local, remote, p) \in Entry
    BY PlannedIsEntry DEF KeptPaths
<1>3. result = [p \in KeptPaths(base, local, remote) \cup DOMAIN copies |->
                    IF p \in DOMAIN copies THEN copies[p]
                    ELSE PlannedEntry(base, local, remote, p)]
    BY DEF Combined
<1> HIDE DEF copies, result
<1>4. \A p \in DOMAIN result : result[p] \in Entry
    BY <1>1, <1>2, <1>3
<1>5. result = [p \in DOMAIN result |-> result[p]]
    BY <1>3
<1>6. IsManifest(result)
    BY <1>4, <1>5 DEF IsManifest
<1> QED
    BY <1>6 DEF result

\* The least-element principle: what induction over the length of a path rests on.
LEMMA LeastNumber ==
    ASSUME NEW T \in SUBSET Nat, T # {}
    PROVE  \E x \in T : \A y \in T : x <= y
<1> DEFINE R == OpToRel(<, Nat)
<1>1. IsWellFoundedOn(R, Nat)
    BY NatLessThanWellFounded
<1>2. PICK x \in T : \A y \in T : <<y, x>> \notin R
    <2> HIDE DEF R
    <2> QED
        BY <1>1, WFMin
<1>3. \A y \in T : ~(y < x)
    BY <1>2 DEF OpToRel
<1> QED
    BY <1>3

\* The topmost conflict root is planned as a conflict: when no path is, the plan
\* covers every path.
LEMMA NoConflictRoot ==
    ASSUME NEW base, NEW local, NEW remote,
           \A p \in AllPaths(base, local, remote) : Len(p) \in Nat,
           \A p \in PlannedPaths(base, local, remote) :
                PlannedAction(base, local, remote, p) # "Conflict"
    PROVE  PlannedPaths(base, local, remote) = AllPaths(base, local, remote)
<1> DEFINE All == AllPaths(base, local, remote)
           root(p) == ConflictRoot(base, local, remote, p)
           depths == {Len(p) : p \in {q \in All : root(q)}}
<1>1. \A p \in All : ~root(p)
    <2> SUFFICES ASSUME NEW p \in All, root(p) PROVE FALSE
        OBVIOUS
    <2>1. depths \in SUBSET Nat /\ depths # {}
        BY DEF depths
    <2>2. PICK n \in depths : \A m \in depths : n <= m
        BY <2>1, LeastNumber
    <2>3. PICK r \in All : root(r) /\ Len(r) = n
        BY <2>2
    <2>4. \A q \in All : root(q) => ~Below(q, r)
        BY <2>1, <2>2, <2>3 DEF Below
    <2>5. r \in PlannedPaths(base, local, remote)
        BY <2>3, <2>4 DEF PlannedPaths
    <2>6. PlannedAction(base, local, remote, r) = "Conflict"
        BY <2>3 DEF PlannedAction, ConflictRoot
    <2> QED
        BY <2>5, <2>6
<1> QED
    BY <1>1 DEF PlannedPaths

\* A plan without changes means that both sides are the same: sync_attempt may take
\* the scanned tree for the manifest of the head when it finds nothing to do.
THEOREM NothingToReconcile ==
    ASSUME NEW base, NEW local, IsManifest(local), NEW remote, IsManifest(remote),
           \A p \in AllPaths(base, local, remote) : Len(p) \in Nat,
           ~has_changes(plan_reconciliation(base, local, remote))
    PROVE  local = remote
<1>1. \A p \in PlannedPaths(base, local, remote) :
        PlannedAction(base, local, remote, p) = "Unchanged"
    BY DEF has_changes, plan_reconciliation
<1>2. PlannedPaths(base, local, remote) = AllPaths(base, local, remote)
    BY <1>1, NoConflictRoot
<1>3. \A p \in AllPaths(base, local, remote) : get(local, p) = get(remote, p)
    BY <1>1, <1>2 DEF PlannedAction, reconcile_entry, entries_equal, Structural
<1>4. \A p : get(local, p) = get(remote, p)
    BY <1>3 DEF AllPaths, get
<1> QED
    BY <1>4, ManifestExtensionality

\* When the plan only downloads, the manifest to apply is the remote one: what
\* sync_attempt records as base without publishing is what the server published.
THEOREM DownloadsOnly ==
    ASSUME NEW base, IsManifest(base), NEW local, IsManifest(local),
           NEW remote, IsManifest(remote), NEW copy,
           \A p \in AllPaths(base, local, remote) : Len(p) \in Nat,
           ~requires_publication(plan_reconciliation(base, local, remote))
    PROVE  Combined(base, local, remote, copy) = remote
<1> DEFINE plan == plan_reconciliation(base, local, remote)
           All == AllPaths(base, local, remote)
           result == Combined(base, local, remote, copy)
           planned(p) == PlannedEntry(base, local, remote, p)
<1>1. \A p \in PlannedPaths(base, local, remote) :
        /\ plan[p] = PlannedAction(base, local, remote, p)
        /\ PlannedAction(base, local, remote, p) \in {"Unchanged", "Download"}
    BY DEF requires_publication, plan_reconciliation, PlannedAction, reconcile_entry
<1>2. PlannedPaths(base, local, remote) = All
    BY <1>1, NoConflictRoot
<1>3. \A p \in All : PlannedEntry(base, local, remote, p) = get(remote, p)
    <2> SUFFICES ASSUME NEW p \in All PROVE planned(p) = get(remote, p)
        OBVIOUS
    <2>1. CASE plan[p] = "Download"
        BY <1>2, <2>1 DEF PlannedEntry
    <2>2. CASE plan[p] = "Unchanged"
        <3>1. planned(p) = get(local, p)
            BY <1>2, <2>2 DEF PlannedEntry
        <3>2. get(local, p) = get(remote, p)
            BY <1>1, <1>2, <2>2 DEF PlannedAction, reconcile_entry, entries_equal
        <3> QED
            BY <3>1, <3>2
    <2> QED
        BY <1>1, <1>2, <2>1, <2>2
<1>4. Conflicts(base, local, remote) = {}
    BY <1>1, <1>2 DEF Conflicts, plan_reconciliation
<1>5. DOMAIN CopiedEntries(base, local, remote, copy) = {}
    BY <1>4 DEF CopiedEntries
<1>6. result = [p \in KeptPaths(base, local, remote) |-> planned(p)]
    BY <1>5 DEF Combined
<1>7. KeptPaths(base, local, remote) = {p \in All : planned(p) # None}
    BY DEF KeptPaths
<1>8. \A p : get(result, p) = get(remote, p)
    <2> TAKE p
    <2> HIDE DEF result, planned
    <2>1. CASE p \in All
        BY <1>3, <1>6, <1>7, <2>1 DEF get, planned
    <2>2. CASE p \notin All
        BY <1>6, <1>7, <2>2 DEF get, AllPaths
    <2> QED
        BY <2>1, <2>2
<1>9. IsManifest(result)
    BY CombinedIsManifest
<1> QED
    BY <1>8, <1>9, ManifestExtensionality

-----------------------------------------------------------------------------
(* Paths and trees.                                                        *)

LEMMA PathLength ==
    ASSUME NEW p \in Path
    PROVE  Len(p) \in Nat \ {0} /\ p \in Seq(Component)
BY EmptySeq DEF Path

\* One path is below another when it goes on where the other ends.
LEMMA BelowByElements ==
    ASSUME NEW r \in Path, NEW p \in Path
    PROVE  Below(r, p) <=> Len(r) < Len(p) /\ \A i \in 1..Len(r) : p[i] = r[i]
<1>1. Len(r) \in Nat \ {0} /\ Len(p) \in Nat \ {0} /\ r \in Seq(Component) /\ p \in Seq(Component)
    BY PathLength
<1>2. CASE Len(r) < Len(p)
    <2>1. \A i \in 1..Len(r) : p[i] \in Component
        BY <1>1, <1>2, ElementOfSeq
    <2> DEFINE s == SubSeq(p, 1, Len(r))
    <2>2. /\ s \in Seq(Component) /\ Len(s) = Len(r)
          /\ \A i \in 1..Len(r) : s[i] = p[i]
        BY <1>1, <2>1, SubSeqProperties
    <2> HIDE DEF s
    <2>3. s = r <=> \A i \in 1..Len(r) : p[i] = r[i]
        BY <1>1, <2>2, SeqEqual
    <2> QED
        BY <1>2, <2>3 DEF Below, s
<1> QED
    BY <1>2 DEF Below

\* The ancestors of a path.
LEMMA PrefixIsAbove ==
    ASSUME NEW p \in Path, NEW n \in 1..(Len(p) - 1)
    PROVE  /\ SubSeq(p, 1, n) \in Path
           /\ Len(SubSeq(p, 1, n)) = n
           /\ \A i \in 1..n : SubSeq(p, 1, n)[i] = p[i]
           /\ Below(SubSeq(p, 1, n), p)
<1>1. Len(p) \in Nat \ {0} /\ p \in Seq(Component) /\ n \in Nat \ {0} /\ n < Len(p)
    BY PathLength
<1>2. \A i \in 1..n : p[i] \in Component
    BY <1>1, ElementOfSeq
<1>3. /\ SubSeq(p, 1, n) \in Seq(Component) /\ Len(SubSeq(p, 1, n)) = n
      /\ \A i \in 1..n : SubSeq(p, 1, n)[i] = p[i]
    BY <1>1, <1>2, SubSeqProperties
<1>4. SubSeq(p, 1, n) \in Path
    BY <1>1, <1>3 DEF Path
<1> QED
    BY <1>1, <1>3, <1>4 DEF Below

LEMMA BelowIsTransitive ==
    ASSUME NEW r \in Path, NEW p \in Path, NEW q \in Path, Below(r, p), Below(p, q)
    PROVE  Below(r, q)
<1>1. Len(r) \in Nat /\ Len(p) \in Nat /\ Len(q) \in Nat
    BY PathLength
<1>2. /\ Len(r) < Len(p) /\ \A i \in 1..Len(r) : p[i] = r[i]
      /\ Len(p) < Len(q) /\ \A i \in 1..Len(p) : q[i] = p[i]
    BY BelowByElements
<1>3. Len(r) < Len(q) /\ \A i \in 1..Len(r) : q[i] = r[i]
    BY <1>1, <1>2
<1> QED
    BY <1>3, BelowByElements

\* Two ancestors of one path are on one line.
LEMMA AncestorsCompare ==
    ASSUME NEW r \in Path, NEW p \in Path, NEW q \in Path, Below(r, q), Below(p, q)
    PROVE  r = p \/ Below(r, p) \/ Below(p, r)
<1>1. /\ Len(r) \in Nat /\ Len(p) \in Nat /\ Len(q) \in Nat
      /\ r \in Seq(Component) /\ p \in Seq(Component)
    BY PathLength
<1>2. /\ Len(r) < Len(q) /\ \A i \in 1..Len(r) : q[i] = r[i]
      /\ Len(p) < Len(q) /\ \A i \in 1..Len(p) : q[i] = p[i]
    BY BelowByElements
<1>3. CASE Len(r) < Len(p)
    BY <1>1, <1>2, <1>3, BelowByElements
<1>4. CASE Len(p) < Len(r)
    BY <1>1, <1>2, <1>4, BelowByElements
<1>5. CASE Len(p) = Len(r)
    <2>1. \A i \in 1..Len(r) : r[i] = p[i]
        BY <1>1, <1>2, <1>5
    <2> QED
        BY <1>1, <1>5, <2>1, SeqEqual
<1> QED
    BY <1>1, <1>3, <1>4, <1>5

\* A working tree: a manifest of finitely many paths in which every parent of a path
\* is a directory.
IsWorkingTree(m) ==
    IsManifest(m) /\ DOMAIN m \subseteq Path /\ IsFiniteSet(DOMAIN m) /\ IsTree(m)

\* What is above a path of a tree is a directory of that tree.
LEMMA AboveIsDirectory ==
    ASSUME NEW m, IsWorkingTree(m), NEW p \in Path, NEW q, get(m, q) # None, Below(p, q)
    PROVE  q \in DOMAIN m /\ p \in DOMAIN m /\ get(m, p) = Directory /\ m[p] = Directory
<1>1. q \in DOMAIN m /\ q \in Path
    BY DEF get, IsWorkingTree
<1>2. Len(p) \in 1..(Len(q) - 1) /\ p = SubSeq(q, 1, Len(p))
    BY <1>1, PathLength DEF Below
<1>3. get(m, p) = Directory
    BY <1>1, <1>2 DEF IsWorkingTree, IsTree
<1> QED
    BY <1>1, <1>3, ValueAssumption DEF get, Entry

\* The other way round: that is all a tree has to satisfy.
LEMMA TreeByAncestors ==
    ASSUME NEW m, DOMAIN m \subseteq Path,
           \A p, q \in Path : (q \in DOMAIN m /\ Below(p, q)) => get(m, p) = Directory
    PROVE  IsTree(m)
BY PrefixIsAbove DEF IsTree

-----------------------------------------------------------------------------
(* The plan of a directory and of what is below it.                        *)

\* Equal subtrees are equal everywhere below.
LEMMA EqualBelow ==
    ASSUME NEW m, IsWorkingTree(m), NEW n, IsWorkingTree(n), NEW p \in Path, NEW q \in Path,
           subtrees_equal(m, n, p), q = p \/ Below(p, q)
    PROVE  get(m, q) = get(n, q) /\ subtrees_equal(m, n, q)
<1>1. \A x \in Path : (x = p \/ Below(p, x)) => get(m, x) = get(n, x)
    BY DEF subtrees_equal, Subtree, entries_equal, get
<1>2. \A x \in DOMAIN m \cup DOMAIN n : (x = q \/ Below(q, x)) => x = p \/ Below(p, x)
    BY BelowIsTransitive DEF IsWorkingTree
<1>3. \A x \in DOMAIN m \cup DOMAIN n : x \in Path
    BY DEF IsWorkingTree
<1> QED
    BY <1>1, <1>2, <1>3 DEF subtrees_equal, Subtree, entries_equal

\* A directory that only the local side has goes when the remote side alone changed.
LEMMA LocalDirectoryGoes ==
    ASSUME NEW base, NEW local, NEW remote, NEW p, get(local, p) = Directory,
           PlannedEntry(base, local, remote, p) # Directory
    PROVE  /\ p \in PlannedPaths(base, local, remote)
           /\ subtrees_equal(base, local, p)
           /\ get(remote, p) # Directory
<1>1. p \in PlannedPaths(base, local, remote)
    BY DEF PlannedEntry
<1> DEFINE action == plan_reconciliation(base, local, remote)[p]
<1>2. action = PlannedAction(base, local, remote, p)
    BY <1>1 DEF plan_reconciliation
<1> HIDE DEF action
<1>3. action # "Merge"
    BY <1>2 DEF PlannedAction, reconcile_entry, IsFile
<1>4. action = "Download" /\ get(remote, p) # Directory
    BY <1>1, <1>3 DEF PlannedEntry, action
<1> QED
    BY <1>1, <1>2, <1>4 DEF PlannedAction, reconcile_entry, Structural

\* A directory that only the remote side has does not come when the local side changed.
LEMMA RemoteDirectoryStaysAway ==
    ASSUME NEW base, NEW local, NEW remote, NEW p \in PlannedPaths(base, local, remote),
           get(remote, p) = Directory, PlannedEntry(base, local, remote, p) # Directory
    PROVE  /\ get(local, p) # Directory
           /\ subtrees_equal(base, remote, p) \/ ConflictRoot(base, local, remote, p)
<1> DEFINE action == plan_reconciliation(base, local, remote)[p]
<1>1. action = PlannedAction(base, local, remote, p)
    BY DEF plan_reconciliation
<1> HIDE DEF action
<1>2. action # "Merge" /\ action # "Download"
    <2>1. action # "Merge"
        BY <1>1 DEF PlannedAction, reconcile_entry, IsFile
    <2>2. action # "Download"
        BY DEF PlannedEntry, action
    <2> QED BY <2>1, <2>2
<1>3. get(local, p) # Directory
    BY <1>2 DEF PlannedEntry, action
<1>4. Structural(local, remote, p) /\ ~subtrees_equal(base, local, p)
    BY <1>1, <1>2, <1>3 DEF PlannedAction, Structural
<1> QED
    BY <1>3, <1>4 DEF ConflictRoot

\* What is above a planned path is planned, and no conflict root.
LEMMA PlannedAbove ==
    ASSUME NEW base, IsWorkingTree(base), NEW local, IsWorkingTree(local),
           NEW remote, IsWorkingTree(remote),
           NEW q \in PlannedPaths(base, local, remote), NEW p \in Path, Below(p, q),
           p \in AllPaths(base, local, remote)
    PROVE  p \in PlannedPaths(base, local, remote) /\ ~ConflictRoot(base, local, remote, p)
<1>1. AllPaths(base, local, remote) \subseteq Path /\ q \in AllPaths(base, local, remote)
    BY DEF AllPaths, IsWorkingTree, PlannedPaths
<1> QED
    BY <1>1, BelowIsTransitive DEF PlannedPaths

\* A path of the result lies in a directory of the result.
LEMMA KeptInDirectory ==
    ASSUME NEW base, IsWorkingTree(base), NEW local, IsWorkingTree(local),
           NEW remote, IsWorkingTree(remote),
           NEW x \in KeptPaths(base, local, remote), NEW a \in Path, Below(a, x)
    PROVE  PlannedEntry(base, local, remote, a) = Directory
<1> DEFINE planned(p) == PlannedEntry(base, local, remote, p)
           Planned == PlannedPaths(base, local, remote)
           action == PlannedAction(base, local, remote, x)
<1>1. x \in Path /\ x \in AllPaths(base, local, remote) /\ planned(x) # None
    BY DEF KeptPaths, AllPaths, IsWorkingTree
<1>2. CASE x \notin Planned
    <2>1. PICK r \in AllPaths(base, local, remote) :
                Below(r, x) /\ ConflictRoot(base, local, remote, r)
        BY <1>1, <1>2 DEF PlannedPaths
    <2>2. r \in Path
        BY DEF AllPaths, IsWorkingTree
    <2>3. get(local, x) # None
        BY <1>1, <1>2 DEF PlannedEntry
    <2>4. get(local, a) = Directory /\ a \in AllPaths(base, local, remote)
        BY <2>3, AboveIsDirectory DEF AllPaths
    <2>5. CASE planned(a) # Directory
        <3>1. a \in Planned /\ subtrees_equal(base, local, a)
            BY <2>4, <2>5, LocalDirectoryGoes
        <3>2. ~Below(r, a)
            BY <2>1, <3>1 DEF PlannedPaths
        <3>3. r = a \/ Below(a, r)
            BY <1>1, <2>1, <2>2, <3>2, AncestorsCompare
        <3>4. subtrees_equal(base, local, r)
            BY <2>2, <3>1, <3>3, EqualBelow
        <3> QED BY <2>1, <3>4 DEF ConflictRoot
    <2> QED BY <2>5
<1>3. CASE x \in Planned
    <2>1. plan_reconciliation(base, local, remote)[x] = action
        BY <1>3 DEF plan_reconciliation
    <2>2. CASE action = "Download"
        <3>1. planned(x) = get(remote, x)
            BY <1>3, <2>1, <2>2 DEF PlannedEntry
        <3>2. get(remote, a) = Directory /\ a \in AllPaths(base, local, remote)
            BY <1>1, <3>1, AboveIsDirectory DEF AllPaths
        <3>3. a \in Planned /\ ~ConflictRoot(base, local, remote, a)
            BY <1>3, <3>2, PlannedAbove
        <3>4. CASE planned(a) # Directory
            <4>1. get(local, a) # Directory /\ subtrees_equal(base, remote, a)
                BY <3>2, <3>3, <3>4, RemoteDirectoryStaysAway
            <4>2. get(local, x) = None
                BY <4>1, AboveIsDirectory
            <4>3. get(base, x) = get(remote, x)
                BY <1>1, <4>1, EqualBelow
            <4>4. ~entries_equal(get(base, x), get(local, x))
                BY <1>1, <3>1, <4>2, <4>3 DEF entries_equal
            <4>5. ~subtrees_equal(base, local, x)
                BY <1>1, <4>4, EqualBelow DEF entries_equal
            <4> QED
                BY <2>2, <4>4, <4>5 DEF PlannedAction, reconcile_entry
        <3> QED BY <3>4
    <2>3. CASE action # "Download"
        <3>1. get(local, x) # None
            BY <1>1, <1>3, <2>1, <2>3, ValueAssumption DEF PlannedEntry, MergedText, IsFile
        <3>2. get(local, a) = Directory
            BY <3>1, AboveIsDirectory
        <3>3. CASE planned(a) # Directory
            <4>1. subtrees_equal(base, local, a) /\ get(remote, a) # Directory
                BY <3>2, <3>3, LocalDirectoryGoes
            <4>2. get(remote, x) = None
                BY <4>1, AboveIsDirectory
            <4>3. get(base, x) = get(local, x) /\ subtrees_equal(base, local, x)
                BY <1>1, <4>1, EqualBelow
            <4> QED
                BY <2>3, <3>1, <4>2, <4>3 DEF PlannedAction, reconcile_entry, entries_equal
        <3> QED BY <3>3
    <2> QED BY <2>2, <2>3
<1> QED
    BY <1>2, <1>3

\* So does the path of a conflict whose remote side there is something to copy of.
LEMMA ConflictInDirectory ==
    ASSUME NEW base, IsWorkingTree(base), NEW local, IsWorkingTree(local),
           NEW remote, IsWorkingTree(remote),
           NEW p \in Conflicts(base, local, remote), NEW q \in DOMAIN remote,
           q = p \/ Below(p, q), NEW a \in Path, Below(a, p)
    PROVE  PlannedEntry(base, local, remote, a) = Directory
<1> DEFINE action == PlannedAction(base, local, remote, p)
<1>1. /\ p \in PlannedPaths(base, local, remote) /\ p \in Path
      /\ action = "Conflict" \/ action = "Merge"
    BY DEF Conflicts, plan_reconciliation, PlannedPaths, AllPaths, IsWorkingTree
<1>2. Below(a, q) /\ q \in Path
    BY <1>1, BelowIsTransitive DEF IsWorkingTree
<1>3. get(remote, q) # None
    BY ValueAssumption DEF IsWorkingTree, IsManifest, get
<1>4. get(remote, a) = Directory /\ a \in AllPaths(base, local, remote)
    BY <1>2, <1>3, AboveIsDirectory DEF AllPaths
<1>5. /\ a \in PlannedPaths(base, local, remote)
      /\ ~ConflictRoot(base, local, remote, a)
    BY <1>1, <1>4, PlannedAbove
<1>6. CASE PlannedEntry(base, local, remote, a) # Directory
    <2>1. get(local, a) # Directory /\ subtrees_equal(base, remote, a)
        BY <1>4, <1>5, <1>6, RemoteDirectoryStaysAway
    <2>2. get(local, p) = None
        BY <2>1, AboveIsDirectory
    <2>3. get(base, p) = get(remote, p) /\ subtrees_equal(base, remote, p)
        BY <1>1, <2>1, EqualBelow
    <2> QED
        BY <1>1, <2>2, <2>3 DEF PlannedAction, reconcile_entry, entries_equal, IsFile
<1> QED BY <1>6

-----------------------------------------------------------------------------
(* Conflict copies.                                                        *)

\* c is a name for the copy of p: in the same directory.
IsCopyName(p, c) ==
    c \in Path /\ Len(c) = Len(p) /\ \A i \in 1..(Len(p) - 1) : c[i] = p[i]

\* z is x with an ending of suffix n.
HasEnding(z, x, n) ==
    /\ Len(z) = Len(x) + 2
    /\ \A i \in 1..Len(x) : z[i] = x[i]
    /\ z[Len(x) + 2] = n

LEMMA EndingIsUnique ==
    ASSUME NEW x \in Component, NEW y \in Component, NEW z, NEW n, NEW k,
           HasEnding(z, x, n), HasEnding(z, y, k)
    PROVE  x = y /\ n = k
<1>1. x \in Seq(Name \cup Nat) /\ y \in Seq(Name \cup Nat)
    BY DEF Component
<1>2. Len(x) \in Nat /\ Len(y) \in Nat
    BY <1>1
<1>3. Len(x) = Len(y)
    BY <1>2 DEF HasEnding
<1>4. \A i \in 1..Len(x) : x[i] = y[i]
    BY <1>3 DEF HasEnding
<1> QED
    BY <1>1, <1>3, <1>4, SeqEqual DEF HasEnding

LEMMA CopyPath ==
    ASSUME NEW p \in Path, NEW revision \in Nat, NEW n \in Nat
    PROVE  /\ IsCopyName(p, conflict_copy_path(p, revision, n))
           /\ HasEnding(conflict_copy_path(p, revision, n)[Len(p)], p[Len(p)], n)
           /\ p[Len(p)] \in Component
<1>1. Len(p) \in Nat \ {0} /\ p \in Seq(Component)
    BY PathLength
<1>2. p[Len(p)] \in Component /\ <<revision, n>> \in Component
    BY <1>1, ElementOfSeq DEF Component
<1> DEFINE x == p[Len(p)]
           s == <<revision, n>>
           last == x \o s
           c == [p EXCEPT ![Len(p)] = last]
<1>3. /\ last \in Component
      /\ Len(last) = Len(x) + Len(s)
      /\ \A i \in 1..(Len(x) + Len(s)) : last[i] = IF i <= Len(x) THEN x[i] ELSE s[i - Len(x)]
    BY <1>2, ConcatProperties DEF Component
<1>4. /\ c \in Seq(Component) /\ Len(c) = Len(p)
      /\ \A j \in 1..Len(p) : c[j] = IF j = Len(p) THEN last ELSE p[j]
    BY <1>1, <1>3, ExceptSeq
<1>5. conflict_copy_path(p, revision, n) = c
    BY DEF conflict_copy_path
<1>6. Len(s) = 2 /\ s[2] = n
    OBVIOUS
<1>7. Len(x) \in Nat
    BY <1>2 DEF Component
<1> HIDE DEF c, last, x, s
<1>8. HasEnding(last, x, n)
    <2>1. Len(last) = Len(x) + 2 /\ \A i \in 1..Len(x) : last[i] = x[i]
        BY <1>3, <1>6, <1>7
    <2>2. Len(x) + 2 \in 1..(Len(x) + Len(s)) /\ ~(Len(x) + 2 <= Len(x))
          /\ (Len(x) + 2) - Len(x) = 2
        BY <1>6, <1>7
    <2>3. last[Len(x) + 2] = s[2]
        BY <1>3, <2>2
    <2> QED BY <1>6, <2>1, <2>3 DEF HasEnding
<1>9. c \in Path /\ c[Len(p)] = last /\ \A i \in 1..(Len(p) - 1) : c[i] = p[i]
    BY <1>1, <1>4 DEF Path
<1> QED
    BY <1>2, <1>4, <1>5, <1>8, <1>9 DEF IsCopyName, x

\* Copy names of different paths differ.
LEMMA CopyNamesDiffer ==
    ASSUME NEW p \in Path, NEW q \in Path, NEW revision \in Nat, NEW n \in Nat, NEW k \in Nat,
           conflict_copy_path(p, revision, n) = conflict_copy_path(q, revision, k)
    PROVE  p = q /\ n = k
<1> DEFINE c == conflict_copy_path(p, revision, n)
<1>1. /\ Len(c) = Len(p) /\ \A i \in 1..(Len(p) - 1) : c[i] = p[i]
      /\ HasEnding(c[Len(p)], p[Len(p)], n) /\ p[Len(p)] \in Component
    BY CopyPath DEF IsCopyName
<1>2. /\ Len(c) = Len(q) /\ \A i \in 1..(Len(q) - 1) : c[i] = q[i]
      /\ HasEnding(c[Len(q)], q[Len(q)], k) /\ q[Len(q)] \in Component
    BY CopyPath DEF IsCopyName
<1> HIDE DEF c
<1>3. Len(p) = Len(q)
    BY <1>1, <1>2
<1>4. p[Len(p)] = q[Len(p)] /\ n = k
    BY <1>1, <1>2, <1>3, EndingIsUnique
<1>5. Len(p) \in Nat \ {0} /\ p \in Seq(Component) /\ q \in Seq(Component)
    BY PathLength
<1>6. \A i \in 1..Len(p) : p[i] = q[i]
    BY <1>1, <1>2, <1>3, <1>4, <1>5
<1> QED
    BY <1>3, <1>4, <1>5, <1>6, SeqEqual

\* One of more names than there are reserved paths is free.
LEMMA FreeCopyPath ==
    ASSUME NEW p \in Path, NEW revision \in Nat, NEW reserved, IsFiniteSet(reserved)
    PROVE  \E n \in Nat : /\ remote_copy_path(p, revision, reserved) =
                                conflict_copy_path(p, revision, n)
                          /\ conflict_copy_path(p, revision, n) \notin reserved
<1> DEFINE name(n) == conflict_copy_path(p, revision, n)
           free(n) == name(n) \notin reserved
           N == Cardinality(reserved)
           first(n) == free(n) /\ \A m \in 0..(n - 1) : ~free(m)
<1>1. N \in Nat
    BY FS_CardinalityType
<1>2. \E n \in 0..N : free(n)
    <2> SUFFICES ASSUME \A n \in 0..N : name(n) \in reserved PROVE FALSE
        OBVIOUS
    <2> DEFINE f == [n \in 0..N |-> name(n)]
    <2>1. f \in [0..N -> reserved]
        OBVIOUS
    <2>2. IsFiniteSet(0..N) /\ Cardinality(0..N) = N + 1
        BY <1>1, FS_Interval
    <2>3. \E x, y \in 0..N : x # y /\ f[x] = f[y]
        <3> HIDE DEF f
        <3>1. Cardinality(reserved) < Cardinality(0..N)
            BY <1>1, <2>2
        <3> QED BY <2>1, <2>2, <3>1, FS_PigeonHole
    <2> QED
        BY <1>1, <2>3, CopyNamesDiffer
<1>3. \E n \in 0..N : first(n)
    <2> DEFINE T == {n \in 0..N : free(n)}
    <2>1. T \in SUBSET Nat /\ T # {}
        BY <1>1, <1>2
    <2>2. PICK n \in T : \A m \in T : n <= m
        <3> HIDE DEF T
        <3> QED BY <2>1, LeastNumber
    <2> QED
        BY <1>1, <2>2
<1> DEFINE chosen == CHOOSE n \in 0..N : first(n)
<1>4. chosen \in 0..N /\ first(chosen)
    <2> HIDE DEF first
    <2> QED BY <1>3
<1>5. remote_copy_path(p, revision, reserved) = name(chosen)
    BY DEF remote_copy_path
<1> QED
    BY <1>1, <1>4, <1>5

\* The names of the copies of some conflicts: in their directories, longer than what they
\* are copies of, all different, and none of them taken.
FreshCopies(copy, conflicts, paths) ==
    /\ \A p \in conflicts : IsCopyName(p, copy[p]) /\ copy[p] \notin paths
    /\ \A p \in conflicts : Len(p[Len(p)]) < Len(copy[p][Len(p)])
    /\ \A p, q \in conflicts : copy[p] = copy[q] => p = q

LEMMA CopiesAreFresh ==
    ASSUME NEW conflicts \in SUBSET Path, NEW revision \in Nat, NEW reserved,
           IsFiniteSet(reserved), NEW paths \in SUBSET reserved,
           NEW copy, copy = [p \in conflicts |-> remote_copy_path(p, revision, reserved)]
    PROVE  FreshCopies(copy, conflicts, paths)
<1>1. \A p \in conflicts : \E n \in Nat : /\ copy[p] = conflict_copy_path(p, revision, n)
                                          /\ copy[p] \notin reserved
    BY FreeCopyPath
<1>2. \A p \in conflicts : IsCopyName(p, copy[p]) /\ copy[p] \notin paths
    BY <1>1, CopyPath
<1>3. ASSUME NEW p \in conflicts, NEW q \in conflicts, copy[p] = copy[q] PROVE p = q
    <2>1. PICK n \in Nat : copy[p] = conflict_copy_path(p, revision, n)
        BY <1>1
    <2>2. PICK k \in Nat : copy[q] = conflict_copy_path(q, revision, k)
        BY <1>1
    <2>3. p \in Path /\ q \in Path
        OBVIOUS
    <2>4. conflict_copy_path(p, revision, n) = conflict_copy_path(q, revision, k)
        BY <1>3, <2>1, <2>2
    <2> QED BY <2>3, <2>4, CopyNamesDiffer, Zenon
<1>4. ASSUME NEW p \in conflicts PROVE Len(p[Len(p)]) < Len(copy[p][Len(p)])
    <2>1. PICK n \in Nat : copy[p] = conflict_copy_path(p, revision, n)
        BY <1>1
    <2>2. HasEnding(copy[p][Len(p)], p[Len(p)], n) /\ p[Len(p)] \in Component
        BY <2>1, CopyPath
    <2>3. Len(p[Len(p)]) \in Nat
        BY <2>2 DEF Component
    <2> QED BY <2>2, <2>3 DEF HasEnding
<1> QED
    BY <1>2, <1>3, <1>4 DEF FreshCopies

\* q is p or below it.
Within(p, q) == q = p \/ Below(p, q)

LEMMA WithinByElements ==
    ASSUME NEW p \in Path, NEW q \in Path, Within(p, q)
    PROVE  /\ Len(p) \in Nat \ {0} /\ Len(q) \in Nat \ {0} /\ Len(p) <= Len(q)
           /\ \A i \in 1..Len(p) : q[i] = p[i]
<1>1. Len(p) \in Nat \ {0} /\ Len(q) \in Nat \ {0}
    BY PathLength
<1>2. CASE q = p
    BY <1>1, <1>2
<1>3. CASE Below(p, q)
    BY <1>1, <1>3, BelowByElements
<1> QED BY <1>2, <1>3 DEF Within

\* The copy of what is below a conflict has the components of the copy, then its own.
LEMMA CopyOfByElements ==
    ASSUME NEW p \in Path, NEW q \in Path, Within(p, q), NEW c \in Path, Len(c) = Len(p)
    PROVE  /\ CopyOf(p, q, c) \in Path
           /\ Len(CopyOf(p, q, c)) = Len(q)
           /\ \A i \in 1..Len(q) : CopyOf(p, q, c)[i] = IF i <= Len(p) THEN c[i] ELSE q[i]
<1>1. /\ Len(p) \in Nat \ {0} /\ Len(q) \in Nat \ {0} /\ Len(p) <= Len(q)
      /\ c \in Seq(Component) /\ q \in Seq(Component)
    BY WithinByElements, PathLength
<1> DEFINE s == SubSeq(q, Len(p) + 1, Len(q))
<1>2. \A i \in (Len(p) + 1)..Len(q) : q[i] \in Component
    BY <1>1, ElementOfSeq
<1>3. /\ s \in Seq(Component)
      /\ Len(s) = IF Len(p) + 1 <= Len(q) THEN Len(q) - (Len(p) + 1) + 1 ELSE 0
      /\ \A i \in 1..(Len(q) - (Len(p) + 1) + 1) : s[i] = q[(Len(p) + 1) + i - 1]
    BY <1>1, <1>2, SubSeqProperties
<1> HIDE DEF s
<1>4. Len(s) = Len(q) - Len(p) /\ \A i \in 1..(Len(q) - Len(p)) : s[i] = q[Len(p) + i]
    BY <1>1, <1>3
<1> DEFINE x == c \o s
<1>5. /\ x \in Seq(Component) /\ Len(x) = Len(c) + Len(s)
      /\ \A i \in 1..(Len(c) + Len(s)) : x[i] = IF i <= Len(c) THEN c[i] ELSE s[i - Len(c)]
    <2>1. c \in Seq(Component) /\ s \in Seq(Component)
        BY <1>1, <1>3
    <2> QED BY <2>1, ConcatProperties
<1>6. CopyOf(p, q, c) = x
    BY DEF CopyOf, s
<1> HIDE DEF x
<1>7. Len(x) = Len(q) /\ x \in Path
    BY <1>1, <1>4, <1>5 DEF Path
<1>8. \A i \in 1..Len(q) : x[i] = IF i <= Len(p) THEN c[i] ELSE q[i]
    BY <1>1, <1>4, <1>5
<1> QED
    BY <1>6, <1>7, <1>8

\* The parents of the paths of trees are there too.
LEMMA AllPathsUpwards ==
    ASSUME NEW base, IsWorkingTree(base), NEW local, IsWorkingTree(local),
           NEW remote, IsWorkingTree(remote),
           NEW x \in AllPaths(base, local, remote), NEW a \in Path, Within(a, x)
    PROVE  a \in AllPaths(base, local, remote) /\ x \in Path
<1>1. \A m : (IsWorkingTree(m) /\ x \in DOMAIN m) => get(m, x) # None
    BY ValueAssumption DEF IsWorkingTree, IsManifest, get
<1> QED
    BY <1>1, AboveIsDirectory DEF AllPaths, IsWorkingTree, Within

\* A set of paths with the parents of each.
IsUpwardClosed(paths) ==
    paths \subseteq Path /\ \A x \in paths : \A a \in Path : Within(a, x) => a \in paths

LEMMA AllPathsClosed ==
    ASSUME NEW base, IsWorkingTree(base), NEW local, IsWorkingTree(local),
           NEW remote, IsWorkingTree(remote)
    PROVE  IsUpwardClosed(AllPaths(base, local, remote))
<1>1. AllPaths(base, local, remote) \subseteq Path
    BY DEF AllPaths, IsWorkingTree
<1> QED
    BY <1>1, AllPathsUpwards DEF IsUpwardClosed

\* No copy is where something else is.
LEMMA CopiesAreElsewhere ==
    ASSUME NEW paths, IsUpwardClosed(paths), NEW p \in Path, NEW q \in Path, Within(p, q),
           NEW c, IsCopyName(p, c), c \notin paths
    PROVE  CopyOf(p, q, c) \notin paths
<1> DEFINE x == CopyOf(p, q, c)
<1>1. /\ x \in Path /\ Len(x) = Len(q)
      /\ \A i \in 1..Len(q) : x[i] = IF i <= Len(p) THEN c[i] ELSE q[i]
    BY CopyOfByElements DEF IsCopyName
<1>2. Len(p) \in Nat \ {0} /\ Len(q) \in Nat \ {0} /\ Len(p) <= Len(q)
    BY WithinByElements
<1>3. c \in Path /\ Len(c) = Len(p) /\ c \in Seq(Component) /\ x \in Seq(Component)
    BY <1>1, PathLength DEF IsCopyName
<1> HIDE DEF x
<1>4. \A i \in 1..Len(c) : x[i] = c[i]
    BY <1>1, <1>2, <1>3
<1>5. Within(c, x)
    <2>1. CASE Len(c) < Len(x)
        BY <1>1, <1>3, <1>4, <2>1, BelowByElements DEF Within
    <2>2. CASE Len(c) = Len(x)
        BY <1>3, <1>4, <2>2, SeqEqual DEF Within
    <2> QED BY <1>1, <1>2, <1>3, <2>1, <2>2
<1> QED
    BY <1>3, <1>5 DEF IsUpwardClosed, x

\* Nor is one copy where another is.
LEMMA CopiesAreDistinct ==
    ASSUME NEW paths, IsUpwardClosed(paths), NEW conflicts \in SUBSET paths, NEW copy,
           FreshCopies(copy, conflicts, paths),
           NEW p \in conflicts, NEW q \in Path, Within(p, q),
           NEW r \in conflicts, NEW s \in Path, Within(r, s),
           CopyOf(p, q, copy[p]) = CopyOf(r, s, copy[r])
    PROVE  p = r /\ q = s
<1> DEFINE x == CopyOf(p, q, copy[p])
<1>1. /\ p \in Path /\ r \in Path
      /\ IsCopyName(p, copy[p]) /\ copy[p] \notin paths
      /\ IsCopyName(r, copy[r]) /\ copy[r] \notin paths
    BY DEF FreshCopies, IsUpwardClosed
<1>2. /\ Len(x) = Len(q)
      /\ \A i \in 1..Len(q) : x[i] = IF i <= Len(p) THEN copy[p][i] ELSE q[i]
    BY <1>1, CopyOfByElements DEF IsCopyName
<1>3. /\ Len(x) = Len(s)
      /\ \A i \in 1..Len(s) : x[i] = IF i <= Len(r) THEN copy[r][i] ELSE s[i]
    BY <1>1, CopyOfByElements DEF IsCopyName
<1> HIDE DEF x
<1>4. /\ Len(p) \in Nat \ {0} /\ Len(q) \in Nat \ {0} /\ Len(p) <= Len(q)
      /\ Len(r) \in Nat \ {0} /\ Len(s) \in Nat \ {0} /\ Len(r) <= Len(s)
      /\ \A i \in 1..Len(p) : q[i] = p[i]
      /\ \A i \in 1..Len(r) : s[i] = r[i]
    BY <1>1, WithinByElements
<1>5. ASSUME NEW u \in Path, NEW v \in Path, NEW c, NEW e, IsCopyName(u, c), IsCopyName(v, e),
             Len(u) < Len(v), \A i \in 1..Len(u) : c[i] = e[i], v \in paths
      PROVE  c \in paths
    <2>1. Len(u) \in Nat \ {0} /\ Len(v) \in Nat \ {0} /\ Len(c) = Len(u) /\ c \in Path
        BY <1>5, PathLength DEF IsCopyName
    <2>2. \A i \in 1..Len(u) : v[i] = c[i]
        BY <1>5, <2>1 DEF IsCopyName
    <2>3. Below(c, v)
        BY <1>5, <2>1, <2>2, BelowByElements
    <2> QED BY <1>5, <2>1, <2>3 DEF IsUpwardClosed, Within
<1>6. Len(p) = Len(r)
    <2>1. CASE Len(p) < Len(r)
        <3>1. \A i \in 1..Len(p) : copy[p][i] = copy[r][i]
            BY <1>2, <1>3, <1>4, <2>1
        <3> QED BY <1>1, <1>5, <2>1, <3>1
    <2>2. CASE Len(r) < Len(p)
        <3>1. \A i \in 1..Len(r) : copy[r][i] = copy[p][i]
            BY <1>2, <1>3, <1>4, <2>2
        <3> QED BY <1>1, <1>5, <2>2, <3>1
    <2> QED BY <1>4, <2>1, <2>2
<1>7. copy[p] = copy[r]
    <2>1. /\ copy[p] \in Seq(Component) /\ copy[r] \in Seq(Component)
          /\ Len(copy[p]) = Len(p) /\ Len(copy[r]) = Len(p)
        BY <1>1, <1>6, PathLength DEF IsCopyName
    <2>2. \A i \in 1..Len(p) : copy[p][i] = copy[r][i]
        BY <1>2, <1>3, <1>4, <1>6
    <2> QED BY <2>1, <2>2, SeqEqual
<1>8. p = r
    BY <1>7 DEF FreshCopies
<1>9. q = s
    <2>1. q \in Seq(Component) /\ s \in Seq(Component) /\ Len(q) = Len(s)
        BY <1>2, <1>3, PathLength
    <2>2. \A i \in 1..Len(q) : q[i] = s[i]
        BY <1>2, <1>3, <1>4, <1>8
    <2> QED BY <2>1, <2>2, SeqEqual
<1> QED BY <1>8, <1>9

-----------------------------------------------------------------------------
(* What the result holds.                                                  *)

\* Every entry of the remote side of a conflict is at its copy, and nothing else is.
LEMMA CopiesHold ==
    ASSUME NEW base, IsWorkingTree(base), NEW local, IsWorkingTree(local),
           NEW remote, IsWorkingTree(remote), NEW copy,
           FreshCopies(copy, Conflicts(base, local, remote), AllPaths(base, local, remote))
    PROVE  /\ \A p \in Conflicts(base, local, remote) : \A q \in DOMAIN remote :
                Within(p, q) =>
                    /\ CopyOf(p, q, copy[p]) \in DOMAIN CopiedEntries(base, local, remote, copy)
                    /\ CopiedEntries(base, local, remote, copy)[CopyOf(p, q, copy[p])] = remote[q]
           /\ \A x \in DOMAIN CopiedEntries(base, local, remote, copy) :
                \E p \in Conflicts(base, local, remote) : \E q \in DOMAIN remote :
                    Within(p, q) /\ x = CopyOf(p, q, copy[p])
<1> DEFINE conflicts == Conflicts(base, local, remote)
           copies == CopiedEntries(base, local, remote, copy)
           moved == {m \in conflicts \X DOMAIN remote : m[1] = m[2] \/ Below(m[1], m[2])}
           target(m) == CopyOf(m[1], m[2], copy[m[1]])
           source(x) == CHOOSE m \in moved : target(m) = x
<1>1. copies = [x \in {target(m) : m \in moved} |-> remote[source(x)[2]]]
    BY DEF CopiedEntries
<1>2. \A m \in moved : m[1] \in conflicts /\ m[2] \in DOMAIN remote /\ Within(m[1], m[2])
    BY DEF Within
<1>3. \A p \in conflicts : \A q \in DOMAIN remote : Within(p, q) =>
        <<p, q>> \in moved /\ target(<<p, q>>) = CopyOf(p, q, copy[p])
    BY DEF Within
<1>4. conflicts \subseteq AllPaths(base, local, remote)
    BY DEF Conflicts, plan_reconciliation, PlannedPaths
<1>5. IsUpwardClosed(AllPaths(base, local, remote)) /\ DOMAIN remote \subseteq Path
    BY AllPathsClosed DEF IsWorkingTree
<1>6. \A x \in {target(m) : m \in moved} : source(x) \in moved /\ target(source(x)) = x
    OBVIOUS
<1>7. \A m \in moved : target(m) = CopyOf(m[1], m[2], copy[m[1]])
    OBVIOUS
<1> HIDE DEF moved, source, target, copies, conflicts
<1>8. ASSUME NEW p \in conflicts, NEW q \in DOMAIN remote, Within(p, q)
      PROVE  CopyOf(p, q, copy[p]) \in DOMAIN copies /\ copies[CopyOf(p, q, copy[p])] = remote[q]
    <2> DEFINE x == CopyOf(p, q, copy[p])
               m == source(x)
    <2>1. x \in {target(n) : n \in moved}
        BY <1>3, <1>8
    <2>2. m \in moved /\ target(m) = x
        BY <1>6, <2>1
    <2>3. /\ m[1] \in conflicts /\ m[2] \in DOMAIN remote /\ Within(m[1], m[2])
          /\ CopyOf(m[1], m[2], copy[m[1]]) = CopyOf(p, q, copy[p])
        BY <1>2, <1>7, <2>2
    <2>4. m[2] = q
        <3> HIDE DEF m, x
        <3>1. q \in Path /\ m[2] \in Path
            BY <1>5, <2>3
        <3>2. FreshCopies(copy, conflicts, AllPaths(base, local, remote))
            BY DEF conflicts
        <3> QED BY <1>4, <1>5, <1>8, <2>3, <3>1, <3>2, CopiesAreDistinct
    <2> QED
        BY <1>1, <2>1, <2>4
<1>9. ASSUME NEW x \in DOMAIN copies
      PROVE  \E p \in conflicts : \E q \in DOMAIN remote : Within(p, q) /\ x = CopyOf(p, q, copy[p])
    <2>1. source(x) \in moved /\ target(source(x)) = x
        BY <1>1, <1>6
    <2> QED
        BY <1>2, <1>7, <2>1
<1> QED
    BY <1>8, <1>9 DEF copies, conflicts

\* The topmost conflict root above a path that is left out of the plan is a conflict.
LEMMA RootIsConflict ==
    ASSUME NEW base, IsWorkingTree(base), NEW local, IsWorkingTree(local),
           NEW remote, IsWorkingTree(remote),
           NEW p \in AllPaths(base, local, remote), p \notin PlannedPaths(base, local, remote)
    PROVE  \E r \in Conflicts(base, local, remote) : Below(r, p)
<1> DEFINE All == AllPaths(base, local, remote)
           above(r) == Below(r, p) /\ ConflictRoot(base, local, remote, r)
           depths == {Len(r) : r \in {q \in All : above(q)}}
<1>1. All \subseteq Path
    BY DEF AllPaths, IsWorkingTree
<1>2. \E r \in All : above(r)
    BY DEF PlannedPaths
<1>3. depths \in SUBSET Nat /\ depths # {}
    BY <1>1, <1>2, PathLength
<1>4. PICK n \in depths : \A k \in depths : n <= k
    <2> HIDE DEF depths
    <2> QED BY <1>3, LeastNumber
<1>5. PICK r \in All : above(r) /\ Len(r) = n
    BY <1>4
<1>6. ASSUME NEW q \in All, Below(q, r), ConflictRoot(base, local, remote, q) PROVE FALSE
    <2>1. Below(q, p)
        BY <1>1, <1>5, <1>6, BelowIsTransitive
    <2>2. Len(q) \in depths
        BY <1>6, <2>1
    <2>3. Len(q) < Len(r) /\ Len(q) \in Nat /\ Len(r) \in Nat
        BY <1>1, <1>6, PathLength DEF Below
    <2> HIDE DEF depths
    <2> QED BY <1>4, <1>5, <2>2, <2>3
<1>7. r \in PlannedPaths(base, local, remote)
    BY <1>5, <1>6 DEF PlannedPaths
<1>8. PlannedAction(base, local, remote, r) = "Conflict"
    BY <1>5 DEF PlannedAction, ConflictRoot
<1>9. r \in Conflicts(base, local, remote)
    BY <1>7, <1>8 DEF Conflicts, plan_reconciliation
<1> QED BY <1>5, <1>9

\* The result at the paths of the three sides, and at the copies.
LEMMA ResultHolds ==
    ASSUME NEW base, IsWorkingTree(base), NEW local, IsWorkingTree(local),
           NEW remote, IsWorkingTree(remote), NEW copy,
           FreshCopies(copy, Conflicts(base, local, remote), AllPaths(base, local, remote)),
           NEW result, result = Combined(base, local, remote, copy)
    PROVE  /\ \A p \in AllPaths(base, local, remote) :
                get(result, p) = PlannedEntry(base, local, remote, p)
           /\ \A p \in Conflicts(base, local, remote) : \A q \in DOMAIN remote :
                Within(p, q) => /\ CopyOf(p, q, copy[p]) \in DOMAIN result
                                /\ result[CopyOf(p, q, copy[p])] = remote[q]
           /\ \A x \in DOMAIN result :
                \/ x \in KeptPaths(base, local, remote)
                \/ \E p \in Conflicts(base, local, remote) : \E q \in DOMAIN remote :
                        Within(p, q) /\ x = CopyOf(p, q, copy[p])
<1> DEFINE copies == CopiedEntries(base, local, remote, copy)
           kept == KeptPaths(base, local, remote)
           planned(p) == PlannedEntry(base, local, remote, p)
<1>1. result = [p \in kept \cup DOMAIN copies |->
                    IF p \in DOMAIN copies THEN copies[p] ELSE planned(p)]
    BY DEF Combined
<1>2. Conflicts(base, local, remote) \subseteq AllPaths(base, local, remote)
    BY DEF Conflicts, plan_reconciliation, PlannedPaths
<1>3. IsUpwardClosed(AllPaths(base, local, remote)) /\ DOMAIN remote \subseteq Path
    BY AllPathsClosed DEF IsWorkingTree
<1>4. \A p \in AllPaths(base, local, remote) : p \notin DOMAIN copies
    <2> SUFFICES ASSUME NEW x \in AllPaths(base, local, remote), x \in DOMAIN copies
                 PROVE  FALSE
        OBVIOUS
    <2>1. PICK p \in Conflicts(base, local, remote), q \in DOMAIN remote :
                Within(p, q) /\ x = CopyOf(p, q, copy[p])
        BY CopiesHold
    <2>2. p \in Path /\ q \in Path /\ IsCopyName(p, copy[p])
          /\ copy[p] \notin AllPaths(base, local, remote)
        BY <1>2, <1>3 DEF IsUpwardClosed, FreshCopies
    <2> QED
        BY <1>3, <2>1, <2>2, CopiesAreElsewhere
<1>5. ASSUME NEW p \in AllPaths(base, local, remote) PROVE get(result, p) = planned(p)
    <2>1. p \in kept <=> planned(p) # None
        BY DEF KeptPaths
    <2> HIDE DEF copies, kept, planned
    <2> QED BY <1>1, <1>4, <2>1 DEF get
<1>6. ASSUME NEW p \in Conflicts(base, local, remote), NEW q \in DOMAIN remote, Within(p, q)
      PROVE  /\ CopyOf(p, q, copy[p]) \in DOMAIN result
             /\ result[CopyOf(p, q, copy[p])] = remote[q]
    <2>1. /\ CopyOf(p, q, copy[p]) \in DOMAIN copies
          /\ copies[CopyOf(p, q, copy[p])] = remote[q]
        BY <1>6, CopiesHold
    <2> HIDE DEF copies, kept, planned
    <2> QED BY <1>1, <2>1
<1>7. ASSUME NEW x \in DOMAIN result, x \notin kept
      PROVE  \E p \in Conflicts(base, local, remote) : \E q \in DOMAIN remote :
                Within(p, q) /\ x = CopyOf(p, q, copy[p])
    <2>1. x \in DOMAIN copies
        BY <1>1, <1>7
    <2> QED BY <2>1, CopiesHold
<1> QED
    BY <1>5, <1>6, <1>7

\* The manifest to apply is a tree: whatever the two sides made of the base, nothing is
\* planned below a file or below nothing, and the copies are beside the conflicts.
THEOREM CombinedTree ==
    ASSUME NEW base, IsWorkingTree(base), NEW local, IsWorkingTree(local),
           NEW remote, IsWorkingTree(remote), NEW copy,
           FreshCopies(copy, Conflicts(base, local, remote), AllPaths(base, local, remote))
    PROVE  /\ DOMAIN Combined(base, local, remote, copy) \subseteq Path
           /\ IsTree(Combined(base, local, remote, copy))
<1> DEFINE result == Combined(base, local, remote, copy)
           conflicts == Conflicts(base, local, remote)
           All == AllPaths(base, local, remote)
<1>1. /\ \A p \in All : get(result, p) = PlannedEntry(base, local, remote, p)
      /\ \A p \in conflicts : \A q \in DOMAIN remote :
            Within(p, q) => /\ CopyOf(p, q, copy[p]) \in DOMAIN result
                            /\ result[CopyOf(p, q, copy[p])] = remote[q]
      /\ \A x \in DOMAIN result :
            \/ x \in KeptPaths(base, local, remote)
            \/ \E p \in conflicts : \E q \in DOMAIN remote :
                    Within(p, q) /\ x = CopyOf(p, q, copy[p])
    BY ResultHolds
<1>2. conflicts \subseteq All /\ IsUpwardClosed(All)
      /\ KeptPaths(base, local, remote) \subseteq All
    BY AllPathsClosed DEF Conflicts, plan_reconciliation, PlannedPaths, KeptPaths
<1>3. /\ All \subseteq Path
      /\ DOMAIN remote \subseteq All
      /\ \A p \in conflicts : IsCopyName(p, copy[p]) /\ p \in Path
    BY <1>2 DEF IsUpwardClosed, AllPaths, FreshCopies
<1> HIDE DEF result, conflicts, All
<1>4. DOMAIN result \subseteq Path
    <2> SUFFICES ASSUME NEW x \in DOMAIN result, x \notin KeptPaths(base, local, remote)
                 PROVE  x \in Path
        BY <1>2, <1>3
    <2>1. PICK p \in conflicts, q \in DOMAIN remote : Within(p, q) /\ x = CopyOf(p, q, copy[p])
        BY <1>1
    <2> QED
        BY <1>3, <2>1, CopyOfByElements DEF IsCopyName
<1>5. ASSUME NEW a \in Path, NEW x \in Path, x \in DOMAIN result, Below(a, x)
      PROVE  get(result, a) = Directory
    <2>1. CASE x \in KeptPaths(base, local, remote)
        <3>1. PlannedEntry(base, local, remote, a) = Directory
            BY <1>5, <2>1, KeptInDirectory
        <3>2. a \in All
            BY <1>2, <1>5, <2>1 DEF IsUpwardClosed, Within
        <3> QED BY <1>1, <3>1, <3>2
    <2>2. CASE x \notin KeptPaths(base, local, remote)
        <3>1. PICK p \in conflicts, q \in DOMAIN remote :
                    Within(p, q) /\ x = CopyOf(p, q, copy[p])
            BY <1>1, <1>5, <2>2
        <3>2. p \in Path /\ q \in Path /\ IsCopyName(p, copy[p])
            BY <1>3
        <3>3. /\ Len(x) = Len(q)
              /\ \A i \in 1..Len(q) : x[i] = IF i <= Len(p) THEN copy[p][i] ELSE q[i]
            BY <3>1, <3>2, CopyOfByElements DEF IsCopyName
        <3>4. /\ Len(p) \in Nat \ {0} /\ Len(q) \in Nat \ {0} /\ Len(a) \in Nat \ {0}
              /\ Len(p) <= Len(q)
              /\ \A i \in 1..Len(p) : q[i] = p[i]
            BY <3>1, <3>2, WithinByElements, PathLength
        <3>5. Len(a) < Len(q) /\ \A i \in 1..Len(a) : a[i] = x[i]
            BY <1>5, <3>3, BelowByElements
        <3>6. CASE Len(a) < Len(p)
            <4>1. \A i \in 1..Len(a) : a[i] = p[i]
                BY <3>2, <3>3, <3>4, <3>5, <3>6 DEF IsCopyName
            <4>2. Below(a, p)
                BY <3>2, <3>6, <4>1, BelowByElements
            <4>3. PlannedEntry(base, local, remote, a) = Directory
                BY <3>1, <4>2, ConflictInDirectory DEF Within, conflicts
            <4>4. a \in All
                BY <1>2, <4>2 DEF IsUpwardClosed, Within
            <4> QED BY <1>1, <4>3, <4>4
        <3>7. CASE Len(p) <= Len(a)
            <4> DEFINE b == SubSeq(q, 1, Len(a))
            <4>1. /\ b \in Path /\ Len(b) = Len(a) /\ \A i \in 1..Len(a) : b[i] = q[i]
                  /\ Below(b, q)
                BY <3>2, <3>4, <3>5, PrefixIsAbove
            <4> HIDE DEF b
            <4>2. get(remote, q) # None
                BY <3>1, ValueAssumption DEF IsWorkingTree, IsManifest, get
            <4>3. b \in DOMAIN remote /\ remote[b] = Directory
                BY <4>1, <4>2, AboveIsDirectory
            <4>4. Within(p, b)
                <5>1. \A i \in 1..Len(p) : b[i] = p[i]
                    BY <3>4, <3>7, <4>1
                <5>2. CASE Len(p) < Len(b)
                    BY <3>2, <4>1, <5>1, <5>2, BelowByElements DEF Within
                <5>3. CASE Len(p) = Len(b)
                    BY <3>2, <4>1, <5>1, <5>3, PathLength, SeqEqual DEF Within
                <5> QED BY <3>4, <3>7, <4>1, <5>2, <5>3
            <4>5. a = CopyOf(p, b, copy[p])
                <5> DEFINE y == CopyOf(p, b, copy[p])
                <5>1. /\ y \in Path /\ Len(y) = Len(a)
                      /\ \A i \in 1..Len(a) : y[i] = IF i <= Len(p) THEN copy[p][i] ELSE b[i]
                    BY <3>2, <4>1, <4>4, CopyOfByElements DEF IsCopyName
                <5> HIDE DEF y
                <5>2. \A i \in 1..Len(a) : y[i] = a[i]
                    BY <3>3, <3>4, <3>5, <4>1, <5>1
                <5>3. a \in Seq(Component) /\ y \in Seq(Component)
                    BY <5>1, PathLength
                <5>4. a = y
                    BY <5>1, <5>2, <5>3, SeqEqual
                <5> QED BY <5>4 DEF y
            <4> QED BY <1>1, <4>3, <4>4, <4>5 DEF get
        <3> QED BY <3>4, <3>6, <3>7
    <2> QED BY <2>1, <2>2
<1> QED
    BY <1>4, <1>5, TreeByAncestors DEF result

LEMMA AllPathsFinite ==
    ASSUME NEW base, IsWorkingTree(base), NEW local, IsWorkingTree(local),
           NEW remote, IsWorkingTree(remote)
    PROVE  IsFiniteSet(AllPaths(base, local, remote))
<1>1. IsFiniteSet(DOMAIN base \cup DOMAIN local)
    BY FS_Union DEF IsWorkingTree
<1> QED
    BY <1>1, FS_Union DEF IsWorkingTree, AllPaths

\* In all, a working tree: what apply_pulled_manifest is given can be made on a disk.
THEOREM CombinedIsWorkingTree ==
    ASSUME NEW base, IsWorkingTree(base), NEW local, IsWorkingTree(local),
           NEW remote, IsWorkingTree(remote), NEW copy,
           FreshCopies(copy, Conflicts(base, local, remote), AllPaths(base, local, remote))
    PROVE  IsWorkingTree(Combined(base, local, remote, copy))
<1> DEFINE result == Combined(base, local, remote, copy)
           kept == KeptPaths(base, local, remote)
           conflicts == Conflicts(base, local, remote)
           pairs == conflicts \X DOMAIN remote
           copied == {CopyOf(m[1], m[2], copy[m[1]]) : m \in pairs}
<1>1. IsFiniteSet(kept) /\ IsFiniteSet(conflicts)
    BY AllPathsFinite, FS_Subset
       DEF KeptPaths, Conflicts, plan_reconciliation, PlannedPaths
<1>2. IsFiniteSet(pairs)
    BY <1>1, FS_Product DEF IsWorkingTree
<1>3. IsFiniteSet(copied)
    <2> DEFINE f == [m \in pairs |-> CopyOf(m[1], m[2], copy[m[1]])]
    <2>1. copied = {f[m] : m \in pairs} /\ f \in [pairs -> copied]
        OBVIOUS
    <2> HIDE DEF f, copied, pairs
    <2>2. f \in Surjection(pairs, copied)
        BY <2>1 DEF Surjection
    <2> QED
        BY <1>2, <2>2, FS_Surjection
<1>4. DOMAIN result \subseteq kept \cup copied
    <2> SUFFICES ASSUME NEW x \in DOMAIN result, x \notin kept PROVE x \in copied
        OBVIOUS
    <2>1. PICK p \in conflicts, q \in DOMAIN remote : x = CopyOf(p, q, copy[p])
        BY ResultHolds
    <2>2. <<p, q>> \in pairs /\ <<p, q>>[1] = p /\ <<p, q>>[2] = q
        OBVIOUS
    <2> HIDE DEF pairs
    <2> QED BY <2>1, <2>2
<1>5. IsFiniteSet(DOMAIN result)
    <2> HIDE DEF kept, copied, result
    <2> QED BY <1>1, <1>3, <1>4, FS_Union, FS_Subset
<1>6. IsManifest(result)
    BY CombinedIsManifest DEF IsWorkingTree
<1> QED
    BY <1>5, <1>6, CombinedTree DEF IsWorkingTree

-----------------------------------------------------------------------------
(* Changes to a working tree.                                              *)

LEMMA EmptyIsWorkingTree == IsWorkingTree(EmptyManifest)
BY EmptyIsManifest, FS_EmptySet DEF IsWorkingTree, EmptyManifest, IsTree

LEMMA WriteIsFinite ==
    ASSUME NEW m, IsWorkingTree(m), NEW p \in Path, NEW e \in Entry
    PROVE  /\ IsManifest(WriteEntry(m, p, e))
           /\ DOMAIN WriteEntry(m, p, e) \subseteq Path
           /\ IsFiniteSet(DOMAIN WriteEntry(m, p, e))
<1>1. DOMAIN WriteEntry(m, p, e) \subseteq DOMAIN m \cup {p}
    BY DEF WriteEntry
<1>2. IsFiniteSet(DOMAIN m \cup {p})
    BY FS_AddElement DEF IsWorkingTree
<1>3. IsFiniteSet(DOMAIN WriteEntry(m, p, e))
    BY <1>1, <1>2, FS_Subset
<1> QED
    BY <1>1, <1>3, WriteIsManifest DEF IsWorkingTree

\* What is removed takes what is below it along.
LEMMA RemoveIsWorkingTree ==
    ASSUME NEW m, IsWorkingTree(m), NEW p \in Path
    PROVE  IsWorkingTree(RemovePath(m, p))
<1> DEFINE n == RemovePath(m, p)
<1>1. /\ DOMAIN n = {q \in DOMAIN m : ~Within(p, q)}
      /\ \A q \in DOMAIN n : n[q] = m[q]
    BY DEF RemovePath, Subtree, Within
<1>2. IsManifest(n)
    BY RemoveIsManifest DEF IsWorkingTree
<1> HIDE DEF n
<1>3. IsFiniteSet(DOMAIN n) /\ DOMAIN n \subseteq Path
    BY <1>1, FS_Subset DEF IsWorkingTree
<1>4. ASSUME NEW a \in Path, NEW q \in Path, q \in DOMAIN n, Below(a, q)
      PROVE  get(n, a) = Directory
    <2>1. q \in DOMAIN m /\ ~Within(p, q)
        BY <1>1, <1>4
    <2>2. get(m, q) # None
        BY <2>1, ValueAssumption DEF IsWorkingTree, IsManifest, get
    <2>3. a \in DOMAIN m /\ m[a] = Directory
        BY <1>4, <2>2, AboveIsDirectory
    <2>4. ~Within(p, a)
        BY <1>4, <2>1, BelowIsTransitive DEF Within
    <2> QED BY <1>1, <2>3, <2>4 DEF get
<1>5. IsTree(n)
    BY <1>3, <1>4, TreeByAncestors
<1> QED
    BY <1>2, <1>3, <1>5 DEF IsWorkingTree, n

-----------------------------------------------------------------------------
(* What becomes of the files of a manifest.  A file that is no longer at   *)
(* its path was given up, or is at the path of a conflict copy.  Copies of *)
(* copies have longer and longer names, so two sides that both moved a     *)
(* file in this way cannot each rely on the other one to have it.          *)

\* q is as deep as p, and its names are those of p or longer.
Longer(p, q) ==
    /\ Len(p) = Len(q)
    /\ \A i \in 1..Len(p) : Len(p[i]) <= Len(q[i])
    /\ \E i \in 1..Len(p) : Len(p[i]) < Len(q[i])

\* Every file of m is in files, at its path or at that of a copy, or was given up.
Kept(m, files, given) ==
    \A p \in DOMAIN m : (IsFile(m[p]) /\ get(files, p) # m[p]) =>
        m[p] \in given \/ \E q \in DOMAIN files : Longer(p, q) /\ files[q] = m[p]

\* The paths at which the two sides are merged, and what a merge leaves of them behind.
Merging(base, local, remote) ==
    {p \in PlannedPaths(base, local, remote) :
        /\ PlannedAction(base, local, remote, p) = "Merge"
        /\ MergedText(base, local, remote, p) # None}

Sides(local, remote, result, p) == {get(local, p), get(remote, p)} \ {get(result, p)}

MergedSides(base, local, remote, result) ==
    UNION {Sides(local, remote, result, p) : p \in Merging(base, local, remote)}

LEMMA NameLengths ==
    ASSUME NEW p \in Path
    PROVE  Len(p) \in Nat \ {0} /\ \A i \in 1..Len(p) : Len(p[i]) \in Nat
<1>1. Len(p) \in Nat \ {0} /\ p \in Seq(Component)
    BY PathLength
<1>2. \A i \in 1..Len(p) : p[i] \in Component
    BY <1>1, ElementOfSeq
<1> QED
    BY <1>1, <1>2 DEF Component

LEMMA LongerIsTransitive ==
    ASSUME NEW p \in Path, NEW q \in Path, NEW r \in Path, Longer(p, q), Longer(q, r)
    PROVE  Longer(p, r)
<1>1. /\ Len(p) \in Nat /\ Len(q) = Len(p) /\ Len(r) = Len(p)
      /\ \A i \in 1..Len(p) : Len(p[i]) \in Nat /\ Len(q[i]) \in Nat /\ Len(r[i]) \in Nat
    BY NameLengths DEF Longer
<1>2. \A i \in 1..Len(p) : Len(p[i]) <= Len(q[i]) /\ Len(q[i]) <= Len(r[i])
    BY <1>1 DEF Longer
<1>3. PICK i \in 1..Len(p) : Len(p[i]) < Len(q[i])
    BY DEF Longer
<1>4. Len(p[i]) < Len(r[i])
    BY <1>1, <1>2, <1>3
<1>5. \A j \in 1..Len(p) : Len(p[j]) <= Len(r[j])
    BY <1>1, <1>2
<1> QED
    BY <1>1, <1>4, <1>5 DEF Longer

LEMMA NotLonger == ASSUME NEW p \in Path PROVE ~Longer(p, p)
BY NameLengths DEF Longer

\* The order has maximal elements in every finite set.
LEMMA LongestPath ==
    ASSUME NEW X \in SUBSET Path, IsFiniteSet(X), X # {}
    PROVE  \E q \in X : \A r \in X : ~Longer(q, r)
<1> DEFINE up(q) == {r \in X : Longer(q, r)}
           size(q) == Cardinality(up(q))
           sizes == {size(q) : q \in X}
<1>1. \A q \in X : IsFiniteSet(up(q)) /\ size(q) \in Nat
    BY FS_Subset, FS_CardinalityType
<1>2. sizes \in SUBSET Nat /\ sizes # {}
    BY <1>1
<1>3. PICK n \in sizes : \A k \in sizes : n <= k
    <2> HIDE DEF sizes
    <2> QED BY <1>2, LeastNumber
<1>4. PICK q \in X : n = size(q)
    BY <1>3
<1>5. ASSUME NEW r \in X, Longer(q, r) PROVE FALSE
    <2>1. up(r) \in SUBSET up(q)
        BY <1>5, LongerIsTransitive
    <2>2. r \in up(q) /\ r \notin up(r)
        BY <1>5, NotLonger
    <2>3. size(r) <= size(q) /\ size(r) # size(q)
        <3> HIDE DEF up
        <3>1. IsFiniteSet(up(q))
            BY <1>1
        <3> QED BY <2>1, <2>2, <3>1, FS_Subset
    <2>4. size(q) <= size(r)
        BY <1>3, <1>4
    <2>5. size(q) \in Nat /\ size(r) \in Nat
        BY <1>1
    <2> HIDE DEF size, sizes
    <2> QED BY <2>3, <2>4, <2>5
<1> QED
    BY <1>5

LEMMA CopyIsLonger ==
    ASSUME NEW p \in Path, NEW q \in Path, Within(p, q), NEW c, IsCopyName(p, c),
           Len(p[Len(p)]) < Len(c[Len(p)])
    PROVE  Longer(q, CopyOf(p, q, c))
<1> DEFINE x == CopyOf(p, q, c)
<1>1. /\ Len(x) = Len(q)
      /\ \A i \in 1..Len(q) : x[i] = IF i <= Len(p) THEN c[i] ELSE q[i]
    BY CopyOfByElements DEF IsCopyName
<1>2. /\ Len(p) \in Nat \ {0} /\ Len(q) \in Nat \ {0} /\ Len(p) <= Len(q)
      /\ \A i \in 1..Len(p) : q[i] = p[i]
    BY WithinByElements
<1>3. \A i \in 1..(Len(p) - 1) : c[i] = p[i]
    BY DEF IsCopyName
<1>4. \A i \in 1..Len(q) : Len(q[i]) \in Nat
    BY NameLengths
<1> HIDE DEF x
<1>5. Len(q[Len(p)]) < Len(x[Len(p)])
    BY <1>1, <1>2
<1>6. ASSUME NEW i \in 1..Len(q), i # Len(p) PROVE x[i] = q[i]
    <2>1. CASE i <= Len(p)
        BY <1>1, <1>2, <1>3, <1>6, <2>1
    <2>2. CASE ~(i <= Len(p))
        BY <1>1, <2>2
    <2> QED BY <2>1, <2>2
<1>7. Len(x[Len(p)]) \in Nat
    <2>1. x \in Path
        BY CopyOfByElements DEF IsCopyName, x
    <2> QED BY <1>1, <1>2, <2>1, NameLengths
<1>8. \A i \in 1..Len(q) : Len(q[i]) <= Len(x[i])
    BY <1>2, <1>4, <1>5, <1>6, <1>7
<1> QED
    BY <1>1, <1>2, <1>5, <1>8 DEF Longer, x

-----------------------------------------------------------------------------
(* Keeping.                                                                *)

LEMMA KeptAtOnce == ASSUME NEW m, NEW given PROVE Kept(m, m, given)
BY DEF Kept, get

LEMMA EmptyIsKept == ASSUME NEW files, NEW given PROVE Kept(EmptyManifest, files, given)
BY DEF Kept, EmptyManifest

LEMMA KeptWithMore ==
    ASSUME NEW m, NEW files, NEW given, NEW more, Kept(m, files, given), given \subseteq more
    PROVE  Kept(m, files, more)
BY DEF Kept

LEMMA KeptContents ==
    ASSUME NEW m, NEW files, NEW given, Kept(m, files, given)
    PROVE  Contents(m) \subseteq Contents(files) \cup given
<1> SUFFICES ASSUME NEW p \in DOMAIN m, IsFile(m[p]), m[p] \notin given
             PROVE  m[p] \in Contents(files)
    BY DEF Contents
<1>1. CASE get(files, p) = m[p]
    BY <1>1 DEF Contents, get, IsFile
<1>2. CASE get(files, p) # m[p]
    BY <1>2 DEF Kept, Contents
<1> QED BY <1>1, <1>2

LEMMA KeptIsTransitive ==
    ASSUME NEW l, IsWorkingTree(l), NEW m, IsWorkingTree(m), NEW n, IsWorkingTree(n),
           NEW given, Kept(l, m, given), Kept(m, n, given)
    PROVE  Kept(l, n, given)
<1> SUFFICES ASSUME NEW p \in DOMAIN l, IsFile(l[p]), get(n, p) # l[p], l[p] \notin given
             PROVE  \E q \in DOMAIN n : Longer(p, q) /\ n[q] = l[p]
    BY DEF Kept
<1>1. CASE get(m, p) = l[p]
    <2>1. p \in DOMAIN m /\ m[p] = l[p]
        BY <1>1 DEF get, IsFile
    <2> QED BY <2>1 DEF Kept
<1>2. CASE get(m, p) # l[p]
    <2>1. PICK q \in DOMAIN m : Longer(p, q) /\ m[q] = l[p]
        BY <1>2 DEF Kept
    <2>2. CASE get(n, q) = m[q]
        BY <2>1, <2>2 DEF get, IsFile
    <2>3. CASE get(n, q) # m[q]
        <3>1. PICK r \in DOMAIN n : Longer(q, r) /\ n[r] = m[q]
            BY <2>1, <2>3 DEF Kept
        <3>2. p \in Path /\ q \in Path /\ r \in Path
            BY DEF IsWorkingTree
        <3> QED BY <2>1, <3>1, <3>2, LongerIsTransitive
    <2> QED BY <2>2, <2>3
<1> QED BY <1>1, <1>2

\* A change that gives up what it takes away keeps the rest.
LEMMA KeptAfterChange ==
    ASSUME NEW m, NEW files, NEW after, NEW given, NEW more, Kept(m, files, given),
           given \subseteq more,
           \A p \in DOMAIN files : (IsFile(files[p]) /\ get(after, p) # files[p]) => files[p] \in more
    PROVE  Kept(m, after, more)
<1> SUFFICES ASSUME NEW p \in DOMAIN m, IsFile(m[p]), get(after, p) # m[p], m[p] \notin more
             PROVE  \E q \in DOMAIN after : Longer(p, q) /\ after[q] = m[p]
    BY DEF Kept
<1>1. get(files, p) # m[p]
    BY DEF get, IsFile
<1>2. PICK q \in DOMAIN files : Longer(p, q) /\ files[q] = m[p]
    BY <1>1 DEF Kept
<1>3. get(after, q) = files[q]
    BY <1>2
<1> QED
    BY <1>2, <1>3 DEF get, IsFile

\* Where a file of either side is not in the result: it was merged, it is the base's and
\* the other side's change won, or it was copied.
LEMMA WhereChanged ==
    ASSUME NEW base, IsWorkingTree(base), NEW local, IsWorkingTree(local),
           NEW remote, IsWorkingTree(remote), NEW copy,
           FreshCopies(copy, Conflicts(base, local, remote), AllPaths(base, local, remote)),
           NEW result, result = Combined(base, local, remote, copy)
    PROVE  /\ \A p \in DOMAIN local : get(result, p) # local[p] =>
                \/ p \in Merging(base, local, remote)
                \/ get(base, p) = local[p] /\ get(remote, p) # local[p]
           /\ \A p \in DOMAIN remote : get(result, p) # remote[p] =>
                \/ p \in Merging(base, local, remote)
                \/ get(base, p) = remote[p] /\ get(local, p) # remote[p]
                \/ \E q \in DOMAIN result : Longer(p, q) /\ result[q] = remote[p]
<1> DEFINE All == AllPaths(base, local, remote)
           Planned == PlannedPaths(base, local, remote)
           action(p) == PlannedAction(base, local, remote, p)
           conflicts == Conflicts(base, local, remote)
<1>1. /\ \A p \in All : get(result, p) = PlannedEntry(base, local, remote, p)
      /\ \A q \in conflicts : \A p \in DOMAIN remote : Within(q, p) =>
            /\ CopyOf(q, p, copy[q]) \in DOMAIN result
            /\ result[CopyOf(q, p, copy[q])] = remote[p]
    BY ResultHolds
<1>2. /\ \A p \in Planned : plan_reconciliation(base, local, remote)[p] = action(p) /\ p \in All
      /\ \A p \in Merging(base, local, remote) : p \in Planned
    BY DEF plan_reconciliation, PlannedPaths, Merging
<1>3. conflicts \subseteq Path /\ DOMAIN remote \subseteq Path
    BY DEF Conflicts, plan_reconciliation, PlannedPaths, AllPaths, IsWorkingTree
<1>4. ASSUME NEW p \in DOMAIN remote, NEW r \in conflicts, Within(r, p)
      PROVE  \E q \in DOMAIN result : Longer(p, q) /\ result[q] = remote[p]
    <2>1. Longer(p, CopyOf(r, p, copy[r]))
        BY <1>3, <1>4, CopyIsLonger DEF FreshCopies
    <2> QED BY <1>1, <1>4, <2>1
<1>5. ASSUME NEW p \in DOMAIN local, get(result, p) # local[p], p \notin Merging(base, local, remote)
      PROVE  get(base, p) = local[p] /\ get(remote, p) # local[p]
    <2>1. p \in All /\ get(local, p) = local[p]
        BY DEF AllPaths, get
    <2>2. p \in Planned /\ action(p) = "Download" /\ get(result, p) = get(remote, p)
        BY <1>1, <1>2, <1>5, <2>1 DEF PlannedEntry, Merging
    <2>3. get(base, p) = get(local, p)
        BY <2>1, <2>2
           DEF PlannedAction, reconcile_entry, subtrees_equal, Subtree, entries_equal
    <2> QED BY <1>5, <2>1, <2>2, <2>3
<1>6. ASSUME NEW p \in DOMAIN remote, get(result, p) # remote[p], p \notin Merging(base, local, remote),
             ~\E q \in DOMAIN result : Longer(p, q) /\ result[q] = remote[p]
      PROVE  get(base, p) = remote[p] /\ get(local, p) # remote[p]
    <2>1. p \in All /\ get(remote, p) = remote[p]
        BY DEF AllPaths, get
    <2>2. p \in Planned
        BY <1>4, <1>6, <2>1, RootIsConflict DEF Within
    <2>3. p \notin conflicts
        BY <1>4, <1>6 DEF Within
    <2>4. action(p) # "Conflict" /\ ~(action(p) = "Merge" /\ MergedText(base, local, remote, p) = None)
        BY <2>2, <2>3 DEF Conflicts, plan_reconciliation
    <2>5. action(p) # "Merge"
        BY <1>6, <2>2, <2>4 DEF Merging
    <2>6. action(p) # "Download" /\ get(result, p) = get(local, p)
        BY <1>1, <1>2, <1>6, <2>1, <2>2, <2>5 DEF PlannedEntry
    <2>7. action(p) # "Unchanged"
        BY <1>6, <2>1, <2>6 DEF PlannedAction, reconcile_entry, entries_equal
    <2>8. get(base, p) = get(remote, p)
        BY <2>1, <2>4, <2>5, <2>6, <2>7
           DEF PlannedAction, reconcile_entry, subtrees_equal, Subtree, entries_equal
    <2> QED BY <1>6, <2>1, <2>6, <2>8
<1> QED BY <1>5, <1>6

\* What both sides kept of the base, and what each of them has, a reconciliation keeps.
THEOREM CombinedKeeps ==
    ASSUME NEW base, IsWorkingTree(base), NEW local, IsWorkingTree(local),
           NEW remote, IsWorkingTree(remote), NEW copy,
           FreshCopies(copy, Conflicts(base, local, remote), AllPaths(base, local, remote)),
           NEW result, result = Combined(base, local, remote, copy),
           NEW given, Kept(base, local, given), Kept(base, remote, given)
    PROVE  /\ Kept(remote, result, given \cup MergedSides(base, local, remote, result))
           /\ \A p \in DOMAIN local : (IsFile(local[p]) /\ get(result, p) # local[p]) =>
                local[p] \in given \cup MergedSides(base, local, remote, result)
                                   \cup Contents(remote)
<1> DEFINE more == given \cup MergedSides(base, local, remote, result)
<1>1. /\ \A p \in DOMAIN local : get(result, p) # local[p] =>
                \/ p \in Merging(base, local, remote)
                \/ get(base, p) = local[p] /\ get(remote, p) # local[p]
      /\ \A p \in DOMAIN remote : get(result, p) # remote[p] =>
                \/ p \in Merging(base, local, remote)
                \/ get(base, p) = remote[p] /\ get(local, p) # remote[p]
                \/ \E q \in DOMAIN result : Longer(p, q) /\ result[q] = remote[p]
    BY WhereChanged
<1>2. \A p \in Merging(base, local, remote) :
        Sides(local, remote, result, p) \subseteq more
    BY DEF MergedSides
<1>3. ASSUME NEW p \in Merging(base, local, remote), NEW x, x # get(result, p),
             x = get(local, p) \/ x = get(remote, p)
      PROVE  x \in more
    BY <1>2, <1>3 DEF Sides
<1>4. ASSUME NEW x, IsFile(x), x \notin given, NEW p, get(base, p) = x
      PROVE  /\ get(local, p) # x => \E q \in DOMAIN local : Longer(p, q) /\ local[q] = x
             /\ get(remote, p) # x => \E q \in DOMAIN remote : Longer(p, q) /\ remote[q] = x
    <2>1. p \in DOMAIN base /\ base[p] = x
        BY <1>4 DEF get, IsFile
    <2> QED BY <1>4, <2>1 DEF Kept
<1>5. /\ DOMAIN local \subseteq Path /\ DOMAIN remote \subseteq Path /\ DOMAIN result \subseteq Path
      /\ IsFiniteSet(DOMAIN local \cup DOMAIN remote)
    BY FS_Union, CombinedTree DEF IsWorkingTree
<1> HIDE DEF more
<1>6. ASSUME NEW p \in DOMAIN remote, IsFile(remote[p]), get(result, p) # remote[p],
             remote[p] \notin more, ~\E q \in DOMAIN result : Longer(p, q) /\ result[q] = remote[p]
      PROVE  FALSE
    <2> DEFINE x == remote[p]
               X == {q \in DOMAIN local \cup DOMAIN remote :
                        /\ q = p \/ Longer(p, q)
                        /\ get(local, q) = x \/ get(remote, q) = x}
    <2>1. x \notin given
        BY <1>6 DEF more
    <2>2. p \in X
        BY DEF get
    <2>3. X \in SUBSET Path /\ IsFiniteSet(X)
        BY <1>5, FS_Subset
    <2>4. PICK q \in X : \A r \in X : ~Longer(q, r)
        <3> HIDE DEF X
        <3> QED BY <2>2, <2>3, LongestPath
    <2>5. ASSUME NEW r \in Path, Longer(q, r) PROVE Longer(p, r)
        BY <1>5, <2>3, <2>5, LongerIsTransitive
    <2>6. ASSUME NEW r \in DOMAIN local \cup DOMAIN remote, Longer(q, r),
                 get(local, r) = x \/ get(remote, r) = x
          PROVE  FALSE
        BY <1>5, <2>4, <2>5, <2>6
    <2>7. get(result, q) # x
        BY <1>6 DEF get, IsFile
    <2>8. q \notin Merging(base, local, remote)
        BY <1>3, <1>6, <2>7
    <2>9. CASE get(remote, q) = x
        <3>1. q \in DOMAIN remote /\ remote[q] = x
            BY <1>6, <2>9 DEF get, IsFile
        <3>2. ~\E r \in DOMAIN result : Longer(q, r) /\ result[r] = x
            BY <1>5, <1>6, <2>5
        <3>3. get(base, q) = x /\ get(local, q) # x
            BY <1>1, <2>7, <2>8, <3>1, <3>2
        <3>4. PICK r \in DOMAIN local : Longer(q, r) /\ local[r] = x
            BY <1>4, <1>6, <2>1, <3>3
        <3> QED BY <2>6, <3>4 DEF get
    <2>10. CASE get(remote, q) # x
        <3>1. q \in DOMAIN local /\ local[q] = x
            BY <1>6, <2>10 DEF get, IsFile
        <3>2. get(base, q) = x
            BY <1>1, <2>7, <2>8, <3>1
        <3>3. PICK r \in DOMAIN remote : Longer(q, r) /\ remote[r] = x
            BY <1>4, <1>6, <2>1, <2>10, <3>2
        <3> QED BY <2>6, <3>3 DEF get
    <2> QED BY <2>9, <2>10
<1>7. ASSUME NEW p \in DOMAIN local, IsFile(local[p]), get(result, p) # local[p], local[p] \notin more
      PROVE  local[p] \in Contents(remote)
    <2>1. p \notin Merging(base, local, remote)
        BY <1>3, <1>7 DEF get
    <2>2. get(base, p) = local[p] /\ get(remote, p) # local[p] /\ local[p] \notin given
        BY <1>1, <1>7, <2>1 DEF more
    <2>3. PICK q \in DOMAIN remote : remote[q] = local[p]
        BY <1>4, <1>7, <2>2
    <2> QED BY <1>7, <2>3 DEF Contents
<1> QED
    BY <1>6, <1>7 DEF Kept, more
=============================================================================
