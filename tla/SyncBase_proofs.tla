--------------------------- MODULE SyncBase_proofs ---------------------------
(***************************************************************************)
(* Safety of SyncWorkflow for any number of devices, any files and         *)
(* directories, and any number of edits, interruptions and timeouts, as    *)
(* long as nobody edits the files while they are being applied: the saved  *)
(* base is what was published (BaseIsPublished), what users write is not   *)
(* lost (EditsPreserved, NoLostUpdate), and the base can be planned with   *)
(* (BaseIsCached).  Each part states what else it assumes, and why it is   *)
(* false without that; the run late_edit shows it for the edits.           *)
(***************************************************************************)
EXTENDS SyncWorkflow_proofs

\* Abbreviations that the proofs always look through.
USE DEF save_sync_state, cache_blobs

-----------------------------------------------------------------------------
(* The inductive invariant.  The base that is saved at the end is a scan   *)
(* or a staged manifest, never the published one itself.  That the two are *)
(* equal needs the whole way they came: the files are a tree at any time,  *)
(* so that every directory that has to go can go and every file has a      *)
(* place to be written to; what is not on the list of things to do is      *)
(* already as the plan wants it; and what a plan without a publication     *)
(* wants is the head it was made for.                                      *)

\* A record names a path in the same directory, and there are finitely many.
RecordsInv(records) ==
    /\ DOMAIN records \subseteq Path /\ IsFiniteSet(DOMAIN records)
    /\ \A p \in DOMAIN records : IsCopyName(p, records[p].copy)

\* ManifestAt, of a given history.
Revision(h, r) == IF r = 0 THEN EmptyManifest ELSE h[r]

\* The base and the revision of a saved state belong together.
SavedInv(h, s) ==
    /\ s.base # None => s.rev \in 0..Len(h) /\ s.base = Revision(h, s.rev)
    /\ RecordsInv(s.conflicts)

\* What a sync, or a discard, is about to put in place.
GoalInv(h, m) ==
    IF m.mode = "DiscardLocal" THEN m.combined = Revision(h, m.head)
    ELSE \/ requires_publication(
                plan_reconciliation(Base(m.state), m.local, Revision(h, m.head)))
         \/ m.combined = Revision(h, m.head)

\* What is not on the list of things to do is in place.
ApplyInv(files, todo, combined) ==
    /\ todo \subseteq Path
    /\ \A p \in Path : p \notin todo => get(files, p) = get(combined, p)

TreesInv(h, files, manifest, s, m) ==
    /\ IsWorkingTree(files) /\ IsWorkingTree(manifest)
    /\ IsWorkingTree(m.local) /\ IsWorkingTree(m.combined)
    /\ SavedInv(h, s) /\ SavedInv(h, m.state)

ProgressInv(h, files, manifest, s, label, m) ==
    /\ label \in {"stage", "combine"} => m.mode = "Reconcile"
    /\ label = "unchanged" => m.local = Revision(h, m.head)
    /\ label \in {"check", "walk", "apply", "restage"} => GoalInv(h, m)
    /\ label = "apply" => ApplyInv(files, m.todo, m.combined)
    /\ label = "restage" => files = m.combined
    /\ label = "finish" => m.synced \in 0..Len(h) /\ manifest = Revision(h, m.synced)
    /\ label = "discarded" => manifest = Revision(h, m.head)
    /\ label = "rename" => m.todo \subseteq DOMAIN s.conflicts

PublishedInv ==
    /\ \A i \in 1..Len(history) : IsWorkingTree(history[i])
    /\ \A u \in late : IsWorkingTree(u.manifest)

BaseInv(d) ==
    /\ TreesInv(history, tree[d], staged[d], st[d], mem[d])
    /\ ProgressInv(history, tree[d], staged[d], st[d], pc[d], mem[d])

BInv == IInv /\ PublishedInv /\ \A d \in Device : BaseInv(d)

-----------------------------------------------------------------------------
(* Files.                                                                  *)

\* What is below a path is not above it.
LEMMA NotBothBelow ==
    ASSUME NEW p \in Path, NEW q \in Path, Below(p, q)
    PROVE  p # q /\ ~Below(q, p)
BY PathLength DEF Below

\* A file or a directory that is written into a directory leaves a tree.
LEMMA WriteIsWorkingTree ==
    ASSUME NEW m, IsWorkingTree(m), NEW p \in Path, NEW e \in Entry,
           \A a \in Path : Below(a, p) => get(m, a) = Directory
    PROVE  IsWorkingTree(WriteEntry(m, p, e))
<1> DEFINE gone == IF e = Directory THEN {} ELSE Subtree(p, DOMAIN m)
           n == WriteEntry(m, p, e)
<1>1. /\ DOMAIN n = (DOMAIN m \ gone) \cup {p}
      /\ \A q : get(n, q) = IF q = p THEN e ELSE IF q \in gone THEN None ELSE get(m, q)
    BY DEF WriteEntry, get
<1>2. IsManifest(n) /\ DOMAIN n \subseteq Path /\ IsFiniteSet(DOMAIN n)
    BY WriteIsFinite
<1>3. ASSUME NEW a \in Path, NEW q \in Path, q \in DOMAIN n, Below(a, q)
      PROVE  get(n, a) = Directory
    <2>1. a # q /\ ~Below(q, a)
        BY <1>3, NotBothBelow
    <2>2. CASE q = p
        <3>1. get(m, a) = Directory /\ a # p /\ a \notin gone
            BY <1>3, <2>1, <2>2 DEF Subtree
        <3> QED
            BY <1>1, <3>1
    <2>3. CASE q # p
        <3>1. q \in DOMAIN m /\ q \notin gone
            BY <1>1, <1>3, <2>3
        <3>2. get(m, q) # None
            BY <3>1, ValueAssumption DEF get, IsWorkingTree, IsManifest
        <3>3. a \in DOMAIN m /\ get(m, a) = Directory
            BY <1>3, <3>2, AboveIsDirectory
        <3>4. CASE a = p
            BY <1>1, <1>3, <3>1, <3>4 DEF Subtree
        <3>5. CASE a # p
            <4>1. a \notin gone
                BY <1>3, <3>1, <3>5, BelowIsTransitive DEF Subtree
            <4> QED
                BY <1>1, <3>3, <3>5, <4>1
        <3> QED
            BY <3>4, <3>5
    <2> QED
        BY <2>2, <2>3
<1> HIDE DEF n
<1>4. IsTree(n)
    BY <1>2, <1>3, TreeByAncestors
<1> QED
    BY <1>2, <1>4 DEF IsWorkingTree, n

\* Below a copy, and with the copy's name replaced, paths stay apart.
LEMMA CopyOfIsInjective ==
    ASSUME NEW from \in Path, NEW to \in Path, Len(to) = Len(from),
           NEW q \in Path, Within(from, q), NEW r \in Path, Within(from, r),
           CopyOf(from, q, to) = CopyOf(from, r, to)
    PROVE  q = r
<1>1. /\ Len(q) = Len(r)
      /\ \A i \in 1..Len(q) : i > Len(from) => q[i] = r[i]
    <2>1. /\ Len(CopyOf(from, q, to)) = Len(q)
          /\ \A i \in 1..Len(q) :
                CopyOf(from, q, to)[i] = IF i <= Len(from) THEN to[i] ELSE q[i]
        BY CopyOfByElements
    <2>2. /\ Len(CopyOf(from, r, to)) = Len(r)
          /\ \A i \in 1..Len(r) :
                CopyOf(from, r, to)[i] = IF i <= Len(from) THEN to[i] ELSE r[i]
        BY CopyOfByElements
    <2>3. Len(from) \in Nat
        BY PathLength
    <2> QED
        BY <2>1, <2>2, <2>3
<1>2. /\ Len(from) \in Nat /\ Len(q) \in Nat /\ q \in Seq(Component) /\ r \in Seq(Component)
      /\ \A i \in 1..Len(from) : q[i] = from[i] /\ r[i] = from[i]
    BY WithinByElements, PathLength
<1>3. \A i \in 1..Len(q) : q[i] = r[i]
    BY <1>1, <1>2
<1> QED
    BY <1>1, <1>2, <1>3

\* Paths are compared component by component.
LEMMA SamePath ==
    ASSUME NEW p \in Path, NEW q \in Path, Len(p) = Len(q), \A i \in 1..Len(p) : p[i] = q[i]
    PROVE  p = q
BY PathLength, SeqEqual

LEMMA WithinFromElements ==
    ASSUME NEW p \in Path, NEW q \in Path, Len(p) <= Len(q), \A i \in 1..Len(p) : q[i] = p[i]
    PROVE  Within(p, q)
<1>1. CASE Len(p) = Len(q)
    BY <1>1, SamePath DEF Within
<1>2. CASE Len(p) # Len(q)
    BY <1>2, BelowByElements, PathLength DEF Within
<1> QED
    BY <1>1, <1>2

\* The values of a function on a finite set are finitely many.
LEMMA FiniteRange ==
    ASSUME NEW S, IsFiniteSet(S), NEW f, f = [x \in S |-> f[x]]
    PROVE  IsFiniteSet({f[x] : x \in S})
<1> DEFINE T == {f[x] : x \in S}
<1>1. f \in [S -> T]
    OBVIOUS
<1>2. \A t \in T : \E x \in S : f[x] = t
    OBVIOUS
<1> HIDE DEF T
<1>3. f \in Surjection(S, T)
    BY <1>1, <1>2 DEF Surjection
<1>4. IsFiniteSet(T)
    BY <1>3, FS_Surjection
<1> QED
    BY <1>4 DEF T

\* Renaming a copy to the name it was made for leaves a tree: both are in the same
\* directory, and fs::rename refuses a directory with something in it.
LEMMA RenamedIsWorkingTree ==
    ASSUME NEW m, IsWorkingTree(m), NEW from, NEW to \in Path, IsCopyName(to, from),
           CanRename(m, from, to)
    PROVE  IsWorkingTree(Renamed(m, from, to))
<1> DEFINE moved == Subtree(from, DOMAIN m)
           target == {CopyOf(from, q, to) : q \in moved}
           origin(x) == CHOOSE q \in moved : x = CopyOf(from, q, to)
           n == Renamed(m, from, to)
<1>1. /\ DOMAIN n = (DOMAIN m \ moved) \cup target
      /\ \A x \in DOMAIN n : n[x] = IF x \in target THEN m[origin(x)] ELSE m[x]
    BY DEF Renamed
<1>2. /\ DOMAIN m \subseteq Path /\ IsFiniteSet(DOMAIN m)
      /\ from \in Path /\ Len(from) = Len(to) /\ Len(from) \in Nat \ {0}
      /\ \A i \in 1..(Len(to) - 1) : from[i] = to[i]
    BY PathLength DEF IsWorkingTree, IsCopyName
<1>3. \A q \in moved : q \in DOMAIN m /\ q \in Path /\ Within(from, q)
    BY <1>2 DEF Subtree, Within
<1>4. \A q \in moved : CopyOf(from, q, to) \in Path /\ Len(CopyOf(from, q, to)) = Len(q)
    BY <1>2, <1>3, CopyOfByElements
<1>5. DOMAIN n \subseteq Path /\ IsFiniteSet(DOMAIN n)
    <2>1. IsFiniteSet(moved) /\ IsFiniteSet(DOMAIN m \ moved)
        BY <1>2, FS_Subset DEF Subtree
    <2>2. IsFiniteSet(target)
        <3> DEFINE move == [q \in moved |-> CopyOf(from, q, to)]
        <3>1. target = {move[q] : q \in moved} /\ move = [q \in moved |-> move[q]]
            OBVIOUS
        <3> HIDE DEF moved, move, target
        <3> QED BY <2>1, <3>1, FiniteRange
    <2>3. IsFiniteSet(DOMAIN n)
        <3>1. DOMAIN n = (DOMAIN m \ moved) \cup target
            BY <1>1
        <3> HIDE DEF moved, target, n
        <3>2. IsFiniteSet((DOMAIN m \ moved) \cup target)
            BY <2>1, <2>2, FS_Union
        <3> QED BY <3>1, <3>2
    <2> QED
        BY <1>1, <1>2, <1>4, <2>3
<1>6. IsManifest(n)
    BY RenamedIsManifest DEF IsWorkingTree
\* An entry that was moved is what it was.
<1>7. ASSUME NEW b \in moved
      PROVE  CopyOf(from, b, to) \in DOMAIN n /\ n[CopyOf(from, b, to)] = m[b]
    <2> DEFINE x == CopyOf(from, b, to)
    <2>1. x \in target
        OBVIOUS
    <2>2. origin(x) \in moved /\ x = CopyOf(from, origin(x), to)
        BY <2>1
    <2>3. origin(x) = b
        <3> HIDE DEF origin, moved
        <3> QED BY <1>2, <1>3, <2>2, CopyOfIsInjective
    <2> QED
        BY <1>1, <2>1, <2>3
<1>8. ASSUME NEW q \in DOMAIN m, NEW a \in Path, Below(a, q)
      PROVE  a \in DOMAIN m /\ m[a] = Directory
    <2>1. get(m, q) # None
        BY ValueAssumption DEF get, IsWorkingTree, IsManifest
    <2> QED
        BY <1>8, <2>1, AboveIsDirectory
<1>9. ASSUME NEW a \in Path, NEW x \in Path, x \in DOMAIN n, Below(a, x)
      PROVE  get(n, a) = Directory
    <2>1. Len(a) \in Nat \ {0} /\ Len(a) < Len(x) /\ \A i \in 1..Len(a) : x[i] = a[i]
        BY <1>9, BelowByElements, PathLength
    <2>2. CASE x \in target
        <3>1. PICK q \in moved : x = CopyOf(from, q, to)
            BY <2>2
        <3>2. /\ Len(x) = Len(q)
              /\ \A i \in 1..Len(q) : x[i] = IF i <= Len(from) THEN to[i] ELSE q[i]
            BY <1>2, <1>3, <3>1, CopyOfByElements
        <3>3. /\ q \in DOMAIN m /\ q \in Path
              /\ Len(q) \in Nat /\ Len(from) <= Len(q) /\ \A i \in 1..Len(from) : q[i] = from[i]
            BY <1>2, <1>3, WithinByElements
        <3>4. CASE Len(a) < Len(to)
            <4>1. \A i \in 1..Len(a) : q[i] = a[i]
                BY <1>2, <2>1, <3>2, <3>3, <3>4
            <4>2. Below(a, q)
                BY <2>1, <3>2, <3>3, <4>1, BelowByElements
            <4>3. a \in DOMAIN m /\ m[a] = Directory
                BY <1>8, <3>3, <4>2
            <4>4. \A r \in moved : Len(from) <= Len(r)
                BY <1>2, <1>3, WithinByElements
            <4>5. a \notin moved /\ a \notin target
                <5>1. \A y \in target : Len(from) <= Len(y)
                    BY <1>4, <4>4
                <5>2. ~(Len(from) <= Len(a))
                    BY <1>2, <2>1, <3>4
                <5> QED
                    BY <4>4, <5>1, <5>2
            <4> QED
                BY <1>1, <4>3, <4>5 DEF get
        <3>5. CASE ~(Len(a) < Len(to))
            <4> DEFINE b == SubSeq(q, 1, Len(a))
            <4>1. Len(a) \in 1..(Len(q) - 1)
                BY <2>1, <3>2, <3>3
            <4>2. /\ b \in Path /\ Len(b) = Len(a) /\ Below(b, q)
                  /\ \A i \in 1..Len(a) : b[i] = q[i]
                BY <3>3, <4>1, PrefixIsAbove
            <4> HIDE DEF b
            <4>3. b \in DOMAIN m /\ m[b] = Directory
                BY <1>8, <3>3, <4>2
            <4>4. Within(from, b)
                <5>1. Len(from) <= Len(b) /\ \A i \in 1..Len(from) : b[i] = from[i]
                    BY <1>2, <2>1, <3>3, <3>5, <4>2
                <5> QED
                    BY <1>2, <4>2, <5>1, WithinFromElements
            <4>5. b \in moved
                BY <4>3, <4>4 DEF Within, Subtree
            <4>6. a = CopyOf(from, b, to)
                <5>1. /\ CopyOf(from, b, to) \in Path /\ Len(CopyOf(from, b, to)) = Len(b)
                      /\ \A i \in 1..Len(b) :
                            CopyOf(from, b, to)[i] = IF i <= Len(from) THEN to[i] ELSE b[i]
                    BY <1>2, <4>2, <4>4, CopyOfByElements
                <5>2. \A i \in 1..Len(a) : a[i] = CopyOf(from, b, to)[i]
                    BY <1>2, <2>1, <3>2, <3>3, <4>1, <4>2, <5>1
                <5> QED
                    BY <4>2, <5>1, <5>2, SamePath
            <4> QED
                BY <1>7, <4>3, <4>5, <4>6 DEF get
        <3> QED
            BY <3>4, <3>5
    <2>3. CASE x \notin target
        <3>1. x \in DOMAIN m /\ x \notin moved
            BY <1>1, <1>9, <2>3
        <3>2. a \in DOMAIN m /\ m[a] = Directory
            BY <1>8, <1>9, <3>1
        <3>3. a \notin moved
            BY <1>2, <1>9, <3>1, BelowIsTransitive DEF Subtree
        <3>4. a \notin target
            <4> SUFFICES ASSUME NEW r \in moved, a = CopyOf(from, r, to) PROVE FALSE
                OBVIOUS
            <4>1. Len(a) = Len(r) /\ Len(from) <= Len(r) /\ Len(r) \in Nat
                BY <1>2, <1>3, <1>4, WithinByElements
            <4>2. \A i \in 1..Len(to) : a[i] = to[i]
                BY <1>2, <1>3, <4>1, CopyOfByElements
            <4>3. Below(to, x)
                BY <1>2, <2>1, <4>1, <4>2, <1>9, BelowByElements, PathLength
            <4>4. to \in DOMAIN m
                BY <1>8, <3>1, <4>3
            <4> QED
                BY <3>1, <4>3, <4>4 DEF CanRename
        <3> QED
            BY <1>1, <3>2, <3>3, <3>4 DEF get
    <2> QED
        BY <2>2, <2>3
<1> HIDE DEF n
<1>10. IsTree(n)
    BY <1>5, <1>9, TreeByAncestors
<1> QED
    BY <1>5, <1>6, <1>10 DEF IsWorkingTree, n

-----------------------------------------------------------------------------
(* Applying a manifest.                                                    *)

\* remove_entries_missing_from_remote: what is not in the manifest goes, and no
\* directory that has to go is ever found occupied.
LEMMA RemoveInPlace ==
    ASSUME NEW files, IsWorkingTree(files), NEW combined, IsWorkingTree(combined),
           NEW todo, ApplyInv(files, todo, combined),
           NEW p \in todo \ DOMAIN combined,
           \A q \in todo \ DOMAIN combined : ~Below(p, q)
    PROVE  /\ p \in Path /\ ~\E q \in DOMAIN files : Below(p, q)
           /\ IsWorkingTree(RemovePath(files, p))
           /\ ApplyInv(RemovePath(files, p), todo \ {p}, combined)
<1>1. p \in Path /\ todo \subseteq Path /\ DOMAIN files \subseteq Path
    BY DEF ApplyInv, IsWorkingTree
<1>2. ASSUME NEW q \in DOMAIN files, Below(p, q) PROVE FALSE
    <2>1. q \notin todo \ DOMAIN combined
        BY <1>2
    <2>2. get(files, q) # None
        BY ValueAssumption DEF get, IsWorkingTree, IsManifest
    <2>3. CASE q \in DOMAIN combined
        <3>1. get(combined, q) # None
            BY <2>3, ValueAssumption DEF get, IsWorkingTree, IsManifest
        <3> QED
            BY <1>1, <1>2, <3>1, AboveIsDirectory
    <2>4. CASE q \notin DOMAIN combined
        <3>1. get(combined, q) = None /\ q \notin todo
            BY <2>1, <2>4 DEF get
        <3> QED
            BY <1>1, <2>2, <3>1 DEF ApplyInv
    <2> QED
        BY <2>3, <2>4
<1>3. \A q : get(RemovePath(files, p), q) = IF q = p THEN None ELSE get(files, q)
    BY <1>2 DEF RemovePath, Subtree, get
<1>4. get(combined, p) = None
    BY DEF get
<1>5. ApplyInv(RemovePath(files, p), todo \ {p}, combined)
    BY <1>1, <1>3, <1>4 DEF ApplyInv
<1> QED
    BY <1>1, <1>2, <1>5, RemoveIsWorkingTree

\* Writing an entry into a directory that is in place already puts it in place, and
\* takes nothing away that belongs there.
LEMMA WriteInPlace ==
    ASSUME NEW files, IsWorkingTree(files), NEW combined, IsWorkingTree(combined),
           NEW todo, ApplyInv(files, todo, combined), NEW p \in todo, p \in DOMAIN combined,
           \A q \in todo : ~Below(q, p)
    PROVE  /\ IsWorkingTree(WriteEntry(files, p, combined[p]))
           /\ ApplyInv(WriteEntry(files, p, combined[p]), todo \ {p}, combined)
<1> DEFINE e == combined[p]
           gone == IF e = Directory THEN {} ELSE Subtree(p, DOMAIN files)
           after == WriteEntry(files, p, e)
<1>1. p \in Path /\ todo \subseteq Path /\ e \in Entry /\ get(combined, p) = e
    BY DEF ApplyInv, IsWorkingTree, IsManifest, get
<1>2. \A a \in Path : Below(a, p) => get(files, a) = Directory
    <2> TAKE a \in Path
    <2> HAVE Below(a, p)
    <2>1. get(combined, p) # None
        BY <1>1, ValueAssumption
    <2>2. get(combined, a) = Directory
        BY <2>1, AboveIsDirectory
    <2> QED
        BY <2>2 DEF ApplyInv
<1>3. IsWorkingTree(after)
    BY <1>1, <1>2, WriteIsWorkingTree
<1>4. \A q : get(after, q) = IF q = p THEN e ELSE IF q \in gone THEN None ELSE get(files, q)
    BY DEF WriteEntry, get
<1>5. ASSUME NEW q \in Path, q \notin todo \ {p} PROVE get(after, q) = get(combined, q)
    <2>1. CASE q = p
        BY <1>1, <1>4, <2>1
    <2>2. CASE q # p
        <3>1. get(files, q) = get(combined, q)
            BY <1>5, <2>2 DEF ApplyInv
        <3>2. CASE q \in gone
            <4>1. e # Directory /\ q \in DOMAIN files /\ Below(p, q)
                BY <2>2, <3>2 DEF Subtree
            <4>2. get(combined, q) # None
                BY <3>1, <4>1, ValueAssumption DEF get, IsWorkingTree, IsManifest
            <4>3. get(combined, p) = Directory
                BY <1>1, <4>1, <4>2, AboveIsDirectory
            <4> QED
                BY <1>1, <4>1, <4>3
        <3>3. CASE q \notin gone
            BY <1>4, <2>2, <3>1, <3>3
        <3> QED
            BY <3>2, <3>3
    <2> QED
        BY <2>1, <2>2
<1> HIDE DEF after, gone
<1>6. ApplyInv(after, todo \ {p}, combined)
    BY <1>1, <1>5 DEF ApplyInv
<1> QED
    BY <1>3, <1>6 DEF after

\* With nothing left to do the files are the manifest.
LEMMA AllInPlace ==
    ASSUME NEW files, IsWorkingTree(files), NEW combined, IsWorkingTree(combined),
           ApplyInv(files, {}, combined)
    PROVE  files = combined
<1>1. ASSUME NEW p PROVE get(files, p) = get(combined, p)
    <2>1. CASE p \in Path
        BY <2>1 DEF ApplyInv
    <2>2. CASE p \notin Path
        BY <2>2 DEF get, IsWorkingTree
    <2> QED
        BY <2>1, <2>2
<1> QED
    BY <1>1, ManifestExtensionality DEF IsWorkingTree

\* What walking the files finds is all there is to do.
LEMMA WalkFinds ==
    ASSUME NEW files, IsWorkingTree(files), NEW combined, IsWorkingTree(combined)
    PROVE  ApplyInv(files,
                    (DOMAIN files \ DOMAIN combined)
                        \cup {p \in DOMAIN combined : ~(get(files, p) = combined[p])},
                    combined)
BY DEF ApplyInv, IsWorkingTree, get

-----------------------------------------------------------------------------
(* Saved states and the history.                                           *)

\* The phase, the records, and the base with its revision can be replaced.
LEMMA SavedFields ==
    ASSUME NEW h, NEW s, IsSyncState(s), SavedInv(h, s)
    PROVE  /\ \A x : SavedInv(h, [s EXCEPT !.pending = x])
           /\ \A c : RecordsInv(c) => SavedInv(h, [s EXCEPT !.conflicts = c])
           /\ \A r \in 0..Len(h) : \A b :
                b = Revision(h, r) => SavedInv(h, [s EXCEPT !.base = b, !.rev = r])
BY DEF SavedInv, IsSyncState, SyncState

LEMMA NoRecords == RecordsInv(EmptyManifest)
<1>1. DOMAIN EmptyManifest = {}
    BY DEF EmptyManifest
<1> QED
    BY <1>1, FS_EmptySet DEF RecordsInv

LEMMA DefaultSaved ==
    ASSUME NEW h
    PROVE  SavedInv(h, DefaultState)
BY NoRecords DEF SavedInv, DefaultState, SyncState

LEMMA KnownRevisionIsTree ==
    ASSUME BInv, NEW r \in 0..head
    PROVE  IsWorkingTree(ManifestAt(r)) /\ ManifestAt(r) = Revision(history, r)
<1>1. head = Len(history) /\ head \in Nat
    BY HeadIsNat DEF BInv, IInv, head
<1>2. r = 0 \/ r \in 1..Len(history)
    BY <1>1
<1> QED
    BY <1>2, EmptyIsWorkingTree DEF BInv, PublishedInv, ManifestAt, Revision

LEMMA BaseIsWorkingTree ==
    ASSUME BInv, NEW s, SavedInv(history, s)
    PROVE  IsWorkingTree(Base(s))
<1>1. CASE s.base = None
    BY <1>1, EmptyIsWorkingTree DEF Base
<1>2. CASE s.base # None
    <2>1. s.rev \in 0..head /\ s.base = Revision(history, s.rev)
        BY <1>2 DEF SavedInv, head
    <2> QED
        BY <1>2, <2>1, KnownRevisionIsTree DEF Base
<1> QED
    BY <1>1, <1>2

\* The manifests a command works with are trees.
LEMMA PlanningTrees ==
    ASSUME BInv, NEW d \in Device
    PROVE  /\ mem[d].head \in 0..head
           /\ Remote(d) = Revision(history, mem[d].head)
           /\ IsWorkingTree(Base(mem[d].state)) /\ IsWorkingTree(mem[d].local)
           /\ IsWorkingTree(Remote(d))
<1>1. mem[d].head \in 0..head
    BY KnownRevision DEF BInv
<1>2. IsWorkingTree(mem[d].local) /\ SavedInv(history, mem[d].state)
    BY DEF BInv, BaseInv, TreesInv
<1> QED
    BY <1>1, <1>2, KnownRevisionIsTree, BaseIsWorkingTree DEF Remote

LEMMA TreePathsHaveLength ==
    ASSUME NEW base, IsWorkingTree(base), NEW local, IsWorkingTree(local),
           NEW remote, IsWorkingTree(remote)
    PROVE  \A p \in AllPaths(base, local, remote) : Len(p) \in Nat
BY PathLength DEF AllPaths, IsWorkingTree

\* What holds of a device keeps holding while others publish.
LEMMA HistoryGrows ==
    ASSUME NEW h, Len(h) \in Nat, NEW k, Len(k) \in Nat, Len(h) <= Len(k),
           \A i \in 1..Len(h) : k[i] = h[i],
           NEW files, NEW manifest, NEW s, NEW label, NEW m,
           m.head \in 0..Len(h),
           TreesInv(h, files, manifest, s, m),
           ProgressInv(h, files, manifest, s, label, m)
    PROVE  /\ TreesInv(k, files, manifest, s, m)
           /\ ProgressInv(k, files, manifest, s, label, m)
<1>1. \A r \in 0..Len(h) : r \in 0..Len(k) /\ Revision(k, r) = Revision(h, r)
    <2> TAKE r \in 0..Len(h)
    <2>1. r = 0 \/ r \in 1..Len(h)
        OBVIOUS
    <2> QED
        BY <2>1 DEF Revision
<1>2. \A x : SavedInv(h, x) => SavedInv(k, x)
    BY <1>1 DEF SavedInv
<1>3. Revision(k, m.head) = Revision(h, m.head)
    BY <1>1
<1>4. GoalInv(h, m) => GoalInv(k, m)
    BY <1>3 DEF GoalInv
<1>5. TreesInv(k, files, manifest, s, m)
    BY <1>2 DEF TreesInv
<1>6. ProgressInv(k, files, manifest, s, label, m)
    BY <1>1, <1>3, <1>4 DEF ProgressInv
<1> QED
    BY <1>5, <1>6

LEMMA LocalBase ==
    ASSUME BInv, IInv', NEW d \in Device, OnlyDevice(d), BaseInv(d)'
    PROVE  BInv'
<1>1. history' = history /\ late' = late
    BY DEF OnlyDevice, serverVars
<1>2. PublishedInv'
    BY <1>1 DEF BInv, PublishedInv
<1>3. ASSUME NEW e \in Device, e # d PROVE BaseInv(e)'
    BY <1>1, <1>3 DEF BInv, BaseInv, OnlyDevice
<1> QED
    BY <1>2, <1>3 DEF BInv

\* A command that ends leaves trees and a saved state behind.
LEMMA ReturnBase ==
    ASSUME BInv, IInv', NEW d \in Device, UNCHANGED serverVars, Return(d),
           \A e \in Device \ {d} : /\ tree'[e] = tree[e] /\ staged'[e] = staged[e]
                                   /\ cache'[e] = cache[e] /\ st'[e] = st[e],
           IsWorkingTree(tree'[d]), IsWorkingTree(staged'[d]), SavedInv(history, st'[d])
    PROVE  BInv'
<1>1. OnlyDevice(d) /\ mem'[d] = NoCommand /\ pc'[d] = "idle" /\ history' = history
    BY DEF BInv, IInv, PerDeviceInv, PerDevice, Return, Goto, OnlyDevice, serverVars
<1>2. TreesInv(history, tree'[d], staged'[d], st'[d], NoCommand)
    BY EmptyIsWorkingTree, DefaultSaved DEF TreesInv, NoCommand
<1>3. ProgressInv(history, tree'[d], staged'[d], st'[d], "idle", NoCommand)
    BY DEF ProgressInv
<1>4. BaseInv(d)'
    BY <1>1, <1>2, <1>3 DEF BaseInv
<1> QED
    BY <1>1, <1>4, LocalBase

LEMMA InitBase == Init => BInv
<1> SUFFICES ASSUME Init PROVE BInv
    OBVIOUS
<1>1. PICK seed \in Seeds :
        /\ history = IF seed = EmptyManifest THEN <<>> ELSE <<seed>>
        /\ late = {}
        /\ tree = [d \in Device |-> seed]
        /\ staged = [d \in Device |-> seed]
        /\ st = [d \in Device |->
                    IF seed = EmptyManifest THEN DefaultState
                    ELSE SyncState(seed, 1, None, EmptyManifest)]
        /\ pc = [d \in Device |-> "idle"]
        /\ mem = [d \in Device |-> NoCommand]
    BY DEF Init
<1>2. IsWorkingTree(seed)
    BY WorkflowAssumption DEF IsWorkingTree
<1>3. PublishedInv
    <2>1. CASE seed = EmptyManifest
        BY <1>1, <2>1 DEF PublishedInv
    <2>2. CASE seed # EmptyManifest
        BY <1>1, <1>2, <2>2 DEF PublishedInv
    <2> QED
        BY <2>1, <2>2
<1>4. ASSUME seed # EmptyManifest
      PROVE  SavedInv(history, SyncState(seed, 1, None, EmptyManifest))
    <2>1. history = <<seed>> /\ Len(history) = 1 /\ history[1] = seed
        BY <1>1, <1>4
    <2> QED
        BY <2>1, NoRecords DEF SavedInv, SyncState, Revision
<1>5. ASSUME NEW d \in Device PROVE BaseInv(d)
    <2>1. /\ tree[d] = seed /\ staged[d] = seed /\ pc[d] = "idle" /\ mem[d] = NoCommand
          /\ SavedInv(history, st[d])
        BY <1>1, <1>4, DefaultSaved
    <2>2. TreesInv(history, seed, seed, st[d], NoCommand)
        BY <1>2, <2>1, EmptyIsWorkingTree, DefaultSaved DEF TreesInv, NoCommand
    <2>3. ProgressInv(history, seed, seed, st[d], "idle", NoCommand)
        BY DEF ProgressInv
    <2> QED
        BY <2>1, <2>2, <2>3 DEF BaseInv
<1> QED
    BY <1>3, <1>5, InitInv DEF BInv

-----------------------------------------------------------------------------
(* The steps of a sync.                                                    *)

\* A command starts from the files and the saved state.
LEMMA AttemptBase ==
    ASSUME BInv, NEW d \in Device, NEW mode, NEW retry
    PROVE  /\ TreesInv(history, tree[d], staged[d], st[d], Attempt(d, mode, retry))
           /\ ProgressInv(history, tree[d], staged[d], st[d], "fetch", Attempt(d, mode, retry))
BY EmptyIsWorkingTree DEF BInv, BaseInv, TreesInv, ProgressInv, Attempt

LEMMA ScanLocalBase ==
    ASSUME BInv, IInv', NEW d \in Device, ScanLocal(d)
    PROVE  BInv'
<1>1. PICK mode \in Modes : mem' = [mem EXCEPT ![d] = Attempt(d, mode, 0)]
    BY DEF ScanLocal
<1>2. /\ OnlyDevice(d) /\ mem'[d] = Attempt(d, mode, 0) /\ pc'[d] = "fetch"
      /\ UNCHANGED <<history, tree, staged, st>>
    BY <1>1 DEF ScanLocal, BInv, IInv, PerDeviceInv, PerDevice, Goto, OnlyDevice, serverVars
<1>3. BaseInv(d)'
    BY <1>2, AttemptBase DEF BaseInv
<1> QED
    BY <1>2, <1>3, LocalBase

\* A plan without changes was made of two equal manifests.
LEMMA FetchAndPlanBase ==
    ASSUME BInv, IInv', NEW d \in Device, FetchAndPlan(d)
    PROVE  BInv'
<1> DEFINE plan == plan_reconciliation(Base(mem[d].state), mem[d].local, ManifestAt(head))
           state == begin_pending(mem[d].state, "Planning")
           m == mem[d]
<1>1. /\ IsMemory(m) /\ IsSyncState(m.state)
      /\ TreesInv(history, tree[d], staged[d], st[d], m)
    BY DEF BInv, IInv, DeviceInv, IsMemory, BaseInv
<1>0. /\ UNCHANGED <<serverVars, tree, staged, cache>> /\ m.mode = "Reconcile"
      /\ \/ /\ ~has_changes(plan) /\ mem' = [mem EXCEPT ![d].head = head]
            /\ Goto(d, "unchanged") /\ UNCHANGED st
         \/ /\ mem' = [mem EXCEPT ![d].head = head, ![d].state = state]
            /\ Goto(d, "stage") /\ st' = [st EXCEPT ![d] = state]
    BY DEF FetchAndPlan
<1>2. /\ OnlyDevice(d) /\ UNCHANGED <<history, tree, staged>> /\ m.mode = "Reconcile"
      /\ \/ /\ ~has_changes(plan) /\ mem'[d] = [m EXCEPT !.head = head]
            /\ pc'[d] = "unchanged" /\ st'[d] = st[d]
         \/ /\ mem'[d] = [m EXCEPT !.head = head, !.state = state]
            /\ pc'[d] = "stage" /\ st'[d] = state
    <2> HIDE DEF plan, state
    <2> QED
        BY <1>0 DEF BInv, IInv, PerDeviceInv, PerDevice, Goto, OnlyDevice, serverVars
<1>3. /\ IsWorkingTree(ManifestAt(head)) /\ ManifestAt(head) = Revision(history, head)
      /\ IsWorkingTree(Base(m.state)) /\ IsWorkingTree(m.local)
    BY HeadIsNat, KnownRevisionIsTree, PlanningTrees DEF BInv, IInv
<1>4. ~has_changes(plan) => m.local = Revision(history, head)
    BY <1>3, NothingToReconcile, TreePathsHaveLength DEF IsWorkingTree
<1>5. SavedInv(history, state)
    BY <1>1, SavedFields DEF TreesInv, begin_pending
<1> HIDE DEF plan, state
<1>6. CASE /\ ~has_changes(plan) /\ mem'[d] = [m EXCEPT !.head = head]
           /\ pc'[d] = "unchanged" /\ st'[d] = st[d]
    <2>1. /\ mem'[d].local = m.local /\ mem'[d].combined = m.combined
          /\ mem'[d].state = m.state /\ mem'[d].head = head
        BY <1>1, <1>6 DEF IsMemory
    <2>2. /\ TreesInv(history, tree[d], staged[d], st[d], mem'[d])
          /\ ProgressInv(history, tree[d], staged[d], st[d], "unchanged", mem'[d])
        BY <1>1, <1>4, <1>6, <2>1 DEF TreesInv, ProgressInv
    <2>3. BaseInv(d)'
        BY <1>2, <1>6, <2>2 DEF BaseInv
    <2> QED
        BY <1>2, <2>3, LocalBase
<1>7. CASE /\ mem'[d] = [m EXCEPT !.head = head, !.state = state]
           /\ pc'[d] = "stage" /\ st'[d] = state
    <2>1. /\ mem'[d].local = m.local /\ mem'[d].combined = m.combined
          /\ mem'[d].state = state /\ mem'[d].mode = m.mode
        BY <1>1, <1>7 DEF IsMemory
    <2>2. /\ TreesInv(history, tree[d], staged[d], state, mem'[d])
          /\ ProgressInv(history, tree[d], staged[d], state, "stage", mem'[d])
        BY <1>1, <1>2, <1>5, <2>1 DEF TreesInv, ProgressInv
    <2>3. BaseInv(d)'
        BY <1>2, <1>7, <2>2 DEF BaseInv
    <2> QED
        BY <1>2, <2>3, LocalBase
<1> QED
    BY <1>2, <1>6, <1>7

\* Two scans that ensure_unchanged does not tell apart are equal.
LEMMA UnchangedIsEqual ==
    ASSUME BInv, NEW d \in Device, Unchanged(d)
    PROVE  tree[d] = mem[d].local
<1>1. IsManifest(tree[d]) /\ IsManifest(mem[d].local)
    BY DEF BInv, IInv, DeviceInv, IsMemory
<1>2. \A p : get(mem[d].local, p) = get(tree[d], p)
    BY DEF Unchanged, diff_manifests, entries_equal, get
<1> QED
    BY <1>1, <1>2, ManifestExtensionality

\* stage_all scans the files.
LEMMA StageBase ==
    ASSUME BInv, IInv', NEW d \in Device, stage_all(d)
    PROVE  /\ staged'[d] = tree[d] /\ IsWorkingTree(tree[d])
           /\ \A e \in Device \ {d} : staged'[e] = staged[e] /\ cache'[e] = cache[e]
BY StageInv DEF BInv, BaseInv, TreesInv

LEMMA RecordUnchangedBase ==
    ASSUME BInv, IInv', NEW d \in Device, RecordUnchanged(d)
    PROVE  BInv'
<1> DEFINE s == mem[d].state
           state == [complete_pending(s) EXCEPT !.base = tree[d], !.rev = mem[d].head]
<1>0. /\ UNCHANGED serverVars /\ tree' = tree /\ Return(d) /\ stage_all(d)
      /\ pc[d] = "unchanged"
      /\ st' = st \/ (Unchanged(d) /\ st' = [st EXCEPT ![d] = state])
    BY DEF RecordUnchanged
<1>1. /\ UNCHANGED serverVars /\ tree' = tree /\ Return(d) /\ stage_all(d)
      /\ pc[d] = "unchanged"
      /\ \A e \in Device \ {d} : st'[e] = st[e]
      /\ st'[d] = st[d] \/ (Unchanged(d) /\ st'[d] = state)
    <2> HIDE DEF state
    <2> QED
        BY <1>0 DEF BInv, IInv, PerDeviceInv, PerDevice
<1>2. ASSUME Unchanged(d) PROVE SavedInv(history, state)
    <2>1. tree[d] = Revision(history, mem[d].head)
        BY <1>1, <1>2, UnchangedIsEqual DEF BInv, BaseInv, ProgressInv
    <2>2. mem[d].head \in 0..Len(history)
        BY KnownRevision DEF BInv, head
    <2>3. IsSyncState(s) /\ SavedInv(history, s)
        BY DEF BInv, IInv, DeviceInv, IsMemory, BaseInv, TreesInv
    <2>4. IsSyncState(complete_pending(s)) /\ SavedInv(history, complete_pending(s))
        BY <2>3, SavedFields, SyncStateFields DEF complete_pending
    <2> QED
        BY <2>1, <2>2, <2>4, SavedFields
<1>3. SavedInv(history, st'[d])
    BY <1>1, <1>2 DEF BInv, BaseInv, TreesInv
<1> QED
    BY <1>1, <1>3, StageBase, ReturnBase

LEMMA StageLocalBase ==
    ASSUME BInv, IInv', NEW d \in Device, StageLocal(d)
    PROVE  BInv'
<1>1. /\ UNCHANGED <<serverVars, tree, st>> /\ stage_all(d) /\ pc[d] = "stage"
      /\ (Goto(d, "combine") /\ UNCHANGED mem) \/ Return(d)
    BY DEF StageLocal
<1>2. CASE Return(d)
    <2>1. SavedInv(history, st'[d])
        BY <1>1 DEF BInv, BaseInv, TreesInv
    <2> QED
        BY <1>1, <1>2, <2>1, StageBase, ReturnBase
<1>3. CASE Goto(d, "combine") /\ UNCHANGED mem
    <2>1. /\ OnlyDevice(d) /\ pc'[d] = "combine" /\ staged'[d] = tree[d]
          /\ IsWorkingTree(tree[d]) /\ history' = history
        BY <1>1, <1>3, StageBase DEF BInv, IInv, PerDeviceInv, PerDevice, Goto, OnlyDevice, serverVars
    <2>2. BaseInv(d)'
        BY <1>1, <1>3, <2>1 DEF BInv, BaseInv, TreesInv, ProgressInv
    <2> QED
        BY <2>1, <2>2, LocalBase
<1> QED
    BY <1>1, <1>2, <1>3

\* The names add_conflict gives to the remote sides of a sync's conflicts.
CopyPaths(d) ==
    LET base == Base(mem[d].state)
        local == mem[d].local
        records == mem[d].state.conflicts
        reserved == AllPaths(base, local, Remote(d))
                        \cup {records[p].copy : p \in DOMAIN records}
    IN [p \in Conflicts(base, local, Remote(d)) |->
            remote_copy_path(p, mem[d].head, reserved)]

LEMMA FreshCopyPaths ==
    ASSUME BInv, NEW d \in Device
    PROVE  LET base == Base(mem[d].state)
               local == mem[d].local
               new == Conflicts(base, local, Remote(d))
               all == AllPaths(base, local, Remote(d))
           IN /\ FreshCopies(CopyPaths(d), new, all)
              /\ new \subseteq Path /\ IsFiniteSet(new)
<1> DEFINE m == mem[d]
           base == Base(m.state)
           local == m.local
           records == m.state.conflicts
           all == AllPaths(base, local, Remote(d))
           copies == {records[p].copy : p \in DOMAIN records}
           reserved == all \cup copies
           new == Conflicts(base, local, Remote(d))
           copy == CopyPaths(d)
<1>2. /\ m.head \in Nat
      /\ IsWorkingTree(base) /\ IsWorkingTree(local) /\ IsWorkingTree(Remote(d))
    BY PlanningTrees DEF BInv, IInv, DeviceInv, IsMemory
<1>3. RecordsInv(records)
    BY DEF BInv, BaseInv, TreesInv, SavedInv
<1>4. /\ all \subseteq Path /\ IsFiniteSet(all) /\ new \subseteq all
      /\ new \subseteq Path /\ IsFiniteSet(new)
    <2>1. all \subseteq Path
        BY <1>2 DEF AllPaths, IsWorkingTree
    <2>2. IsFiniteSet(all)
        BY <1>2, AllPathsFinite
    <2>3. new \subseteq all
        BY DEF Conflicts, plan_reconciliation, PlannedPaths
    <2> HIDE DEF all, new
    <2> QED
        BY <2>1, <2>2, <2>3, FS_Subset
<1>5. IsFiniteSet(reserved)
    <2> DEFINE f == [p \in DOMAIN records |-> records[p].copy]
    <2>1. copies = {f[p] : p \in DOMAIN records} /\ f = [p \in DOMAIN records |-> f[p]]
        OBVIOUS
    <2>2. IsFiniteSet(DOMAIN records)
        BY <1>3 DEF RecordsInv
    <2> HIDE DEF f, copies, records, all
    <2>3. IsFiniteSet(copies)
        BY <2>1, <2>2, FiniteRange
    <2> QED
        BY <1>4, <2>3, FS_Union
<1>6. FreshCopies(copy, new, all)
    <2>1. all \in SUBSET reserved /\ new \in SUBSET Path
        BY <1>4
    <2>2. copy = [p \in new |-> remote_copy_path(p, m.head, reserved)]
        BY DEF CopyPaths
    <2> HIDE DEF reserved, new, all, copy
    <2> QED
        BY <1>2, <1>5, <2>1, <2>2, CopiesAreFresh
<1> QED
    BY <1>4, <1>6

\* The manifest to apply is a tree, and the records name paths next to the conflicts.
\* When the plan has nothing to publish it is the manifest of the head.
LEMMA CombineManifestsBase ==
    ASSUME BInv, IInv', NEW d \in Device, CombineManifests(d)
    PROVE  BInv'
<1> DEFINE m == mem[d]
           base == Base(m.state)
           local == m.local
           records == m.state.conflicts
           all == AllPaths(base, local, Remote(d))
           copies == {records[p].copy : p \in DOMAIN records}
           reserved == all \cup copies
           new == Conflicts(base, local, Remote(d))
           copy == [p \in new |-> remote_copy_path(p, m.head, reserved)]
           conflicts == [p \in DOMAIN records \cup new |->
                IF p \in new
                THEN [copy |-> copy[p], remote_deleted |-> p \notin DOMAIN Remote(d)]
                ELSE records[p]]
           combined == Combined(base, local, Remote(d), copy)
           state == [m.state EXCEPT !.conflicts = conflicts]
<1>1. /\ mem' = [mem EXCEPT ![d].combined = combined, ![d].state.conflicts = conflicts]
      /\ pc' = [pc EXCEPT ![d] = "check"] /\ pc[d] = "combine"
      /\ UNCHANGED <<serverVars, tree, staged, cache, st>>
    BY DEF CombineManifests, Goto
<1>2. /\ m.head \in Nat /\ Remote(d) = Revision(history, m.head)
      /\ IsWorkingTree(base) /\ IsWorkingTree(local) /\ IsWorkingTree(Remote(d))
    BY PlanningTrees DEF BInv, IInv, DeviceInv, IsMemory
<1>3. /\ IsMemory(m) /\ IsSyncState(m.state)
      /\ TreesInv(history, tree[d], staged[d], st[d], m)
      /\ SavedInv(history, m.state) /\ RecordsInv(records)
    BY DEF BInv, IInv, DeviceInv, IsMemory, BaseInv, TreesInv, SavedInv
<1>4. new \subseteq Path /\ IsFiniteSet(new)
    BY FreshCopyPaths
<1>6. FreshCopies(copy, new, all)
    BY FreshCopyPaths DEF CopyPaths
<1>7. IsWorkingTree(combined)
    <2> HIDE DEF copy
    <2> QED
        BY <1>2, <1>6, CombinedIsWorkingTree
<1>8. ~requires_publication(plan_reconciliation(base, local, Remote(d)))
        => combined = Remote(d)
    <2>1. \A p \in AllPaths(base, local, Remote(d)) : Len(p) \in Nat
        BY <1>2, TreePathsHaveLength
    <2> HIDE DEF copy
    <2> QED
        BY <1>2, <2>1, DownloadsOnly DEF IsWorkingTree
<1>9. RecordsInv(conflicts)
    <2>1. DOMAIN conflicts = DOMAIN records \cup new
        OBVIOUS
    <2>2. \A p \in DOMAIN conflicts :
            conflicts[p].copy = IF p \in new THEN copy[p] ELSE records[p].copy
        <3> HIDE DEF new, copy, records
        <3> QED OBVIOUS
    <2>3. \A p \in new : IsCopyName(p, copy[p])
        BY <1>6 DEF FreshCopies
    <2>4. /\ DOMAIN records \subseteq Path /\ IsFiniteSet(DOMAIN records)
          /\ \A p \in DOMAIN records : IsCopyName(p, records[p].copy)
        BY <1>3 DEF RecordsInv
    <2> HIDE DEF conflicts, new, copy, records
    <2>5. IsFiniteSet(DOMAIN conflicts)
        BY <1>4, <2>1, <2>4, FS_Union
    <2> QED
        BY <1>4, <2>1, <2>2, <2>3, <2>4, <2>5 DEF RecordsInv
<1>10. SavedInv(history, state)
    <2> HIDE DEF conflicts
    <2> QED BY <1>3, <1>9, SavedFields
<1> HIDE DEF combined, conflicts
<1>11. /\ OnlyDevice(d) /\ pc'[d] = "check" /\ UNCHANGED <<history, tree, staged, st>>
       /\ mem'[d] = [m EXCEPT !.combined = combined, !.state.conflicts = conflicts]
    BY <1>1 DEF BInv, IInv, PerDeviceInv, PerDevice, OnlyDevice, serverVars
<1>12. /\ mem'[d].local = local /\ mem'[d].combined = combined /\ mem'[d].state = state
       /\ mem'[d].head = m.head /\ mem'[d].mode = m.mode
    BY <1>3, <1>11 DEF IsMemory
<1>13. TreesInv(history, tree[d], staged[d], st[d], mem'[d])
    <2> HIDE DEF state
    <2> QED BY <1>3, <1>7, <1>10, <1>12 DEF TreesInv
<1>14. Base(mem'[d].state) = base
    BY <1>3, <1>12 DEF IsSyncState, SyncState, Base
<1>15. GoalInv(history, mem'[d])
    <2>1. m.mode = "Reconcile"
        BY <1>1 DEF BInv, BaseInv, ProgressInv
    <2> HIDE DEF base, local
    <2> QED
        BY <1>2, <1>8, <1>12, <1>14, <2>1 DEF GoalInv, local
<1>16. ProgressInv(history, tree[d], staged[d], st[d], "check", mem'[d])
    BY <1>15 DEF ProgressInv
<1>17. BaseInv(d)'
    BY <1>11, <1>13, <1>16 DEF BaseInv
<1> QED
    BY <1>11, <1>17, LocalBase

\* Saving a phase leaves the base, and so the plan, as it was.
LEMMA SamePlan ==
    ASSUME NEW h, NEW m, IsMemory(m), NEW n, NEW x, GoalInv(h, m),
           n.mode = m.mode, n.local = m.local, n.combined = m.combined, n.head = m.head,
           n.state = m.state \/ n.state = [m.state EXCEPT !.pending = x]
    PROVE  GoalInv(h, n)
<1>1. Base(n.state) = Base(m.state)
    BY DEF IsMemory, IsSyncState, SyncState, Base
<1> QED
    BY <1>1 DEF GoalInv

LEMMA BeginApplyBase ==
    ASSUME BInv, IInv', NEW d \in Device, BeginApply(d)
    PROVE  BInv'
<1> DEFINE m == mem[d]
           state == IF m.mode = "DiscardLocal" THEN m.state
                    ELSE begin_pending(m.state, "Download")
<1>1. /\ IsMemory(m) /\ IsSyncState(m.state) /\ pc[d] = "check"
      /\ TreesInv(history, tree[d], staged[d], st[d], m) /\ GoalInv(history, m)
    BY DEF BInv, IInv, DeviceInv, IsMemory, BaseInv, ProgressInv, BeginApply
<1>2. SavedInv(history, state)
    BY <1>1, SavedFields DEF TreesInv, begin_pending
<1>3. state = m.state \/ state = [m.state EXCEPT !.pending = "Download"]
    BY DEF begin_pending
<1> HIDE DEF state
<1>4. /\ UNCHANGED <<serverVars, tree, staged, cache>>
      /\ st' = st \/ st' = [st EXCEPT ![d] = state]
      /\ \/ mem' = [mem EXCEPT ![d].state = state] /\ Goto(d, "walk")
         \/ Return(d)
    BY DEF BeginApply, state
<1>5. /\ SavedInv(history, st'[d])
      /\ \A e \in Device \ {d} : st'[e] = st[e]
    BY <1>1, <1>2, <1>4 DEF BInv, IInv, PerDeviceInv, PerDevice, TreesInv
<1>6. CASE Return(d)
    BY <1>1, <1>4, <1>5, <1>6, ReturnBase DEF TreesInv
<1>7. CASE mem' = [mem EXCEPT ![d].state = state] /\ Goto(d, "walk")
    <2>1. /\ OnlyDevice(d) /\ pc'[d] = "walk" /\ mem'[d] = [m EXCEPT !.state = state]
          /\ UNCHANGED <<history, tree, staged>>
        BY <1>4, <1>5, <1>7
        DEF BInv, IInv, PerDeviceInv, PerDevice, Goto, OnlyDevice, serverVars
    <2>2. /\ mem'[d].local = m.local /\ mem'[d].combined = m.combined
          /\ mem'[d].state = state /\ mem'[d].head = m.head /\ mem'[d].mode = m.mode
        BY <1>1, <2>1 DEF IsMemory
    <2>3. TreesInv(history, tree[d], staged[d], st'[d], mem'[d])
        BY <1>1, <1>2, <1>5, <2>2 DEF TreesInv
    <2>4. GoalInv(history, mem'[d])
        BY <1>1, <1>3, <2>2, SamePlan
    <2>5. ProgressInv(history, tree[d], staged[d], st'[d], "walk", mem'[d])
        BY <2>4 DEF ProgressInv
    <2>6. BaseInv(d)'
        BY <2>1, <2>3, <2>5 DEF BaseInv
    <2> QED
        BY <2>1, <2>6, LocalBase
<1> QED
    BY <1>4, <1>6, <1>7

\* The command of d has a new list of things to do, and other files.
LEMMA ListBase ==
    ASSUME BInv, IInv', NEW d \in Device, NEW todo,
           pc[d] \in {"walk", "apply"}, OnlyDevice(d), pc'[d] = "apply",
           mem'[d] = [mem[d] EXCEPT !.todo = todo], UNCHANGED <<staged, st>>,
           IsWorkingTree(tree'[d]), ApplyInv(tree'[d], todo, mem[d].combined)
    PROVE  BInv'
<1> DEFINE m == mem[d]
<1>1. /\ IsMemory(m) /\ history' = history
      /\ TreesInv(history, tree[d], staged[d], st[d], m) /\ GoalInv(history, m)
    BY DEF BInv, IInv, DeviceInv, BaseInv, ProgressInv, OnlyDevice, serverVars
<1>2. /\ mem'[d].local = m.local /\ mem'[d].combined = m.combined /\ mem'[d].todo = todo
      /\ mem'[d].state = m.state /\ mem'[d].head = m.head /\ mem'[d].mode = m.mode
    BY <1>1 DEF IsMemory
<1>3. TreesInv(history, tree'[d], staged[d], st[d], mem'[d])
    BY <1>1, <1>2 DEF TreesInv
<1>4. GoalInv(history, mem'[d])
    BY <1>1, <1>2, SamePlan
<1>5. ProgressInv(history, tree'[d], staged[d], st[d], "apply", mem'[d])
    BY <1>2, <1>4 DEF ProgressInv
<1>6. BaseInv(d)'
    BY <1>1, <1>3, <1>5 DEF BaseInv
<1> QED
    BY <1>6, LocalBase

LEMMA WalkTreeBase ==
    ASSUME BInv, IInv', NEW d \in Device, WalkTree(d)
    PROVE  BInv'
<1> DEFINE todo == (DOMAIN tree[d] \ DOMAIN mem[d].combined)
                    \cup {p \in DOMAIN mem[d].combined : ~(get(tree[d], p) = mem[d].combined[p])}
<1>1. /\ UNCHANGED <<serverVars, tree, staged, cache, st>> /\ pc[d] = "walk"
      /\ \/ mem' = [mem EXCEPT ![d].todo = todo] /\ Goto(d, "apply")
         \/ Return(d)
    BY DEF WalkTree, collect_workspace_paths, matching_local_file
<1>2. IsWorkingTree(tree[d]) /\ IsWorkingTree(mem[d].combined)
    BY DEF BInv, BaseInv, TreesInv
<1>3. ApplyInv(tree[d], todo, mem[d].combined)
    BY <1>2, WalkFinds
<1> HIDE DEF todo
<1>4. CASE Return(d)
    BY <1>1, <1>4, ReturnBase DEF BInv, BaseInv, TreesInv
<1>5. CASE mem' = [mem EXCEPT ![d].todo = todo] /\ Goto(d, "apply")
    <2>1. OnlyDevice(d) /\ pc'[d] = "apply" /\ mem'[d] = [mem[d] EXCEPT !.todo = todo]
        BY <1>1, <1>5 DEF BInv, IInv, PerDeviceInv, PerDevice, Goto, OnlyDevice
    <2> QED
        BY <1>1, <1>2, <1>3, <2>1, ListBase
<1> QED
    BY <1>1, <1>4, <1>5

LEMMA ApplyRemoveBase ==
    ASSUME BInv, IInv', NEW d \in Device, ApplyRemove(d)
    PROVE  BInv'
<1> DEFINE m == mem[d]
           after(p) == IF \E q \in DOMAIN tree[d] : Below(p, q)
                       THEN tree[d] ELSE RemovePath(tree[d], p)
<1>1. PICK p \in m.todo \ DOMAIN m.combined :
        /\ \A q \in m.todo \ DOMAIN m.combined : ~Below(p, q)
        /\ mem' = [mem EXCEPT ![d].todo = @ \ {p}]
        /\ tree' = [tree EXCEPT ![d] = after(p)]
    BY DEF ApplyRemove
<1>2. UNCHANGED <<serverVars, staged, cache, st, pc>> /\ pc[d] = "apply"
    BY DEF ApplyRemove
<1>3. /\ IsWorkingTree(tree[d]) /\ IsWorkingTree(m.combined)
      /\ ApplyInv(tree[d], m.todo, m.combined)
    BY <1>2 DEF BInv, BaseInv, TreesInv, ProgressInv
<1>4. /\ ~\E q \in DOMAIN tree[d] : Below(p, q)
      /\ IsWorkingTree(RemovePath(tree[d], p))
      /\ ApplyInv(RemovePath(tree[d], p), m.todo \ {p}, m.combined)
    BY <1>1, <1>3, RemoveInPlace
<1>5. after(p) = RemovePath(tree[d], p)
    BY <1>4
<1> HIDE DEF after
<1>6. /\ OnlyDevice(d) /\ mem'[d] = [m EXCEPT !.todo = m.todo \ {p}]
      /\ tree'[d] = RemovePath(tree[d], p)
    BY <1>1, <1>2, <1>5 DEF BInv, IInv, PerDeviceInv, PerDevice, OnlyDevice
<1> QED
    BY <1>2, <1>4, <1>6, ListBase

LEMMA ApplyWriteBase ==
    ASSUME BInv, IInv', NEW d \in Device, ApplyWrite(d)
    PROVE  BInv'
<1> DEFINE m == mem[d]
<1>1. PICK p \in m.todo :
        /\ \A q \in m.todo : ~Below(q, p)
        /\ mem' = [mem EXCEPT ![d].todo = @ \ {p}]
        /\ cache' = [cache EXCEPT ![d] = @ \cup ({m.combined[p]} \ {Directory})]
        /\ tree' = [tree EXCEPT ![d] = WriteEntry(@, p, m.combined[p])]
        /\ p \in DOMAIN m.combined
    BY DEF ApplyWrite
<1>2. UNCHANGED <<serverVars, staged, st, pc>> /\ pc[d] = "apply"
    BY DEF ApplyWrite
<1>3. /\ IsWorkingTree(tree[d]) /\ IsWorkingTree(m.combined)
      /\ ApplyInv(tree[d], m.todo, m.combined)
    BY <1>2 DEF BInv, BaseInv, TreesInv, ProgressInv
<1>4. /\ IsWorkingTree(WriteEntry(tree[d], p, m.combined[p]))
      /\ ApplyInv(WriteEntry(tree[d], p, m.combined[p]), m.todo \ {p}, m.combined)
    BY <1>1, <1>3, WriteInPlace
<1>5. /\ OnlyDevice(d) /\ mem'[d] = [m EXCEPT !.todo = m.todo \ {p}]
      /\ tree'[d] = WriteEntry(tree[d], p, m.combined[p])
    BY <1>1, <1>2 DEF BInv, IInv, PerDeviceInv, PerDevice, OnlyDevice
<1> QED
    BY <1>2, <1>4, <1>5, ListBase

\* Everything is in place, so the files are the manifest; a discard saves the head.
LEMMA ApplyDoneBase ==
    ASSUME BInv, IInv', NEW d \in Device, ApplyDone(d)
    PROVE  BInv'
<1> DEFINE m == mem[d]
           label == IF m.mode = "DiscardLocal" THEN "discarded" ELSE "restage"
<1>1. /\ OnlyDevice(d) /\ UNCHANGED <<history, tree, st, mem>> /\ pc[d] = "apply"
      /\ m.todo = {} /\ staged'[d] = m.combined /\ pc'[d] = label
    BY DEF ApplyDone, BInv, IInv, PerDeviceInv, PerDevice, Goto, OnlyDevice, serverVars
<1>2. /\ TreesInv(history, tree[d], staged[d], st[d], m) /\ GoalInv(history, m)
      /\ ApplyInv(tree[d], {}, m.combined)
    BY <1>1 DEF BInv, BaseInv, ProgressInv
<1>3. tree[d] = m.combined
    BY <1>2, AllInPlace DEF TreesInv
<1>4. TreesInv(history, tree[d], m.combined, st[d], m)
    BY <1>2 DEF TreesInv
<1>5. ProgressInv(history, tree[d], m.combined, st[d], label, m)
    BY <1>2, <1>3 DEF ProgressInv, GoalInv
<1>6. BaseInv(d)'
    BY <1>1, <1>4, <1>5 DEF BaseInv
<1> QED
    BY <1>1, <1>6, LocalBase

\* What is staged is what was applied; without a publication that is the head.
LEMMA RestageBase ==
    ASSUME BInv, IInv', NEW d \in Device, Restage(d)
    PROVE  BInv'
<1> DEFINE m == mem[d]
           publish == requires_publication(Plan(d))
           applied == [m.state EXCEPT !.base = Remote(d), !.rev = m.head]
           label == IF publish THEN "publish" ELSE "finish"
<1>1. PICK state :
        /\ state \in {applied, begin_pending(applied, "Publication")}
        /\ stage_all(d)
        /\ st' = [st EXCEPT ![d] = state]
        /\ mem' = [mem EXCEPT ![d].state = state, ![d].synced = m.head]
        /\ Goto(d, label) /\ pc[d] = "restage"
        /\ UNCHANGED <<serverVars, tree>>
    BY DEF Restage
<1>2. /\ IsMemory(m) /\ IsSyncState(m.state)
      /\ TreesInv(history, tree[d], staged[d], st[d], m) /\ GoalInv(history, m)
      /\ tree[d] = m.combined
    BY <1>1 DEF BInv, IInv, DeviceInv, IsMemory, BaseInv, ProgressInv
<1>3. /\ m.head \in 0..Len(history) /\ m.head \in Nat
      /\ Remote(d) = Revision(history, m.head) /\ IsManifest(Remote(d))
    BY <1>2, PlanningTrees DEF head, IsMemory, IsWorkingTree
<1>4. IsSyncState(applied) /\ SavedInv(history, applied)
    <2>1. IsSyncState([m.state EXCEPT !.base = Remote(d)])
        BY <1>2, <1>3, SyncStateFields
    <2>2. IsSyncState(applied)
        BY <1>3, <2>1, SyncStateFields
    <2>3. SavedInv(history, applied)
        BY <1>2, <1>3, SavedFields DEF TreesInv
    <2> QED
        BY <2>2, <2>3
<1> HIDE DEF applied
<1>5. SavedInv(history, state)
    <2>1. SavedInv(history, begin_pending(applied, "Publication"))
        BY <1>4, SavedFields DEF begin_pending
    <2>2. state = applied \/ state = begin_pending(applied, "Publication")
        BY <1>1
    <2> QED
        BY <1>4, <2>1, <2>2
<1>6. ~publish => tree[d] = Revision(history, m.head)
    BY <1>2, <1>3 DEF GoalInv, Plan
<1> HIDE DEF publish
<1>7. /\ OnlyDevice(d) /\ UNCHANGED <<history, tree>> /\ st'[d] = state /\ pc'[d] = label
      /\ mem'[d] = [m EXCEPT !.state = state, !.synced = m.head]
      /\ staged'[d] = tree[d]
    BY <1>1, StageBase DEF BInv, IInv, PerDeviceInv, PerDevice, Goto, OnlyDevice, serverVars
<1>8. /\ mem'[d].local = m.local /\ mem'[d].combined = m.combined
      /\ mem'[d].state = state /\ mem'[d].synced = m.head
    BY <1>2, <1>7 DEF IsMemory
<1>9. TreesInv(history, tree[d], tree[d], state, mem'[d])
    BY <1>2, <1>5, <1>8 DEF TreesInv
<1>10. ProgressInv(history, tree[d], tree[d], state, label, mem'[d])
    BY <1>3, <1>6, <1>8 DEF ProgressInv
<1> HIDE DEF label
<1>11. BaseInv(d)'
    BY <1>7, <1>9, <1>10 DEF BaseInv
<1> QED
    BY <1>7, <1>11, LocalBase

\* A publication extends the history by a tree.
LEMMA PublicationBase ==
    ASSUME BInv, NEW x, IsWorkingTree(x), history' = Append(history, x),
           \A u \in late' : u \in late
    PROVE  /\ PublishedInv'
           /\ Len(history) \in Nat /\ Len(history') = Len(history) + 1
           /\ history'[Len(history) + 1] = x
           /\ \A i \in 1..Len(history) : history'[i] = history[i]
<1>1. /\ Len(history) \in Nat /\ Len(history') = Len(history) + 1
      /\ history'[Len(history) + 1] = x
      /\ \A i \in 1..Len(history) : history'[i] = history[i]
    BY AppendManifest DEF BInv, IInv, ServerInv
<1>2. \A i \in 1..Len(history') : IsWorkingTree(history'[i])
    <2> TAKE i \in 1..Len(history')
    <2>1. i \in 1..Len(history) \/ i = Len(history) + 1
        BY <1>1
    <2> QED
        BY <1>1, <2>1 DEF BInv, PublishedInv
<1> QED
    BY <1>1, <1>2 DEF BInv, PublishedInv

\* ... and a device that does nothing meanwhile is as it was.
LEMMA OtherDevice ==
    ASSUME BInv, NEW x, IsWorkingTree(x), history' = Append(history, x),
           \A u \in late' : u \in late, NEW e \in Device
    PROVE  /\ TreesInv(history', tree[e], staged[e], st[e], mem[e])
           /\ ProgressInv(history', tree[e], staged[e], st[e], pc[e], mem[e])
<1>1. /\ Len(history) \in Nat /\ Len(history') = Len(history) + 1
      /\ \A i \in 1..Len(history) : history'[i] = history[i]
    BY PublicationBase
<1>2. mem[e].head \in 0..Len(history)
    BY KnownRevision DEF BInv, head
<1>3. /\ TreesInv(history, tree[e], staged[e], st[e], mem[e])
      /\ ProgressInv(history, tree[e], staged[e], st[e], pc[e], mem[e])
    BY DEF BInv, BaseInv
<1>4. Len(history') \in Nat /\ Len(history) <= Len(history')
    BY <1>1
<1> DEFINE k == history'
<1>5. /\ Len(k) \in Nat /\ Len(history) <= Len(k) /\ \A i \in 1..Len(history) : k[i] = history[i]
    BY <1>1, <1>4
<1> HIDE DEF k
<1>6. /\ TreesInv(k, tree[e], staged[e], st[e], mem[e])
      /\ ProgressInv(k, tree[e], staged[e], st[e], pc[e], mem[e])
    BY <1>1, <1>2, <1>3, <1>5, HistoryGrows
<1> QED
    BY <1>6 DEF k

LEMMA PublishHeadBase ==
    ASSUME BInv, IInv', NEW d \in Device, PublishHead(d)
    PROVE  BInv'
<1> DEFINE m == mem[d]
<1>1. /\ history' = Append(history, staged[d]) /\ late' = late
      /\ UNCHANGED <<tree, staged, st>>
      /\ pc'[d] = "finish" /\ mem'[d] = [m EXCEPT !.synced = head + 1]
      /\ \A e \in Device \ {d} : pc'[e] = pc[e] /\ mem'[e] = mem[e]
    BY DEF PublishHead, BInv, IInv, PerDeviceInv, PerDevice, Goto
<1>2. IsWorkingTree(staged[d]) /\ IsMemory(m)
    BY DEF BInv, IInv, DeviceInv, BaseInv, TreesInv
<1>3. /\ PublishedInv' /\ head \in Nat /\ Len(history') = head + 1
      /\ history'[head + 1] = staged[d]
    BY <1>1, <1>2, PublicationBase DEF head
<1>4. /\ mem'[d].local = m.local /\ mem'[d].combined = m.combined
      /\ mem'[d].state = m.state /\ mem'[d].synced = head + 1
    BY <1>1, <1>2 DEF IsMemory
<1>5. TreesInv(history', tree[d], staged[d], st[d], m)
    BY <1>1, <1>2, OtherDevice
<1>6. TreesInv(history', tree[d], staged[d], st[d], mem'[d])
    BY <1>4, <1>5 DEF TreesInv
<1>7. ProgressInv(history', tree[d], staged[d], st[d], "finish", mem'[d])
    <2>1. head + 1 \in 0..Len(history') /\ staged[d] = Revision(history', head + 1)
        BY <1>3 DEF Revision
    <2> QED
        BY <1>4, <2>1 DEF ProgressInv
<1>8. BaseInv(d)'
    BY <1>1, <1>6, <1>7 DEF BaseInv
<1>9. ASSUME NEW e \in Device, e # d PROVE BaseInv(e)'
    BY <1>1, <1>2, <1>9, OtherDevice DEF BaseInv
<1> QED
    BY <1>3, <1>8, <1>9 DEF BInv

LEMMA PublicationRaceBase ==
    ASSUME BInv, IInv', NEW d \in Device, PublicationRace(d)
    PROVE  BInv'
<1>1. /\ UNCHANGED <<serverVars, tree, staged, cache, st>>
      /\ \/ mem' = [mem EXCEPT ![d] = Attempt(d, "Reconcile", 1)] /\ Goto(d, "fetch")
         \/ Return(d)
    BY DEF PublicationRace
<1>2. CASE Return(d)
    BY <1>1, <1>2, ReturnBase DEF BInv, BaseInv, TreesInv
<1>3. CASE mem' = [mem EXCEPT ![d] = Attempt(d, "Reconcile", 1)] /\ Goto(d, "fetch")
    <2>1. /\ OnlyDevice(d) /\ pc'[d] = "fetch" /\ mem'[d] = Attempt(d, "Reconcile", 1)
          /\ UNCHANGED <<history, tree, staged, st>>
        BY <1>1, <1>3 DEF BInv, IInv, PerDeviceInv, PerDevice, Goto, OnlyDevice, serverVars
    <2>2. BaseInv(d)'
        BY <2>1, AttemptBase DEF BaseInv
    <2> QED
        BY <2>1, <2>2, LocalBase
<1> QED
    BY <1>1, <1>2, <1>3

LEMMA FinishSyncBase ==
    ASSUME BInv, IInv', NEW d \in Device, FinishSync(d)
    PROVE  BInv'
<1> DEFINE s == mem[d].state
           state == [complete_pending(s) EXCEPT !.base = staged[d], !.rev = mem[d].synced]
<1>1. /\ UNCHANGED <<serverVars, tree, staged, cache>> /\ Return(d) /\ pc[d] = "finish"
      /\ st' = [st EXCEPT ![d] = state]
    BY DEF FinishSync
<1>2. IsSyncState(s) /\ SavedInv(history, s)
    BY DEF BInv, IInv, DeviceInv, IsMemory, BaseInv, TreesInv
<1>3. IsSyncState(complete_pending(s)) /\ SavedInv(history, complete_pending(s))
    BY <1>2, SavedFields, SyncStateFields DEF complete_pending
<1>4. mem[d].synced \in 0..Len(history) /\ staged[d] = Revision(history, mem[d].synced)
    BY <1>1 DEF BInv, BaseInv, ProgressInv
<1>5. SavedInv(history, state)
    BY <1>3, <1>4, SavedFields
<1> HIDE DEF state
<1>6. st'[d] = state /\ \A e \in Device \ {d} : st'[e] = st[e]
    BY <1>1 DEF BInv, IInv, PerDeviceInv, PerDevice
<1>7. IsWorkingTree(tree'[d]) /\ IsWorkingTree(staged'[d])
    BY <1>1 DEF BInv, BaseInv, TreesInv
<1> QED
    BY <1>1, <1>5, <1>6, <1>7, ReturnBase

LEMMA FetchForDiscardBase ==
    ASSUME BInv, IInv', NEW d \in Device, FetchForDiscard(d)
    PROVE  BInv'
<1> DEFINE m == mem[d]
<1>1. /\ OnlyDevice(d) /\ pc'[d] = "check" /\ UNCHANGED <<history, tree, staged, st>>
      /\ mem'[d] = [m EXCEPT !.head = head, !.combined = ManifestAt(head)]
      /\ m.mode = "DiscardLocal"
    BY DEF FetchForDiscard, BInv, IInv, PerDeviceInv, PerDevice, Goto, OnlyDevice, serverVars
<1>2. /\ IsMemory(m) /\ TreesInv(history, tree[d], staged[d], st[d], m)
    BY DEF BInv, IInv, DeviceInv, BaseInv
<1>3. IsWorkingTree(ManifestAt(head)) /\ ManifestAt(head) = Revision(history, head)
    BY HeadIsNat, KnownRevisionIsTree DEF BInv, IInv
<1>4. /\ mem'[d].local = m.local /\ mem'[d].combined = ManifestAt(head)
      /\ mem'[d].state = m.state /\ mem'[d].head = head /\ mem'[d].mode = m.mode
    BY <1>1, <1>2 DEF IsMemory
<1>5. TreesInv(history, tree[d], staged[d], st[d], mem'[d])
    BY <1>2, <1>3, <1>4 DEF TreesInv
<1>6. ProgressInv(history, tree[d], staged[d], st[d], "check", mem'[d])
    BY <1>1, <1>3, <1>4 DEF ProgressInv, GoalInv
<1>7. BaseInv(d)'
    BY <1>1, <1>5, <1>6 DEF BaseInv
<1> QED
    BY <1>1, <1>7, LocalBase

LEMMA FinishDiscardBase ==
    ASSUME BInv, IInv', NEW d \in Device, FinishDiscard(d)
    PROVE  BInv'
<1> DEFINE state == SyncState(staged[d], mem[d].head, None, EmptyManifest)
<1>1. /\ UNCHANGED <<serverVars, tree, staged, cache>> /\ Return(d) /\ pc[d] = "discarded"
      /\ st' = [st EXCEPT ![d] = state]
    BY DEF FinishDiscard
<1>2. /\ mem[d].head \in 0..Len(history) /\ staged[d] = Revision(history, mem[d].head)
    BY <1>1, KnownRevision DEF BInv, BaseInv, ProgressInv, head
<1>3. SavedInv(history, state)
    BY <1>2, NoRecords DEF SavedInv, SyncState
<1> HIDE DEF state
<1>4. st'[d] = state /\ \A e \in Device \ {d} : st'[e] = st[e]
    BY <1>1 DEF BInv, IInv, PerDeviceInv, PerDevice
<1>5. IsWorkingTree(tree'[d]) /\ IsWorkingTree(staged'[d])
    BY <1>1 DEF BInv, BaseInv, TreesInv
<1> QED
    BY <1>1, <1>3, <1>4, <1>5, ReturnBase

-----------------------------------------------------------------------------
(* The steps of resolve.                                                   *)

\* resolve will save the base it found, and one record less.
LEMMA ResolvingBase ==
    ASSUME BInv, NEW d \in Device, NEW p \in DOMAIN st[d].conflicts, Resolving(d, p)
    PROVE  /\ IsWorkingTree(mem'[d].local) /\ IsWorkingTree(mem'[d].combined)
           /\ SavedInv(history, mem'[d].state) /\ mem'[d].todo = {p}
<1> DEFINE records == st[d].conflicts
           kept == [q \in DOMAIN records \ {p} |-> records[q]]
           state == [st[d] EXCEPT !.conflicts = kept]
<1>1. IsSyncState(st[d]) /\ SavedInv(history, st[d]) /\ RecordsInv(records)
    BY DEF BInv, IInv, DeviceInv, BaseInv, TreesInv, SavedInv
<1>2. RecordsInv(kept)
    <2>1. IsFiniteSet(DOMAIN records \ {p})
        BY <1>1, FS_Subset DEF RecordsInv
    <2>2. DOMAIN kept = DOMAIN records \ {p} /\ \A q \in DOMAIN kept : kept[q] = records[q]
        OBVIOUS
    <2> HIDE DEF kept, records
    <2> QED
        BY <1>1, <2>1, <2>2 DEF RecordsInv
<1>3. SavedInv(history, state)
    <2> HIDE DEF kept
    <2> QED BY <1>1, <1>2, SavedFields
<1>4. mem' = [mem EXCEPT ![d] = [NoCommand EXCEPT !.todo = {p}, !.state = state]]
    BY DEF Resolving
<1> HIDE DEF state
<1>5. mem'[d] = [NoCommand EXCEPT !.todo = {p}, !.state = state]
    BY <1>4 DEF BInv, IInv, PerDeviceInv, PerDevice
<1>6. /\ mem'[d].local = EmptyManifest /\ mem'[d].combined = EmptyManifest
      /\ mem'[d].state = state /\ mem'[d].todo = {p}
    BY <1>5 DEF NoCommand
<1> QED
    BY <1>3, <1>6, EmptyIsWorkingTree

LEMMA ResolveStepBase ==
    ASSUME BInv, IInv', NEW d \in Device, NEW p \in DOMAIN st[d].conflicts, Resolving(d, p),
           NEW after, IsWorkingTree(after), tree' = [tree EXCEPT ![d] = after],
           NEW label \in {"resolved", "rename"}, Goto(d, label),
           UNCHANGED <<serverVars, staged, cache, st>>
    PROVE  BInv'
<1>1. /\ OnlyDevice(d) /\ tree'[d] = after /\ pc'[d] = label /\ history' = history
    BY DEF BInv, IInv, PerDeviceInv, PerDevice, Goto, Resolving, OnlyDevice, serverVars
<1>2. IsWorkingTree(staged[d]) /\ SavedInv(history, st[d])
    BY DEF BInv, BaseInv, TreesInv
<1>3. TreesInv(history, after, staged[d], st[d], mem'[d])
    BY <1>2, ResolvingBase DEF TreesInv
<1>4. ProgressInv(history, after, staged[d], st[d], label, mem'[d])
    BY ResolvingBase DEF ProgressInv
<1>5. BaseInv(d)'
    BY <1>1, <1>3, <1>4 DEF BaseInv
<1> QED
    BY <1>1, <1>5, LocalBase

\* What a record names are paths.
LEMMA RecordPaths ==
    ASSUME BInv, NEW d \in Device, NEW p \in DOMAIN st[d].conflicts
    PROVE  /\ p \in Path /\ st[d].conflicts[p].copy \in Path
           /\ IsCopyName(p, st[d].conflicts[p].copy)
BY DEF BInv, BaseInv, TreesInv, SavedInv, RecordsInv, IsCopyName

LEMMA ResolveKeepLocalBase ==
    ASSUME BInv, IInv', NEW d \in Device, ResolveKeepLocal(d)
    PROVE  BInv'
<1> DEFINE after(p) == IF st[d].conflicts[p].remote_deleted THEN tree[d]
                       ELSE RemovePath(tree[d], st[d].conflicts[p].copy)
<1>1. PICK p \in DOMAIN st[d].conflicts :
        Resolving(d, p) /\ tree' = [tree EXCEPT ![d] = after(p)]
    BY DEF ResolveKeepLocal
<1>2. Goto(d, "resolved") /\ UNCHANGED <<serverVars, staged, cache, st>>
    BY DEF ResolveKeepLocal
<1>3. IsWorkingTree(tree[d])
    BY DEF BInv, BaseInv, TreesInv
<1>4. IsWorkingTree(after(p))
    BY <1>3, RecordPaths, RemoveIsWorkingTree
<1> HIDE DEF after
<1> QED
    BY <1>1, <1>2, <1>4, ResolveStepBase

LEMMA ResolveKeepRemoteBase ==
    ASSUME BInv, IInv', NEW d \in Device, ResolveKeepRemote(d)
    PROVE  BInv'
<1>1. PICK p \in DOMAIN st[d].conflicts :
        /\ Resolving(d, p)
        /\ tree' = [tree EXCEPT ![d] = RemovePath(tree[d], p)]
        /\ Goto(d, IF st[d].conflicts[p].remote_deleted THEN "resolved" ELSE "rename")
    BY DEF ResolveKeepRemote
<1>2. UNCHANGED <<serverVars, staged, cache, st>>
    BY DEF ResolveKeepRemote
<1>3. IsWorkingTree(RemovePath(tree[d], p))
    BY RecordPaths, RemoveIsWorkingTree DEF BInv, BaseInv, TreesInv
<1>4. Goto(d, "resolved") \/ Goto(d, "rename")
    BY <1>1
<1> QED
    BY <1>1, <1>2, <1>3, <1>4, ResolveStepBase

LEMMA ResolveRenameBase ==
    ASSUME BInv, IInv', NEW d \in Device, ResolveRename(d)
    PROVE  BInv'
<1> DEFINE copy(p) == st[d].conflicts[p].copy
<1>1. /\ UNCHANGED <<serverVars, staged, cache, st>> /\ pc[d] = "rename"
      /\ \E p \in mem[d].todo :
            \/ /\ CanRename(tree[d], copy(p), p)
               /\ tree' = [tree EXCEPT ![d] = Renamed(tree[d], copy(p), p)]
               /\ Goto(d, "resolved") /\ UNCHANGED mem
            \/ Return(d) /\ UNCHANGED tree
    BY DEF ResolveRename
<1>2. PICK p \in mem[d].todo :
            \/ /\ CanRename(tree[d], copy(p), p)
               /\ tree' = [tree EXCEPT ![d] = Renamed(tree[d], copy(p), p)]
               /\ Goto(d, "resolved") /\ UNCHANGED mem
            \/ Return(d) /\ UNCHANGED tree
    BY <1>1
<1>3. CASE Return(d) /\ UNCHANGED tree
    BY <1>1, <1>3, ReturnBase DEF BInv, BaseInv, TreesInv
<1>4. CASE /\ CanRename(tree[d], copy(p), p)
           /\ tree' = [tree EXCEPT ![d] = Renamed(tree[d], copy(p), p)]
           /\ Goto(d, "resolved") /\ UNCHANGED mem
    <2>1. p \in DOMAIN st[d].conflicts
        BY <1>1 DEF BInv, BaseInv, ProgressInv
    <2>2. IsWorkingTree(tree[d])
        BY DEF BInv, BaseInv, TreesInv
    <2>3. IsWorkingTree(Renamed(tree[d], copy(p), p))
        BY <1>4, <2>1, <2>2, RecordPaths, RenamedIsWorkingTree
    <2> HIDE DEF copy
    <2>4. /\ OnlyDevice(d) /\ pc'[d] = "resolved" /\ history' = history
          /\ tree'[d] = Renamed(tree[d], copy(p), p)
        BY <1>1, <1>4 DEF BInv, IInv, PerDeviceInv, PerDevice, Goto, OnlyDevice, serverVars
    <2>5. BaseInv(d)'
        BY <1>1, <1>4, <2>3, <2>4 DEF BInv, BaseInv, TreesInv, ProgressInv
    <2> QED
        BY <2>4, <2>5, LocalBase
<1> QED
    BY <1>2, <1>3, <1>4

LEMMA ResolveSaveBase ==
    ASSUME BInv, IInv', NEW d \in Device, ResolveSave(d)
    PROVE  BInv'
<1>1. /\ st'[d] = mem[d].state /\ \A e \in Device \ {d} : st'[e] = st[e]
      /\ UNCHANGED <<serverVars, tree, staged, cache>> /\ Return(d)
    BY DEF ResolveSave, BInv, IInv, PerDeviceInv, PerDevice
<1>2. SavedInv(history, mem[d].state) /\ IsWorkingTree(tree[d]) /\ IsWorkingTree(staged[d])
    BY DEF BInv, BaseInv, TreesInv
<1> QED
    BY <1>1, <1>2, ReturnBase

-----------------------------------------------------------------------------
(* The steps of the environment.                                           *)

LEMMA InterruptBase ==
    ASSUME BInv, IInv', NEW d \in Device, Interrupt(d)
    PROVE  BInv'
<1>1. Return(d) /\ UNCHANGED <<serverVars, tree, staged, cache, st>>
    BY DEF Interrupt
<1> QED
    BY <1>1, ReturnBase DEF BInv, BaseInv, TreesInv

\* What is under way to the server is a tree.
LEMMA TimeOutBase ==
    ASSUME BInv, IInv', NEW d \in Device, TimeOut(d)
    PROVE  BInv'
<1> DEFINE update == [expected |-> mem[d].head, manifest |-> staged[d], base |-> st[d].base]
<1>1. /\ late' = late \cup {update} /\ history' = history
      /\ UNCHANGED <<tree, staged, cache, st>> /\ Return(d)
    BY DEF TimeOut
<1>2. TreesInv(history, tree[d], staged[d], st[d], mem[d])
    BY DEF BInv, BaseInv
<1>3. IsWorkingTree(update.manifest)
    BY <1>2 DEF TreesInv
<1> HIDE DEF update
<1>4. PublishedInv'
    BY <1>1, <1>3 DEF BInv, PublishedInv
<1>5. /\ pc'[d] = "idle" /\ mem'[d] = NoCommand
      /\ \A e \in Device \ {d} : pc'[e] = pc[e] /\ mem'[e] = mem[e]
    BY <1>1 DEF BInv, IInv, PerDeviceInv, PerDevice, Return, Goto
<1>6. TreesInv(history, tree[d], staged[d], st[d], NoCommand)
    BY <1>2, EmptyIsWorkingTree, DefaultSaved DEF TreesInv, NoCommand
<1>7. ProgressInv(history, tree[d], staged[d], st[d], "idle", NoCommand)
    BY DEF ProgressInv
<1>8. BaseInv(d)'
    BY <1>1, <1>5, <1>6, <1>7 DEF BaseInv
<1>9. ASSUME NEW e \in Device, e # d PROVE BaseInv(e)'
    BY <1>1, <1>5, <1>9 DEF BInv, BaseInv
<1> QED
    BY <1>4, <1>8, <1>9 DEF BInv

LEMMA LateUpdateBase ==
    ASSUME BInv, IInv', LateUpdate
    PROVE  BInv'
<1>1. PICK update \in late :
        /\ late' = late \ {update}
        /\ \/ history' = Append(history, update.manifest)
           \/ history' = history
    BY DEF LateUpdate
<1>2. UNCHANGED <<tree, staged, st, pc, mem>>
    BY DEF LateUpdate, deviceVars
<1>3. IsWorkingTree(update.manifest)
    BY DEF BInv, PublishedInv
<1>4. CASE history' = Append(history, update.manifest)
    <2>1. PublishedInv'
        BY <1>1, <1>3, <1>4, PublicationBase
    <2>2. ASSUME NEW e \in Device PROVE BaseInv(e)'
        BY <1>1, <1>2, <1>3, <1>4, OtherDevice DEF BaseInv
    <2> QED
        BY <2>1, <2>2 DEF BInv
<1>5. CASE history' = history
    <2>1. PublishedInv'
        BY <1>1, <1>5 DEF BInv, PublishedInv
    <2>2. ASSUME NEW e \in Device PROVE BaseInv(e)'
        BY <1>2, <1>5 DEF BInv, BaseInv
    <2> QED
        BY <2>1, <2>2 DEF BInv
<1> QED
    BY <1>1, <1>4, <1>5

\* Users leave trees behind.  They may edit at any time but while files are applied.
LEMMA UserEditBase ==
    ASSUME ~LateEdits, BInv, IInv', NEW d \in Device, UserEdit(d)
    PROVE  BInv'
<1> DEFINE edited(p) == {WriteEntry(tree[d], p, e) : e \in UserEntries[p]}
                            \cup {RemovePath(tree[d], p)}
<1>0. PICK p \in DOMAIN UserEntries : \E after \in edited(p) :
            IsTree(after) /\ tree' = [tree EXCEPT ![d] = after]
    BY DEF UserEdit
<1>1. PICK after \in edited(p) : IsTree(after) /\ tree' = [tree EXCEPT ![d] = after]
    BY <1>0
<1>2. /\ UserEntries[p] \subseteq Entry /\ p \in Path
    BY WorkflowAssumption DEF Entry
<1>3. IsWorkingTree(tree[d])
    BY DEF BInv, BaseInv, TreesInv
<1>4. IsWorkingTree(after)
    <2>1. CASE after = RemovePath(tree[d], p)
        BY <1>2, <1>3, <2>1, RemoveIsWorkingTree
    <2>2. CASE \E e \in UserEntries[p] : after = WriteEntry(tree[d], p, e)
        <3>1. PICK e \in Entry : after = WriteEntry(tree[d], p, e)
            BY <1>2, <2>2
        <3> QED
            BY <1>1, <1>2, <1>3, <3>1, WriteIsFinite DEF IsWorkingTree
    <2> QED
        BY <2>1, <2>2
<1> HIDE DEF edited
<1>5. /\ UNCHANGED <<serverVars, staged, cache, st, pc, mem>>
      /\ pc[d] \notin {"walk", "apply", "restage"}
    BY DEF UserEdit, ApplyWindow
<1>6. OnlyDevice(d) /\ tree'[d] = after /\ history' = history
    BY <1>1, <1>5 DEF BInv, IInv, PerDeviceInv, PerDevice, OnlyDevice, serverVars
<1>7. /\ TreesInv(history, tree[d], staged[d], st[d], mem[d])
      /\ ProgressInv(history, tree[d], staged[d], st[d], pc[d], mem[d])
    BY DEF BInv, BaseInv
<1>8. TreesInv(history, after, staged[d], st[d], mem[d])
    BY <1>4, <1>7 DEF TreesInv
<1>9. ProgressInv(history, after, staged[d], st[d], pc[d], mem[d])
    BY <1>5, <1>7 DEF ProgressInv
<1>10. BaseInv(d)'
    BY <1>5, <1>6, <1>8, <1>9 DEF BaseInv
<1> QED
    BY <1>6, <1>10, LocalBase

LEMMA StutterBase ==
    ASSUME BInv, IInv', UNCHANGED vars
    PROVE  BInv'
BY DEF BInv, PublishedInv, BaseInv, vars, serverVars, deviceVars

LEMMA NextBase ==
    ASSUME ~LateEdits
    PROVE  BInv /\ [Next]_vars => BInv'
<1> SUFFICES ASSUME BInv, [Next]_vars PROVE BInv'
    OBVIOUS
<1>1. IInv'
    BY NextInv DEF BInv
<1>2. ASSUME NEW d \in Device, SyncStep(d) PROVE BInv'
    BY <1>1, <1>2, FetchAndPlanBase, RecordUnchangedBase, StageLocalBase,
       CombineManifestsBase, BeginApplyBase, WalkTreeBase, ApplyRemoveBase, ApplyWriteBase,
       ApplyDoneBase, RestageBase, PublishHeadBase, PublicationRaceBase, FinishSyncBase,
       FetchForDiscardBase, FinishDiscardBase, ResolveRenameBase, ResolveSaveBase
    DEF SyncStep
<1> QED
    BY <1>1, <1>2, ScanLocalBase, ResolveKeepLocalBase, ResolveKeepRemoteBase, InterruptBase,
       TimeOutBase, UserEditBase, LateUpdateBase, StutterBase
    DEF Next

-----------------------------------------------------------------------------
\* sync_attempt, discard_local and resolve keep the base in sync-state.json equal to the
\* manifest the server has under the revision that is saved with it, whatever is
\* interrupted, times out or is published by others meanwhile, as long as nobody edits
\* files between the last look at them and the scan after they were applied.
THEOREM SavedBaseIsPublished ==
    ASSUME ~LateEdits
    PROVE  Spec => []BaseIsPublished
<1>1. BInv => BaseIsPublished
    <2> SUFFICES ASSUME BInv, NEW d \in Device, st[d].base # None
                 PROVE  st[d].rev \in 0..head /\ st[d].base = ManifestAt(st[d].rev)
        BY DEF BaseIsPublished
    <2>1. SavedInv(history, st[d])
        BY DEF BInv, BaseInv, TreesInv
    <2> QED
        BY <2>1 DEF SavedInv, Revision, ManifestAt, head
<1>2. BInv /\ [Next]_vars => BInv'
    BY NextBase
<1> QED
    BY <1>1, <1>2, InitBase, PTL DEF Spec

\* What apply_pulled_manifest is given is never refused by validate_manifest_paths, and
\* when it is done the files are exactly that manifest: no directory stays behind because
\* something was still in it.
AppliedAsPlanned ==
    \A d \in Device :
        /\ pc[d] = "walk" => ValidPaths(mem[d].combined)
        /\ pc[d] = "restage" => tree[d] = mem[d].combined

\* The files a command applies can be applied, and are, whatever local files,
\* directories and conflict copies they are combined with.
THEOREM ManifestIsApplied ==
    ASSUME ~LateEdits
    PROVE  Spec => []AppliedAsPlanned
<1>1. BInv => AppliedAsPlanned
    <2> SUFFICES ASSUME BInv, NEW d \in Device
                 PROVE  /\ ValidPaths(mem[d].combined)
                        /\ pc[d] = "restage" => tree[d] = mem[d].combined
        BY DEF AppliedAsPlanned
    <2>1. IsWorkingTree(mem[d].combined)
        BY DEF BInv, BaseInv, TreesInv
    <2>2. ASSUME NEW p \in DOMAIN mem[d].combined, NEW q \in DOMAIN mem[d].combined, Below(p, q)
          PROVE  mem[d].combined[p] = Directory
        <3>1. p \in Path /\ get(mem[d].combined, q) # None
            BY <2>1, ValueAssumption DEF get, IsWorkingTree, IsManifest
        <3> QED
            BY <2>1, <2>2, <3>1, AboveIsDirectory
    <2> QED
        BY <2>2 DEF BInv, BaseInv, ProgressInv, ValidPaths
<1>2. BInv /\ [Next]_vars => BInv'
    BY NextBase
<1> QED
    BY <1>1, <1>2, InitBase, PTL DEF Spec

-----------------------------------------------------------------------------
(* EditsPreserved and NoLostUpdate, as long as moreover no command stops   *)
(* while it applies files and no `resolve --keep-remote` renames a copy.   *)
(* A rename takes a content off the path of a copy, where another device   *)
(* that made the same copy may still look for it: with four devices the    *)
(* content can then be lost, so the hypothesis cannot be left out.         *)
(*                                                                         *)
(* The inductive invariant says where the files of every manifest went:    *)
(* each revision keeps the files of the earlier ones, and a device keeps   *)
(* those of its base, at their paths, at the paths of copies, or given up. *)

\* No device is about to rename a copy.
NoRename == \A d \in Device : pc[d] # "rename"

HistoryKept(h, given) ==
    \A r, s \in 0..Len(h) : r <= s => Kept(Revision(h, r), Revision(h, s), given)

LateKept(h, updates, given) ==
    \A u \in updates : Kept(Revision(h, u.expected), u.manifest, given)

\* From the plan to the scan of what was applied.
Working == {"unchanged", "stage", "combine", "check", "walk", "apply", "restage"}

\* A command goes on from the saved base, which is not newer than the head it has read.
CommandInv(s, label, m) ==
    /\ label \in Working \cup {"fetch", "rename", "resolved"} =>
        m.state.base = s.base /\ m.state.rev = s.rev
    /\ (label \in Working /\ s.base # None) => s.rev <= m.head

\* What was read, applied, staged and saved is still among the files.
FilesInv(h, files, manifest, s, label, m, given) ==
    /\ label \notin {"apply", "restage"} => Kept(Base(s), files, given)
    /\ label \in Working \cup {"fetch"} => Kept(Base(s), m.local, given)
    /\ label = "restage" => Kept(Revision(h, m.head), files, given)
    /\ label = "publish" => Kept(Revision(h, m.head), manifest, given)
    /\ label \in {"publish", "finish", "discarded"} => Kept(manifest, files, given)

\* What the combined manifest keeps of the two sides, apart from what it merges.
PlanKept(base, local, remote, combined, given) ==
    LET sides == given \cup MergedSides(base, local, remote, combined) IN
    /\ Merging(base, local, remote) \subseteq DOMAIN combined
    /\ Kept(remote, combined, sides)
    /\ \A p \in DOMAIN local : (IsFile(local[p]) /\ get(combined, p) # local[p]) =>
            local[p] \in sides \cup Contents(remote)

\* What is to be done has not been touched, and what was merged is given up when done.
TodoKept(base, local, remote, combined, files, todo, given) ==
    /\ \A p \in todo : get(files, p) = get(local, p)
    /\ \A p \in Merging(base, local, remote) :
            p \in todo \/ Sides(local, remote, combined, p) \subseteq given

PlanInv(h, files, label, m, given) ==
    (label \in {"check", "walk", "apply"} /\ m.mode # "DiscardLocal") =>
        /\ PlanKept(Base(m.state), m.local, Revision(h, m.head), m.combined, given)
        /\ label = "walk" => files = m.local
        /\ label = "apply" => TodoKept(Base(m.state), m.local, Revision(h, m.head),
                                       m.combined, files, m.todo, given)

DeviceEdits(h, files, manifest, s, label, m, given) ==
    /\ CommandInv(s, label, m)
    /\ FilesInv(h, files, manifest, s, label, m, given)
    /\ PlanInv(h, files, label, m, given)

EditInv(d) == DeviceEdits(history, tree[d], staged[d], st[d], pc[d], mem[d], superseded)

EInv ==
    /\ HistoryKept(history, superseded)
    /\ LateKept(history, late, superseded)
    /\ \A d \in Device : EditInv(d)
    /\ EditsPreserved

-----------------------------------------------------------------------------
(* What does not depend on the step.                                       *)

LEMMA PlanKeptWithMore ==
    ASSUME NEW base, NEW local, NEW remote, NEW combined, NEW given, NEW more,
           given \subseteq more, PlanKept(base, local, remote, combined, given)
    PROVE  PlanKept(base, local, remote, combined, more)
<1> DEFINE merged == MergedSides(base, local, remote, combined)
<1>1. given \cup merged \subseteq more \cup merged
    OBVIOUS
<1> HIDE DEF merged
<1>2. Kept(remote, combined, more \cup merged)
    BY <1>1, KeptWithMore DEF PlanKept, merged
<1> QED
    BY <1>1, <1>2 DEF PlanKept, merged

\* What a device has kept stays kept when more is given up.
LEMMA EditsWithMore ==
    ASSUME NEW h, NEW files, NEW manifest, NEW s, NEW label, NEW m, NEW given, NEW more,
           given \subseteq more, DeviceEdits(h, files, manifest, s, label, m, given)
    PROVE  DeviceEdits(h, files, manifest, s, label, m, more)
<1>1. FilesInv(h, files, manifest, s, label, m, more)
    BY KeptWithMore DEF DeviceEdits, FilesInv
<1>2. PlanInv(h, files, label, m, more)
    BY PlanKeptWithMore DEF DeviceEdits, PlanInv, TodoKept
<1> QED
    BY <1>1, <1>2 DEF DeviceEdits

\* ... and when others publish.
LEMMA EditsHistoryGrows ==
    ASSUME NEW h, NEW k, Len(h) \in Nat, \A i \in 1..Len(h) : k[i] = h[i],
           NEW files, NEW manifest, NEW s, NEW label, NEW m, NEW given, m.head \in 0..Len(h),
           DeviceEdits(h, files, manifest, s, label, m, given)
    PROVE  DeviceEdits(k, files, manifest, s, label, m, given)
<1>1. Revision(k, m.head) = Revision(h, m.head)
    <2>1. m.head = 0 \/ m.head \in 1..Len(h)
        OBVIOUS
    <2> QED BY <2>1 DEF Revision
<1> QED
    BY <1>1 DEF DeviceEdits, FilesInv, PlanInv

LEMMA BaseKept ==
    ASSUME NEW s, NEW files, NEW given, s.base = None \/ Kept(s.base, files, given)
    PROVE  Kept(Base(s), files, given)
BY EmptyIsKept DEF Base

\* The files a change takes away are the ones it replaces.
LEMMA ReplacedContents ==
    ASSUME NEW files, NEW after
    PROVE  /\ Contents(files) \subseteq Contents(after) \cup Replaced(files, after)
           /\ \A p \in DOMAIN files :
                (IsFile(files[p]) /\ get(after, p) # files[p]) => files[p] \in Replaced(files, after)
BY DEF Contents, Replaced, get, IsFile

\* What some revision had, the head has, or it was given up.
LEMMA HeadKeeps ==
    ASSUME BInv, EInv, NEW r \in 0..head
    PROVE  /\ Kept(Revision(history, r), ManifestAt(head), superseded)
           /\ Contents(Revision(history, r)) \subseteq Contents(ManifestAt(head)) \cup superseded
<1>1. head \in Nat /\ head = Len(history) /\ ManifestAt(head) = Revision(history, head)
    BY HeadIsNat DEF BInv, IInv, head, ManifestAt, Revision
<1>2. Kept(Revision(history, r), Revision(history, head), superseded)
    BY <1>1 DEF EInv, HistoryKept
<1> QED
    BY <1>1, <1>2, KeptContents

\* A step of one device, whatever it does: nothing that was on its disk is lost.
LEMMA LocalEdits ==
    ASSUME BInv, EInv, NEW d \in Device, OnlyDevice(d), superseded \subseteq superseded',
           EditInv(d)', authored' \subseteq authored \cup Contents(tree'[d]),
           Contents(tree[d]) \subseteq
                Contents(tree'[d]) \cup superseded' \cup Contents(ManifestAt(head))
    PROVE  EInv'
<1>1. history' = history /\ late' = late
    BY DEF OnlyDevice, serverVars
<1>2. HistoryKept(history', superseded') /\ LateKept(history', late', superseded')
    BY <1>1, KeptWithMore DEF EInv, HistoryKept, LateKept
<1>3. ASSUME NEW e \in Device, e # d PROVE EditInv(e)'
    <2>1. DeviceEdits(history, tree[e], staged[e], st[e], pc[e], mem[e], superseded)
        BY DEF EInv, EditInv
    <2>2. DeviceEdits(history, tree[e], staged[e], st[e], pc[e], mem[e], superseded')
        BY <2>1, EditsWithMore
    <2> QED
        BY <1>1, <1>3, <2>2 DEF EditInv, OnlyDevice
<1>4. EditsPreserved'
    <2> SUFFICES ASSUME NEW c \in authored' \ superseded'
                 PROVE  \/ c \in Contents(ManifestAt(head)')
                        \/ \E e \in Device : c \in Contents(tree'[e])
        BY DEF EditsPreserved
    <2>1. ManifestAt(head)' = ManifestAt(head)
        BY <1>1 DEF ManifestAt, head
    <2>2. CASE c \in Contents(tree'[d])
        BY <2>2
    <2>3. CASE c \notin Contents(tree'[d])
        <3>1. c \in authored \ superseded
            BY <2>3
        <3>2. CASE c \in Contents(ManifestAt(head))
            BY <2>1, <3>2
        <3>3. CASE \E e \in Device : c \in Contents(tree[e])
            <4>1. PICK e \in Device : c \in Contents(tree[e])
                BY <3>3
            <4>2. CASE e = d
                BY <2>1, <2>3, <4>1, <4>2
            <4>3. CASE e # d
                BY <4>1, <4>3 DEF OnlyDevice
            <4> QED BY <4>2, <4>3
        <3> QED
            BY <3>1, <3>2, <3>3 DEF EInv, EditsPreserved
    <2> QED BY <2>2, <2>3
<1>5. \A e \in Device : EditInv(e)'
    BY <1>3
<1> QED
    BY <1>2, <1>4, <1>5 DEF EInv

\* A step of a command that leaves its device's files, and what was given up, alone.
LEMMA QuietEdits ==
    ASSUME BInv, EInv, NEW d \in Device, OnlyDevice(d), tree'[d] = tree[d],
           UNCHANGED <<authored, superseded>>,
           DeviceEdits(history, tree[d], staged'[d], st'[d], pc'[d], mem'[d], superseded)
    PROVE  EInv'
<1>1. EditInv(d)'
    BY DEF EditInv, OnlyDevice, serverVars
<1> QED
    BY <1>1, LocalEdits

\* A command that ends leaves the files of its base behind.
LEMMA ReturnEdits ==
    ASSUME BInv, EInv, NEW d \in Device, UNCHANGED <<serverVars, tree, authored, superseded>>,
           Return(d), BInv',
           \A e \in Device \ {d} : staged'[e] = staged[e] /\ cache'[e] = cache[e] /\ st'[e] = st[e],
           Kept(Base(st'[d]), tree[d], superseded)
    PROVE  EInv'
<1>1. OnlyDevice(d) /\ mem'[d] = NoCommand /\ pc'[d] = "idle"
    BY DEF BInv, IInv, PerDeviceInv, PerDevice, Return, Goto, OnlyDevice
<1>2. DeviceEdits(history, tree[d], staged'[d], st'[d], "idle", NoCommand, superseded)
    BY DEF DeviceEdits, CommandInv, FilesInv, PlanInv, Working
<1> QED
    BY <1>1, <1>2, QuietEdits

LEMMA InitEdits == Init => EInv
<1> SUFFICES ASSUME Init PROVE EInv
    OBVIOUS
<1>1. PICK seed \in Seeds :
        /\ history = IF seed = EmptyManifest THEN <<>> ELSE <<seed>>
        /\ late = {}
        /\ tree = [d \in Device |-> seed]
        /\ st = [d \in Device |->
                    IF seed = EmptyManifest THEN DefaultState
                    ELSE SyncState(seed, 1, None, EmptyManifest)]
        /\ pc = [d \in Device |-> "idle"]
        /\ authored = Contents(seed)
    BY DEF Init
<1>2. Len(history) \in {0, 1} /\ ManifestAt(head) = seed
    BY <1>1 DEF ManifestAt, head
<1>3. HistoryKept(history, superseded)
    <2> SUFFICES ASSUME NEW r \in 0..Len(history), NEW s \in 0..Len(history), r <= s
                 PROVE  Kept(Revision(history, r), Revision(history, s), superseded)
        BY DEF HistoryKept
    <2>1. r \in Nat /\ s \in Nat /\ s <= 1
        <3>1. CASE Len(history) = 0
            BY <3>1
        <3>2. CASE Len(history) = 1
            BY <3>2
        <3> QED BY <1>2, <3>1, <3>2
    <2>2. r = 0 \/ r = s
        BY <2>1
    <2> QED
        BY <2>2, KeptAtOnce, EmptyIsKept DEF Revision
<1>4. ASSUME NEW d \in Device PROVE EditInv(d)
    <2>1. tree[d] = seed /\ pc[d] = "idle"
        BY <1>1
    <2>2. st[d].base = None \/ st[d].base = seed
        BY <1>1 DEF DefaultState, SyncState
    <2>3. Kept(Base(st[d]), seed, superseded)
        BY <2>2, BaseKept, KeptAtOnce
    <2> QED
        BY <2>1, <2>3 DEF EditInv, DeviceEdits, CommandInv, FilesInv, PlanInv, Working
<1> QED
    BY <1>1, <1>2, <1>3, <1>4 DEF EInv, LateKept, EditsPreserved

-----------------------------------------------------------------------------
(* The steps of a sync keep the edits.                                     *)

\* What the invariant says of a device.
LEMMA DeviceKeeps ==
    ASSUME EInv, NEW d \in Device
    PROVE  /\ CommandInv(st[d], pc[d], mem[d])
           /\ FilesInv(history, tree[d], staged[d], st[d], pc[d], mem[d], superseded)
           /\ PlanInv(history, tree[d], pc[d], mem[d], superseded)
BY DEF EInv, EditInv, DeviceEdits

LEMMA AttemptEdits ==
    ASSUME BInv, EInv, BInv', NEW d \in Device, NEW mode, NEW retry,
           mem' = [mem EXCEPT ![d] = Attempt(d, mode, retry)], Goto(d, "fetch"),
           pc[d] \notin {"apply", "restage"},
           UNCHANGED <<serverVars, tree, staged, cache, st, auxVars>>
    PROVE  EInv'
<1>1. /\ OnlyDevice(d) /\ mem'[d] = Attempt(d, mode, retry) /\ pc'[d] = "fetch"
      /\ UNCHANGED <<tree, staged, st, authored, superseded>>
    BY DEF BInv, IInv, PerDeviceInv, PerDevice, Goto, OnlyDevice, auxVars
<1>2. mem'[d].local = tree[d] /\ mem'[d].state = st[d]
    BY <1>1 DEF Attempt
<1>3. Kept(Base(st[d]), tree[d], superseded)
    BY DeviceKeeps DEF FilesInv
<1>4. DeviceEdits(history, tree[d], staged[d], st[d], "fetch", mem'[d], superseded)
    BY <1>2, <1>3 DEF DeviceEdits, CommandInv, FilesInv, PlanInv, Working
<1> QED
    BY <1>1, <1>4, QuietEdits

LEMMA ScanLocalEdits ==
    ASSUME BInv, EInv, BInv', NEW d \in Device, ScanLocal(d)
    PROVE  EInv'
<1>1. PICK mode \in Modes : mem' = [mem EXCEPT ![d] = Attempt(d, mode, 0)]
    BY DEF ScanLocal
<1>2. /\ Goto(d, "fetch") /\ pc[d] = "idle"
      /\ UNCHANGED <<serverVars, tree, staged, cache, st, auxVars>>
    BY DEF ScanLocal
<1> QED
    BY <1>1, <1>2, AttemptEdits

LEMMA FetchAndPlanEdits ==
    ASSUME BInv, EInv, BInv', NEW d \in Device, FetchAndPlan(d)
    PROVE  EInv'
<1> DEFINE m == mem[d]
           state == begin_pending(m.state, "Planning")
<1>1. /\ IsMemory(m) /\ IsSyncState(m.state) /\ pc[d] = "fetch"
      /\ SavedInv(history, st[d]) /\ head = Len(history)
    BY DEF FetchAndPlan, BInv, IInv, DeviceInv, IsMemory, BaseInv, TreesInv, head
<1>2. state.base = m.state.base /\ state.rev = m.state.rev
    BY <1>1 DEF begin_pending, IsSyncState, SyncState
<1> HIDE DEF state
<1>3. /\ UNCHANGED <<serverVars, tree, staged, cache, auxVars>>
      /\ \/ /\ mem' = [mem EXCEPT ![d].head = head] /\ Goto(d, "unchanged") /\ UNCHANGED st
         \/ /\ mem' = [mem EXCEPT ![d].head = head, ![d].state = state]
            /\ Goto(d, "stage") /\ st' = [st EXCEPT ![d] = state]
    BY DEF FetchAndPlan, state
<1>4. /\ OnlyDevice(d) /\ UNCHANGED <<tree, staged, authored, superseded>>
      /\ \/ /\ mem'[d] = [m EXCEPT !.head = head]
            /\ pc'[d] = "unchanged" /\ st'[d] = st[d]
         \/ /\ mem'[d] = [m EXCEPT !.head = head, !.state = state]
            /\ pc'[d] = "stage" /\ st'[d] = state
    BY <1>3 DEF BInv, IInv, PerDeviceInv, PerDevice, Goto, OnlyDevice, auxVars
<1>5. /\ mem'[d].local = m.local /\ mem'[d].head = head
      /\ mem'[d].state.base = m.state.base /\ mem'[d].state.rev = m.state.rev
      /\ st'[d].base = st[d].base /\ st'[d].rev = st[d].rev
      /\ pc'[d] \in {"unchanged", "stage"}
    <2>1. m.state.base = st[d].base /\ m.state.rev = st[d].rev
        BY <1>1, DeviceKeeps DEF CommandInv
    <2> QED
        BY <1>1, <1>2, <1>4, <2>1 DEF IsMemory
<1>6. /\ m.state.base = st[d].base /\ m.state.rev = st[d].rev
      /\ Kept(Base(st[d]), tree[d], superseded) /\ Kept(Base(st[d]), m.local, superseded)
    BY <1>1, DeviceKeeps DEF CommandInv, FilesInv
<1>7. Base(st'[d]) = Base(st[d])
    BY <1>5 DEF Base
<1>8. st[d].base # None => st[d].rev <= head
    BY <1>1 DEF SavedInv
<1>9. DeviceEdits(history, tree[d], staged[d], st'[d], pc'[d], mem'[d], superseded)
    BY <1>5, <1>6, <1>7, <1>8 DEF DeviceEdits, CommandInv, FilesInv, PlanInv, Working
<1> QED
    BY <1>4, <1>9, QuietEdits

LEMMA RecordUnchangedEdits ==
    ASSUME BInv, EInv, BInv', NEW d \in Device, RecordUnchanged(d)
    PROVE  EInv'
<1> DEFINE s == mem[d].state
           state == [complete_pending(s) EXCEPT !.base = tree[d], !.rev = mem[d].head]
<1>1. IsSyncState(s)
    BY DEF BInv, IInv, DeviceInv, IsMemory
<1>2. state.base = tree[d]
    BY <1>1 DEF complete_pending, IsSyncState, SyncState
<1> HIDE DEF state
<1>3. /\ UNCHANGED <<serverVars, tree, authored, superseded>> /\ Return(d) /\ stage_all(d)
      /\ pc[d] = "unchanged"
      /\ st' = st \/ st' = [st EXCEPT ![d] = state]
    BY DEF RecordUnchanged, auxVars, state
<1>4. \A e \in Device \ {d} : staged'[e] = staged[e] /\ cache'[e] = cache[e] /\ st'[e] = st[e]
    BY <1>3, StageBase DEF BInv, IInv, PerDeviceInv, PerDevice
<1>5. Kept(Base(st'[d]), tree[d], superseded)
    <2>1. st'[d] = st[d] \/ st'[d] = state
        BY <1>3 DEF BInv, IInv, PerDeviceInv, PerDevice
    <2>2. Kept(Base(st[d]), tree[d], superseded)
        BY <1>3, DeviceKeeps DEF FilesInv
    <2>3. Kept(Base(state), tree[d], superseded)
        BY <1>2, BaseKept, KeptAtOnce
    <2> QED
        BY <2>1, <2>2, <2>3
<1> QED
    BY <1>3, <1>4, <1>5, ReturnEdits

LEMMA StageLocalEdits ==
    ASSUME BInv, EInv, BInv', NEW d \in Device, StageLocal(d)
    PROVE  EInv'
<1>1. /\ UNCHANGED <<serverVars, tree, st, authored, superseded>> /\ stage_all(d)
      /\ pc[d] = "stage"
      /\ (Goto(d, "combine") /\ UNCHANGED mem) \/ Return(d)
    BY DEF StageLocal, auxVars
<1>2. \A e \in Device \ {d} : staged'[e] = staged[e] /\ cache'[e] = cache[e]
    BY <1>1, StageBase DEF BInv
<1>3. /\ CommandInv(st[d], "stage", mem[d])
      /\ FilesInv(history, tree[d], staged[d], st[d], "stage", mem[d], superseded)
    BY <1>1, DeviceKeeps
<1>4. CASE Return(d)
    BY <1>1, <1>2, <1>3, <1>4, ReturnEdits DEF FilesInv
<1>5. CASE Goto(d, "combine") /\ UNCHANGED mem
    <2>1. OnlyDevice(d) /\ pc'[d] = "combine"
        BY <1>1, <1>2, <1>5 DEF BInv, IInv, PerDeviceInv, PerDevice, Goto, OnlyDevice
    <2>2. DeviceEdits(history, tree[d], staged'[d], st[d], "combine", mem[d], superseded)
        BY <1>3 DEF DeviceEdits, CommandInv, FilesInv, PlanInv, Working
    <2> QED
        BY <1>1, <1>5, <2>1, <2>2, QuietEdits
<1> QED
    BY <1>1, <1>4, <1>5

\* Where the two sides are merged there is a merge.
LEMMA MergesAreThere ==
    ASSUME NEW base, NEW local, NEW remote, NEW copy
    PROVE  Merging(base, local, remote) \subseteq DOMAIN Combined(base, local, remote, copy)
<1> SUFFICES ASSUME NEW p \in Merging(base, local, remote)
             PROVE  p \in KeptPaths(base, local, remote)
    BY DEF Combined
<1>1. /\ p \in PlannedPaths(base, local, remote)
      /\ PlannedAction(base, local, remote, p) = "Merge"
      /\ MergedText(base, local, remote, p) # None
    BY DEF Merging
<1>2. p \in AllPaths(base, local, remote)
    BY <1>1 DEF PlannedPaths
<1>3. PlannedEntry(base, local, remote, p) = MergedText(base, local, remote, p)
    BY <1>1 DEF PlannedEntry, plan_reconciliation
<1> QED
    BY <1>1, <1>2, <1>3 DEF KeptPaths

\* The head a sync has read keeps what its base had, and so does the tree.
LEMMA CombineManifestsEdits ==
    ASSUME BInv, EInv, BInv', NEW d \in Device, CombineManifests(d)
    PROVE  EInv'
<1> DEFINE m == mem[d]
           base == Base(m.state)
           local == m.local
           combined == Combined(base, local, Remote(d), CopyPaths(d))
<1>1. PICK conflicts :
        mem' = [mem EXCEPT ![d].combined = combined, ![d].state.conflicts = conflicts]
    BY DEF CombineManifests, CopyPaths
<1>2. /\ Goto(d, "check") /\ pc[d] = "combine"
      /\ UNCHANGED <<serverVars, tree, staged, cache, st, authored, superseded>>
    BY DEF CombineManifests, auxVars
<1>3. /\ IsMemory(m) /\ IsSyncState(m.state) /\ SavedInv(history, st[d])
    BY DEF BInv, IInv, DeviceInv, IsMemory, BaseInv, TreesInv
<1>4. /\ m.head \in 0..head /\ m.head \in Nat /\ Remote(d) = Revision(history, m.head)
      /\ IsWorkingTree(base) /\ IsWorkingTree(local) /\ IsWorkingTree(Remote(d))
    BY <1>3, PlanningTrees DEF IsMemory
<1>5. /\ CommandInv(st[d], "combine", m)
      /\ FilesInv(history, tree[d], staged[d], st[d], "combine", m, superseded)
    BY <1>2, DeviceKeeps
<1>6. base = Base(st[d])
    BY <1>5 DEF CommandInv, Working, Base
<1>7. Kept(base, Remote(d), superseded)
    <2>1. CASE st[d].base = None
        BY <1>6, <2>1, EmptyIsKept DEF Base
    <2>2. CASE st[d].base # None
        <3>1. st[d].rev \in 0..Len(history) /\ base = Revision(history, st[d].rev)
            BY <1>3, <1>6, <2>2 DEF SavedInv, Base
        <3>2. st[d].rev <= m.head /\ m.head \in 0..Len(history)
            BY <1>4, <1>5, <2>2 DEF CommandInv, Working, head
        <3> QED
            BY <1>4, <3>1, <3>2 DEF EInv, HistoryKept
    <2> QED BY <2>1, <2>2
<1>8. Kept(base, local, superseded) /\ Kept(Base(st[d]), tree[d], superseded)
    BY <1>5, <1>6 DEF FilesInv, Working
<1>9. PlanKept(base, local, Remote(d), combined, superseded)
    <2>1. FreshCopies(CopyPaths(d), Conflicts(base, local, Remote(d)),
                      AllPaths(base, local, Remote(d)))
        BY FreshCopyPaths
    <2>2. /\ Kept(Remote(d), combined,
                  superseded \cup MergedSides(base, local, Remote(d), combined))
          /\ \A p \in DOMAIN local : (IsFile(local[p]) /\ get(combined, p) # local[p]) =>
                local[p] \in superseded \cup MergedSides(base, local, Remote(d), combined)
                                        \cup Contents(Remote(d))
        <3>1. combined = Combined(base, local, Remote(d), CopyPaths(d))
            OBVIOUS
        <3> HIDE DEF combined, base, local
        <3> QED BY <1>4, <1>7, <1>8, <2>1, <3>1, CombinedKeeps
    <2>3. Merging(base, local, Remote(d)) \subseteq DOMAIN combined
        BY MergesAreThere
    <2> HIDE DEF combined, base, local
    <2> QED BY <2>2, <2>3 DEF PlanKept
<1> HIDE DEF combined
<1>10. /\ OnlyDevice(d) /\ pc'[d] = "check" /\ UNCHANGED <<tree, staged, st>>
       /\ mem'[d] = [m EXCEPT !.combined = combined, !.state.conflicts = conflicts]
    BY <1>1, <1>2 DEF BInv, IInv, PerDeviceInv, PerDevice, OnlyDevice, Goto
<1>11. /\ mem'[d].local = local /\ mem'[d].combined = combined
       /\ mem'[d].state = [m.state EXCEPT !.conflicts = conflicts]
       /\ mem'[d].head = m.head /\ mem'[d].mode = m.mode
    BY <1>3, <1>10 DEF IsMemory
<1>12. mem'[d].state.base = m.state.base /\ mem'[d].state.rev = m.state.rev
    BY <1>3, <1>11 DEF IsSyncState, SyncState
<1>13. Base(mem'[d].state) = base
    BY <1>12 DEF Base
<1>14. CommandInv(st[d], "check", mem'[d])
    BY <1>5, <1>11, <1>12 DEF CommandInv, Working
<1>15. FilesInv(history, tree[d], staged[d], st[d], "check", mem'[d], superseded)
    BY <1>6, <1>8, <1>11 DEF FilesInv
<1>16. PlanInv(history, tree[d], "check", mem'[d], superseded)
    <2> HIDE DEF base
    <2> QED BY <1>4, <1>9, <1>11, <1>13 DEF PlanInv
<1>17. DeviceEdits(history, tree[d], staged[d], st[d], "check", mem'[d], superseded)
    BY <1>14, <1>15, <1>16 DEF DeviceEdits
<1> QED
    BY <1>2, <1>10, <1>17, QuietEdits

LEMMA BeginApplyEdits ==
    ASSUME BInv, EInv, BInv', NEW d \in Device, BeginApply(d)
    PROVE  EInv'
<1> DEFINE m == mem[d]
           state == IF m.mode = "DiscardLocal" THEN m.state
                    ELSE begin_pending(m.state, "Download")
<1>1. IsMemory(m) /\ IsSyncState(m.state) /\ pc[d] = "check"
    BY DEF BInv, IInv, DeviceInv, IsMemory, BeginApply
<1>2. state.base = m.state.base /\ state.rev = m.state.rev
    BY <1>1 DEF begin_pending, IsSyncState, SyncState
<1> HIDE DEF state
<1>3. /\ UNCHANGED <<serverVars, tree, staged, cache, authored, superseded>>
      /\ st' = st \/ st' = [st EXCEPT ![d] = state]
      /\ \/ /\ mem' = [mem EXCEPT ![d].state = state] /\ Goto(d, "walk")
            /\ Unchanged(d) \/ m.mode = "DiscardLocal"
         \/ Return(d)
    BY DEF BeginApply, state, auxVars
<1>4. /\ CommandInv(st[d], "check", m)
      /\ FilesInv(history, tree[d], staged[d], st[d], "check", m, superseded)
      /\ PlanInv(history, tree[d], "check", m, superseded)
    BY <1>1, DeviceKeeps
<1>5. m.state.base = st[d].base /\ m.state.rev = st[d].rev
    BY <1>4 DEF CommandInv, Working
<1>6. /\ st'[d].base = st[d].base /\ st'[d].rev = st[d].rev
      /\ \A e \in Device \ {d} : st'[e] = st[e]
    <2>1. /\ st'[d] = st[d] \/ st'[d] = state
          /\ \A e \in Device \ {d} : st'[e] = st[e]
        BY <1>3 DEF BInv, IInv, PerDeviceInv, PerDevice
    <2> QED
        BY <1>2, <1>5, <2>1
<1>7. Base(st'[d]) = Base(st[d])
    BY <1>6 DEF Base
<1>8. CASE Return(d)
    BY <1>3, <1>4, <1>6, <1>7, <1>8, ReturnEdits DEF FilesInv
<1>9. CASE /\ mem' = [mem EXCEPT ![d].state = state] /\ Goto(d, "walk")
           /\ Unchanged(d) \/ m.mode = "DiscardLocal"
    <2>1. /\ OnlyDevice(d) /\ pc'[d] = "walk" /\ mem'[d] = [m EXCEPT !.state = state]
          /\ UNCHANGED <<tree, staged>>
        BY <1>3, <1>6, <1>9 DEF BInv, IInv, PerDeviceInv, PerDevice, Goto, OnlyDevice
    <2>2. /\ mem'[d].local = m.local /\ mem'[d].combined = m.combined
          /\ mem'[d].state = state /\ mem'[d].head = m.head /\ mem'[d].mode = m.mode
        BY <1>1, <2>1 DEF IsMemory
    <2>3. Base(mem'[d].state) = Base(m.state)
        BY <1>2, <2>2 DEF Base
    <2>4. Unchanged(d) => tree[d] = m.local
        BY UnchangedIsEqual
    <2>5. CommandInv(st'[d], "walk", mem'[d])
        BY <1>2, <1>4, <1>5, <1>6, <2>2 DEF CommandInv, Working
    <2>6. FilesInv(history, tree[d], staged[d], st'[d], "walk", mem'[d], superseded)
        BY <1>4, <1>7, <2>2 DEF FilesInv, Working
    <2>7. PlanInv(history, tree[d], "walk", mem'[d], superseded)
        BY <1>4, <1>9, <2>2, <2>3, <2>4 DEF PlanInv
    <2>8. DeviceEdits(history, tree[d], staged[d], st'[d], "walk", mem'[d], superseded)
        BY <2>5, <2>6, <2>7 DEF DeviceEdits
    <2> QED
        BY <1>3, <2>1, <2>8, QuietEdits
<1> QED
    BY <1>3, <1>8, <1>9

\* The merges a sync gives the two sides up for.
LEMMA MergesAreMerging ==
    ASSUME NEW d
    PROVE  Merges(d) = Merging(Base(mem[d].state), mem[d].local, Remote(d))
BY DEF Merges, Merging, Plan, plan_reconciliation

\* The command of d has a new list of things to do and other files, and lost none.
LEMMA ListEdits ==
    ASSUME BInv, EInv, BInv', NEW d \in Device, NEW todo,
           pc[d] \in {"walk", "apply"}, OnlyDevice(d), pc'[d] = "apply",
           mem'[d] = [mem[d] EXCEPT !.todo = todo], UNCHANGED <<staged, st, authored>>,
           superseded \subseteq superseded',
           mem[d].mode # "DiscardLocal" =>
                TodoKept(Base(mem[d].state), mem[d].local, Remote(d), mem[d].combined,
                         tree'[d], todo, superseded'),
           Contents(tree[d]) \subseteq
                Contents(tree'[d]) \cup superseded' \cup Contents(ManifestAt(head))
    PROVE  EInv'
<1> DEFINE m == mem[d]
<1>1. /\ IsMemory(m) /\ history' = history /\ Remote(d) = Revision(history, m.head)
    BY PlanningTrees DEF BInv, IInv, DeviceInv, OnlyDevice, serverVars
<1>2. /\ mem'[d].local = m.local /\ mem'[d].combined = m.combined /\ mem'[d].todo = todo
      /\ mem'[d].state = m.state /\ mem'[d].head = m.head /\ mem'[d].mode = m.mode
    BY <1>1 DEF IsMemory
<1>3. /\ CommandInv(st[d], pc[d], m)
      /\ FilesInv(history, tree[d], staged[d], st[d], pc[d], m, superseded)
      /\ PlanInv(history, tree[d], pc[d], m, superseded)
    BY DeviceKeeps
<1>4. CommandInv(st[d], "apply", mem'[d])
    BY <1>2, <1>3 DEF CommandInv, Working
<1>5. FilesInv(history, tree'[d], staged[d], st[d], "apply", mem'[d], superseded')
    <2>1. Kept(Base(st[d]), m.local, superseded)
        BY <1>3 DEF FilesInv, Working
    <2>2. Kept(Base(st[d]), m.local, superseded')
        BY <2>1, KeptWithMore
    <2> QED
        BY <1>2, <2>2 DEF FilesInv
<1>6. PlanInv(history, tree'[d], "apply", mem'[d], superseded')
    <2>1. m.mode # "DiscardLocal" =>
            PlanKept(Base(m.state), m.local, Remote(d), m.combined, superseded)
        BY <1>1, <1>3 DEF PlanInv
    <2>2. m.mode # "DiscardLocal" =>
            PlanKept(Base(m.state), m.local, Remote(d), m.combined, superseded')
        BY <2>1, PlanKeptWithMore
    <2> QED
        BY <1>1, <1>2, <2>2 DEF PlanInv
<1>7. DeviceEdits(history, tree'[d], staged[d], st[d], "apply", mem'[d], superseded')
    BY <1>4, <1>5, <1>6 DEF DeviceEdits
<1>8. EditInv(d)'
    BY <1>1, <1>7 DEF EditInv
<1> QED
    BY <1>8, LocalEdits

LEMMA WalkTreeEdits ==
    ASSUME BInv, EInv, BInv', NEW d \in Device, WalkTree(d)
    PROVE  EInv'
<1> DEFINE m == mem[d]
           todo == (DOMAIN tree[d] \ DOMAIN m.combined)
                    \cup {p \in DOMAIN m.combined : ~(get(tree[d], p) = m.combined[p])}
           merged == {p \in Merges(d) : get(tree[d], p) = m.combined[p]}
           given == IF m.mode = "DiscardLocal" THEN {} ELSE {get(Remote(d), p) : p \in merged}
<1>1. /\ UNCHANGED <<serverVars, tree, staged, cache, st, authored>> /\ pc[d] = "walk"
      /\ \/ /\ mem' = [mem EXCEPT ![d].todo = todo] /\ Goto(d, "apply")
            /\ superseded' = superseded \cup given
         \/ Return(d) /\ UNCHANGED superseded
    BY DEF WalkTree, collect_workspace_paths, matching_local_file, GiveUp
<1>2. /\ FilesInv(history, tree[d], staged[d], st[d], "walk", m, superseded)
      /\ PlanInv(history, tree[d], "walk", m, superseded)
    BY <1>1, DeviceKeeps
<1>3. CASE Return(d) /\ UNCHANGED superseded
    BY <1>1, <1>2, <1>3, ReturnEdits DEF FilesInv
<1>4. CASE /\ mem' = [mem EXCEPT ![d].todo = todo] /\ Goto(d, "apply")
           /\ superseded' = superseded \cup given
    <2>1. ASSUME m.mode # "DiscardLocal"
          PROVE  TodoKept(Base(m.state), m.local, Remote(d), m.combined,
                          tree[d], todo, superseded')
        <3>1. tree[d] = m.local
            BY <1>2, <2>1 DEF PlanInv
        <3>2. ASSUME NEW p \in Merging(Base(m.state), m.local, Remote(d)), p \notin todo
              PROVE  Sides(m.local, Remote(d), m.combined, p) \subseteq superseded'
            <4>1. p \in DOMAIN m.combined
                BY <1>2, <2>1, PlanningTrees DEF PlanInv, PlanKept
            <4>2. get(tree[d], p) = m.combined[p] /\ get(m.combined, p) = m.combined[p]
                BY <3>2, <4>1 DEF get
            <4>3. get(Remote(d), p) \in superseded'
                BY <1>4, <2>1, <3>2, <4>2, MergesAreMerging
            <4> QED
                BY <3>1, <4>2, <4>3 DEF Sides
        <3> HIDE DEF todo
        <3> QED
            BY <3>1, <3>2 DEF TodoKept
    <2> HIDE DEF todo, given
    <2>2. /\ OnlyDevice(d) /\ pc'[d] = "apply" /\ mem'[d] = [m EXCEPT !.todo = todo]
          /\ tree'[d] = tree[d]
        BY <1>1, <1>4 DEF BInv, IInv, PerDeviceInv, PerDevice, Goto, OnlyDevice
    <2>3. Contents(tree[d]) \subseteq
                Contents(tree'[d]) \cup superseded' \cup Contents(ManifestAt(head))
        BY <2>2
    <2>4. superseded \subseteq superseded'
        BY <1>4
    <2> QED
        BY <1>1, <2>1, <2>2, <2>3, <2>4, ListEdits
<1> QED
    BY <1>1, <1>3, <1>4

\* p is as combined has it, and everything else as it was.
PutInPlace(files, after, combined, p) ==
    /\ get(after, p) = get(combined, p)
    /\ \A q : q # p => get(after, q) = get(files, q)

\* One thing of the list is done: what was there is in the head that was read, or among
\* the files, or was merged.
LEMMA DoneKeeps ==
    ASSUME NEW base, NEW local, NEW remote, NEW combined, NEW files, NEW after, NEW todo,
           NEW given, NEW more, given \subseteq more,
           PlanKept(base, local, remote, combined, given),
           TodoKept(base, local, remote, combined, files, todo, given),
           NEW p \in todo, PutInPlace(files, after, combined, p),
           p \in Merging(base, local, remote) => Sides(local, remote, combined, p) \subseteq more
    PROVE  /\ TodoKept(base, local, remote, combined, after, todo \ {p}, more)
           /\ Contents(files) \subseteq Contents(after) \cup more \cup Contents(remote)
<1>1. TodoKept(base, local, remote, combined, after, todo \ {p}, more)
    BY DEF TodoKept, PutInPlace
<1>2. ASSUME NEW q \in DOMAIN files, IsFile(files[q]), files[q] \notin Contents(after),
             files[q] \notin more, files[q] \notin Contents(remote)
      PROVE  FALSE
    <2> DEFINE x == files[q]
    <2>1. \A r : get(after, r) # x /\ get(remote, r) # x
        BY <1>2 DEF Contents, get, IsFile
    <2>2. q = p
        BY <2>1 DEF get, PutInPlace
    <2>3. get(local, p) = x /\ get(combined, p) # x
        BY <2>1, <2>2 DEF TodoKept, get, PutInPlace
    <2>4. p \in DOMAIN local /\ local[p] = x
        BY <1>2, <2>3 DEF get, IsFile
    <2>5. x \in given \cup MergedSides(base, local, remote, combined) \cup Contents(remote)
        BY <1>2, <2>3, <2>4 DEF PlanKept
    <2>6. PICK r \in Merging(base, local, remote) : x \in Sides(local, remote, combined, r)
        BY <1>2, <2>5 DEF MergedSides
    <2>7. get(local, r) = x
        BY <2>1, <2>6 DEF Sides
    <2>8. r \in todo /\ r # p
        BY <1>2, <2>6 DEF TodoKept
    <2>9. get(after, r) = x
        BY <2>7, <2>8 DEF TodoKept, PutInPlace
    <2> QED
        BY <2>1, <2>9
<1>3. Contents(files) \subseteq Contents(after) \cup more \cup Contents(remote)
    BY <1>2 DEF Contents
<1> QED
    BY <1>1, <1>3

\* ... in a command of d.
LEMMA DoneEdits ==
    ASSUME BInv, EInv, BInv', NEW d \in Device, pc[d] = "apply", OnlyDevice(d),
           pc'[d] = "apply", UNCHANGED <<staged, st, authored>>,
           NEW p \in mem[d].todo, mem'[d] = [mem[d] EXCEPT !.todo = mem[d].todo \ {p}],
           PutInPlace(tree[d], tree'[d], mem[d].combined, p),
           superseded \subseteq superseded',
           mem[d].mode = "DiscardLocal" => Replaced(tree[d], tree'[d]) \subseteq superseded',
           mem[d].mode # "DiscardLocal" /\ p \in Merges(d) =>
                Sides(mem[d].local, Remote(d), mem[d].combined, p) \subseteq superseded'
    PROVE  EInv'
<1> DEFINE m == mem[d]
           todo == m.todo \ {p}
<1>1. CASE m.mode = "DiscardLocal"
    <2>1. Contents(tree[d]) \subseteq
                Contents(tree'[d]) \cup superseded' \cup Contents(ManifestAt(head))
        BY <1>1, ReplacedContents
    <2> QED
        BY <1>1, <2>1, ListEdits
<1>2. CASE m.mode # "DiscardLocal"
    <2>1. Remote(d) = Revision(history, m.head) /\ m.head \in 0..head
        BY PlanningTrees
    <2>2. /\ PlanKept(Base(m.state), m.local, Remote(d), m.combined, superseded)
          /\ TodoKept(Base(m.state), m.local, Remote(d), m.combined, tree[d], m.todo, superseded)
        BY <1>2, <2>1, DeviceKeeps DEF PlanInv
    <2>3. p \in Merging(Base(m.state), m.local, Remote(d)) =>
                Sides(m.local, Remote(d), m.combined, p) \subseteq superseded'
        BY <1>2, MergesAreMerging
    <2>4. /\ TodoKept(Base(m.state), m.local, Remote(d), m.combined, tree'[d], todo, superseded')
          /\ Contents(tree[d]) \subseteq Contents(tree'[d]) \cup superseded' \cup Contents(Remote(d))
        <3> DEFINE base == Base(m.state)
                   local == m.local
                   remote == Remote(d)
                   combined == m.combined
                   files == tree[d]
                   after == tree'[d]
                   list == m.todo
                   given == superseded
                   more == superseded'
        <3>1. /\ PlanKept(base, local, remote, combined, given)
              /\ TodoKept(base, local, remote, combined, files, list, given)
              /\ p \in Merging(base, local, remote) =>
                    Sides(local, remote, combined, p) \subseteq more
              /\ p \in list /\ PutInPlace(files, after, combined, p) /\ given \subseteq more
            BY <2>2, <2>3
        <3> HIDE DEF base, local, remote, combined, files, after, list, given, more
        <3>2. /\ TodoKept(base, local, remote, combined, after, list \ {p}, more)
              /\ Contents(files) \subseteq Contents(after) \cup more \cup Contents(remote)
            BY ONLY <3>1, DoneKeeps, Z3T(30)
        <3> QED
            BY <3>2 DEF base, local, remote, combined, files, after, list, more
    <2>5. Contents(Remote(d)) \subseteq Contents(ManifestAt(head)) \cup superseded
        BY <2>1, HeadKeeps
    <2>6. Contents(tree[d]) \subseteq
                Contents(tree'[d]) \cup superseded' \cup Contents(ManifestAt(head))
        BY <2>4, <2>5
    <2> HIDE DEF todo
    <2> QED
        BY <2>4, <2>6, ListEdits DEF todo
<1> QED
    BY <1>1, <1>2

LEMMA ApplyRemoveEdits ==
    ASSUME BInv, EInv, BInv', NEW d \in Device, ApplyRemove(d)
    PROVE  EInv'
<1> DEFINE m == mem[d]
           after(p) == IF \E q \in DOMAIN tree[d] : Below(p, q)
                       THEN tree[d] ELSE RemovePath(tree[d], p)
<1>1. PICK p \in m.todo \ DOMAIN m.combined :
        /\ \A q \in m.todo \ DOMAIN m.combined : ~Below(p, q)
        /\ mem' = [mem EXCEPT ![d].todo = @ \ {p}]
        /\ tree' = [tree EXCEPT ![d] = after(p)]
        /\ superseded' = superseded \cup (IF m.mode = "DiscardLocal"
                                          THEN Replaced(tree[d], after(p)) ELSE {})
    BY DEF ApplyRemove, GiveUp
<1>2. UNCHANGED <<serverVars, staged, cache, st, pc, authored>> /\ pc[d] = "apply"
    BY DEF ApplyRemove
<1>3. /\ IsWorkingTree(tree[d]) /\ IsWorkingTree(m.combined)
      /\ ApplyInv(tree[d], m.todo, m.combined)
    BY <1>2 DEF BInv, BaseInv, TreesInv, ProgressInv
<1>4. ~\E q \in DOMAIN tree[d] : Below(p, q)
    BY <1>1, <1>3, RemoveInPlace
<1>5. after(p) = RemovePath(tree[d], p)
    BY <1>4
<1>6. \A q : get(RemovePath(tree[d], p), q) = IF q = p THEN None ELSE get(tree[d], q)
    BY <1>4 DEF RemovePath, Subtree, get
<1> HIDE DEF after
<1>7. /\ OnlyDevice(d) /\ mem'[d] = [m EXCEPT !.todo = m.todo \ {p}]
      /\ tree'[d] = after(p)
    BY <1>1, <1>2 DEF BInv, IInv, PerDeviceInv, PerDevice, OnlyDevice
<1>8. PutInPlace(tree[d], tree'[d], m.combined, p)
    <2>1. get(m.combined, p) = None
        BY DEF get
    <2> QED
        BY <1>5, <1>6, <1>7, <2>1 DEF PutInPlace
<1>9. m.mode # "DiscardLocal" => p \notin Merges(d)
    BY <1>1, <1>2, DeviceKeeps, MergesAreMerging, PlanningTrees DEF PlanInv, PlanKept
<1> QED
    BY <1>1, <1>2, <1>7, <1>8, <1>9, DoneEdits

\* When everything that has to go is gone, nothing is below a file that is written.
LEMMA WriteReplacesOne ==
    ASSUME NEW files, IsWorkingTree(files), NEW combined, IsWorkingTree(combined),
           NEW todo, ApplyInv(files, todo, combined), todo \subseteq DOMAIN combined,
           NEW p \in todo, NEW after, after = WriteEntry(files, p, combined[p])
    PROVE  PutInPlace(files, after, combined, p)
<1>1. p \in Path /\ p \in DOMAIN combined /\ DOMAIN files \subseteq Path
      /\ get(combined, p) = combined[p]
    BY DEF ApplyInv, IsWorkingTree, get
<1>2. ASSUME combined[p] # Directory, NEW q \in DOMAIN files, Below(p, q) PROVE FALSE
    <2>1. q \in Path /\ get(files, q) # None
        BY <1>1, ValueAssumption DEF get, IsWorkingTree, IsManifest
    <2>2. get(combined, q) = None
        BY <1>1, <1>2, <2>1, AboveIsDirectory
    <2>3. q \notin todo
        BY <2>2, ValueAssumption DEF get, IsWorkingTree, IsManifest
    <2> QED
        BY <2>1, <2>2, <2>3 DEF ApplyInv
<1> QED
    BY <1>1, <1>2 DEF WriteEntry, Subtree, get, PutInPlace

LEMMA ApplyWriteEdits ==
    ASSUME BInv, EInv, BInv', NEW d \in Device, ApplyWrite(d)
    PROVE  EInv'
<1> DEFINE m == mem[d]
           given(p) == IF m.mode = "DiscardLocal" THEN Replaced(tree[d], tree'[d])
                       ELSE IF p \in Merges(d) THEN {get(m.local, p), get(Remote(d), p)}
                       ELSE {}
<1>1. PICK p \in m.todo :
        /\ mem' = [mem EXCEPT ![d].todo = @ \ {p}]
        /\ cache' = [cache EXCEPT ![d] = @ \cup ({m.combined[p]} \ {Directory})]
        /\ tree' = [tree EXCEPT ![d] = WriteEntry(@, p, m.combined[p])]
        /\ superseded' = superseded \cup given(p)
    BY DEF ApplyWrite, GiveUp
<1>2. /\ UNCHANGED <<serverVars, staged, st, pc, authored>> /\ pc[d] = "apply"
      /\ m.todo \subseteq DOMAIN m.combined
    BY DEF ApplyWrite
<1>3. /\ IsWorkingTree(tree[d]) /\ IsWorkingTree(m.combined)
      /\ ApplyInv(tree[d], m.todo, m.combined)
    BY <1>2 DEF BInv, BaseInv, TreesInv, ProgressInv
<1>4. /\ m.mode = "DiscardLocal" => Replaced(tree[d], tree'[d]) \subseteq superseded'
      /\ m.mode # "DiscardLocal" /\ p \in Merges(d) =>
            Sides(m.local, Remote(d), m.combined, p) \subseteq superseded'
      /\ superseded \subseteq superseded'
    BY <1>1 DEF Sides
<1> HIDE DEF given
<1>5. /\ OnlyDevice(d) /\ mem'[d] = [m EXCEPT !.todo = m.todo \ {p}]
      /\ tree'[d] = WriteEntry(tree[d], p, m.combined[p])
    BY <1>1, <1>2 DEF BInv, IInv, PerDeviceInv, PerDevice, OnlyDevice
<1>6. PutInPlace(tree[d], tree'[d], m.combined, p)
    BY <1>2, <1>3, <1>5, WriteReplacesOne
<1> QED
    BY <1>2, <1>4, <1>5, <1>6, DoneEdits

\* What was to be applied is there, and so everything that was merged is given up.
LEMMA ApplyDoneEdits ==
    ASSUME BInv, EInv, BInv', NEW d \in Device, ApplyDone(d)
    PROVE  EInv'
<1> DEFINE m == mem[d]
<1>1. /\ OnlyDevice(d) /\ UNCHANGED <<tree, st, mem, authored, superseded>> /\ pc[d] = "apply"
      /\ m.todo = {} /\ staged'[d] = m.combined
      /\ pc'[d] = IF m.mode = "DiscardLocal" THEN "discarded" ELSE "restage"
    BY DEF ApplyDone, BInv, IInv, PerDeviceInv, PerDevice, Goto, OnlyDevice, auxVars
<1>2. /\ IsWorkingTree(tree[d]) /\ IsWorkingTree(m.combined) /\ SavedInv(history, st[d])
      /\ GoalInv(history, m) /\ ApplyInv(tree[d], {}, m.combined)
    BY <1>1 DEF BInv, BaseInv, TreesInv, ProgressInv
<1>3. tree[d] = m.combined
    BY <1>2, AllInPlace
<1>4. /\ CommandInv(st[d], "apply", m)
      /\ FilesInv(history, tree[d], staged[d], st[d], "apply", m, superseded)
      /\ PlanInv(history, tree[d], "apply", m, superseded)
    BY <1>1, DeviceKeeps
<1>5. m.head \in 0..Len(history) /\ Remote(d) = Revision(history, m.head)
    BY PlanningTrees DEF head
<1>6. CASE m.mode = "DiscardLocal"
    <2>1. tree[d] = Revision(history, m.head)
        BY <1>2, <1>3, <1>6 DEF GoalInv
    <2>2. Kept(Base(st[d]), tree[d], superseded)
        <3>1. CASE st[d].base = None
            BY <3>1, BaseKept
        <3>2. CASE st[d].base # None
            <4>1. st[d].rev \in 0..Len(history) /\ st[d].base = Revision(history, st[d].rev)
                BY <1>2, <3>2 DEF SavedInv
            <4>2. st[d].rev <= m.head
                BY <1>4, <3>2 DEF CommandInv, Working
            <4>3. Kept(st[d].base, tree[d], superseded)
                BY <1>5, <2>1, <4>1, <4>2 DEF EInv, HistoryKept
            <4> QED BY <4>3, BaseKept
        <3> QED BY <3>1, <3>2
    <2>3. DeviceEdits(history, tree[d], m.combined, st[d], "discarded", m, superseded)
        BY <1>3, <2>2, KeptAtOnce DEF DeviceEdits, CommandInv, FilesInv, PlanInv, Working
    <2> QED
        BY <1>1, <1>6, <2>3, QuietEdits
<1>7. CASE m.mode # "DiscardLocal"
    <2> DEFINE merged == MergedSides(Base(m.state), m.local, Remote(d), m.combined)
    <2>1. /\ PlanKept(Base(m.state), m.local, Remote(d), m.combined, superseded)
          /\ TodoKept(Base(m.state), m.local, Remote(d), m.combined, tree[d], {}, superseded)
        BY <1>1, <1>4, <1>5, <1>7 DEF PlanInv
    <2>2. merged \subseteq superseded
        BY <2>1 DEF TodoKept, MergedSides
    <2>3. Kept(Remote(d), m.combined, superseded \cup merged)
        BY <2>1 DEF PlanKept
    <2> HIDE DEF merged
    <2>4. superseded \cup merged = superseded
        BY <2>2
    <2>5. Kept(Revision(history, m.head), tree[d], superseded)
        BY <1>3, <1>5, <2>3, <2>4
    <2>6. CommandInv(st[d], "restage", m)
        BY <1>4 DEF CommandInv, Working
    <2>7. FilesInv(history, tree[d], m.combined, st[d], "restage", m, superseded)
        BY <1>4, <2>5 DEF FilesInv, Working
    <2>8. DeviceEdits(history, tree[d], m.combined, st[d], "restage", m, superseded)
        BY <2>6, <2>7 DEF DeviceEdits, PlanInv
    <2> QED
        BY <1>1, <1>7, <2>8, QuietEdits
<1> QED
    BY <1>6, <1>7

LEMMA RestageEdits ==
    ASSUME BInv, EInv, BInv', NEW d \in Device, Restage(d)
    PROVE  EInv'
<1> DEFINE m == mem[d]
           applied == [m.state EXCEPT !.base = Remote(d), !.rev = m.head]
           label == IF requires_publication(Plan(d)) THEN "publish" ELSE "finish"
<1>1. PICK state :
        /\ state \in {applied, begin_pending(applied, "Publication")}
        /\ stage_all(d)
        /\ st' = [st EXCEPT ![d] = state]
        /\ mem' = [mem EXCEPT ![d].state = state, ![d].synced = m.head]
        /\ Goto(d, label) /\ pc[d] = "restage"
        /\ UNCHANGED <<serverVars, tree, authored, superseded>>
    BY DEF Restage, auxVars
<1>2. /\ IsMemory(m) /\ IsSyncState(m.state) /\ Remote(d) = Revision(history, m.head)
    BY PlanningTrees DEF BInv, IInv, DeviceInv, IsMemory
<1>3. state.base = Remote(d)
    BY <1>1, <1>2 DEF IsSyncState, SyncState, begin_pending
<1> HIDE DEF applied
<1>4. label \in {"publish", "finish"}
    OBVIOUS
<1> HIDE DEF label
<1>5. /\ OnlyDevice(d) /\ tree' = tree /\ st'[d] = state /\ pc'[d] = label
      /\ mem'[d] = [m EXCEPT !.state = state, !.synced = m.head] /\ staged'[d] = tree[d]
    BY <1>1, StageBase DEF BInv, IInv, PerDeviceInv, PerDevice, Goto, OnlyDevice
<1>6. mem'[d].head = m.head
    BY <1>2, <1>5 DEF IsMemory
<1>7. Kept(Revision(history, m.head), tree[d], superseded)
    BY <1>1, DeviceKeeps DEF FilesInv
<1>8. Kept(Base(state), tree[d], superseded)
    BY <1>2, <1>3, <1>7, BaseKept
<1>9. DeviceEdits(history, tree[d], tree[d], state, label, mem'[d], superseded)
    BY <1>4, <1>6, <1>7, <1>8, KeptAtOnce DEF DeviceEdits, CommandInv, FilesInv, PlanInv, Working
<1> QED
    BY <1>1, <1>5, <1>9, QuietEdits

\* A publication that keeps the files of the head keeps those of every revision.
LEMMA PublicationEdits ==
    ASSUME BInv, EInv, NEW x, IsWorkingTree(x), history' = Append(history, x),
           \A u \in late' : u \in late, UNCHANGED <<tree, authored, superseded>>,
           Kept(ManifestAt(head), x, superseded)
    PROVE  /\ HistoryKept(history', superseded')
           /\ LateKept(history', late', superseded')
           /\ EditsPreserved'
           /\ \A e \in Device :
                DeviceEdits(history', tree[e], staged[e], st[e], pc[e], mem[e], superseded)
<1>1. /\ Len(history) \in Nat /\ Len(history') = Len(history) + 1
      /\ history'[Len(history) + 1] = x
      /\ \A i \in 1..Len(history) : history'[i] = history[i]
    BY PublicationBase
<1>2. \A r \in 0..Len(history) : Revision(history', r) = Revision(history, r)
    <2> TAKE r \in 0..Len(history)
    <2>1. r = 0 \/ r \in 1..Len(history)
        OBVIOUS
    <2> QED BY <1>1, <2>1 DEF Revision
<1>3. Revision(history', Len(history) + 1) = x /\ ManifestAt(head)' = x
    BY <1>1 DEF Revision, ManifestAt, head
<1>4. ASSUME NEW r \in 0..Len(history) PROVE Kept(Revision(history, r), x, superseded)
    <2>1. r \in 0..head /\ head \in 0..head
        BY <1>1, <1>4 DEF head
    <2>2. /\ IsWorkingTree(ManifestAt(head)) /\ IsWorkingTree(Revision(history, r))
        BY <2>1, KnownRevisionIsTree
    <2>3. Kept(Revision(history, r), ManifestAt(head), superseded)
        BY <2>1, HeadKeeps
    <2> QED
        BY <2>2, <2>3, KeptIsTransitive
<1>5. HistoryKept(history', superseded')
    <2> SUFFICES ASSUME NEW r \in 0..Len(history'), NEW s \in 0..Len(history'), r <= s
                 PROVE  Kept(Revision(history', r), Revision(history', s), superseded)
        BY DEF HistoryKept
    <2>1. CASE s \in 0..Len(history)
        <3>1. r \in 0..Len(history)
            BY <1>1, <2>1
        <3> QED
            BY <1>2, <2>1, <3>1 DEF EInv, HistoryKept
    <2>2. CASE s = Len(history) + 1
        <3>1. CASE r \in 0..Len(history)
            BY <1>2, <1>3, <1>4, <2>2, <3>1
        <3>2. CASE r = s
            BY <3>2, KeptAtOnce
        <3> QED
            BY <1>1, <2>2, <3>1, <3>2
    <2> QED
        BY <1>1, <2>1, <2>2
<1>6. LateKept(history', late', superseded')
    <2> SUFFICES ASSUME NEW u \in late'
                 PROVE  Kept(Revision(history', u.expected), u.manifest, superseded)
        BY DEF LateKept
    <2>1. u \in late /\ u.expected \in 0..Len(history)
        BY DEF BInv, IInv, ServerInv, head
    <2> QED
        BY <1>2, <2>1 DEF EInv, LateKept
<1>7. EditsPreserved'
    <2>1. Contents(ManifestAt(head)) \subseteq Contents(x) \cup superseded
        BY KeptContents
    <2> QED
        BY <1>3, <2>1 DEF EInv, EditsPreserved
<1>8. ASSUME NEW e \in Device
      PROVE  DeviceEdits(history', tree[e], staged[e], st[e], pc[e], mem[e], superseded)
    <2> DEFINE k == history'
    <2>1. mem[e].head \in 0..Len(history) /\ \A i \in 1..Len(history) : k[i] = history[i]
        BY <1>1, KnownRevision DEF BInv, head
    <2>2. DeviceEdits(history, tree[e], staged[e], st[e], pc[e], mem[e], superseded)
        BY DEF EInv, EditInv
    <2> HIDE DEF k
    <2>3. DeviceEdits(k, tree[e], staged[e], st[e], pc[e], mem[e], superseded)
        BY <1>1, <2>1, <2>2, EditsHistoryGrows
    <2> QED
        BY <2>3 DEF k
<1> QED
    BY <1>5, <1>6, <1>7, <1>8

\* What is published keeps the files of the head it replaces.
LEMMA PublishedKeeps ==
    ASSUME BInv, EInv, NEW d \in Device, PublishHead(d)
    PROVE  IsWorkingTree(staged[d]) /\ Kept(ManifestAt(head), staged[d], superseded)
<1>1. pc[d] = "publish" /\ mem[d].head = head
    BY DEF PublishHead, head_matches
<1>2. Kept(Revision(history, mem[d].head), staged[d], superseded)
    BY <1>1, DeviceKeeps DEF FilesInv
<1>3. ManifestAt(head) = Revision(history, head)
    BY DEF ManifestAt, Revision
<1> QED
    BY <1>1, <1>2, <1>3 DEF BInv, BaseInv, TreesInv

LEMMA PublishHeadEdits ==
    ASSUME BInv, EInv, BInv', NEW d \in Device, PublishHead(d)
    PROVE  EInv'
<1> DEFINE m == mem[d]
<1>1. /\ history' = Append(history, staged[d]) /\ late' = late /\ pc[d] = "publish"
      /\ UNCHANGED <<tree, staged, st, authored, superseded>>
      /\ pc'[d] = "finish"
      /\ \A e \in Device \ {d} : pc'[e] = pc[e] /\ mem'[e] = mem[e]
    BY DEF PublishHead, BInv, IInv, PerDeviceInv, PerDevice, Goto, auxVars
<1>2. /\ HistoryKept(history', superseded') /\ LateKept(history', late', superseded')
      /\ EditsPreserved'
      /\ \A e \in Device :
            DeviceEdits(history', tree[e], staged[e], st[e], pc[e], mem[e], superseded)
    BY <1>1, PublishedKeeps, PublicationEdits
<1>3. EditInv(d)'
    <2>1. Kept(Base(st[d]), tree[d], superseded) /\ Kept(staged[d], tree[d], superseded)
        BY <1>1, DeviceKeeps DEF FilesInv
    <2>2. DeviceEdits(history', tree[d], staged[d], st[d], "finish", mem'[d], superseded)
        BY <2>1 DEF DeviceEdits, CommandInv, FilesInv, PlanInv, Working
    <2> QED
        BY <1>1, <2>2 DEF EditInv
<1>4. ASSUME NEW e \in Device, e # d PROVE EditInv(e)'
    BY <1>1, <1>2, <1>4 DEF EditInv
<1> QED
    BY <1>2, <1>3, <1>4 DEF EInv

LEMMA PublicationRaceEdits ==
    ASSUME BInv, EInv, BInv', NEW d \in Device, PublicationRace(d)
    PROVE  EInv'
<1>1. /\ UNCHANGED <<serverVars, tree, staged, cache, st, auxVars>> /\ pc[d] = "publish"
      /\ \/ mem' = [mem EXCEPT ![d] = Attempt(d, "Reconcile", 1)] /\ Goto(d, "fetch")
         \/ Return(d)
    BY DEF PublicationRace
<1>2. CASE Return(d)
    BY <1>1, <1>2, ReturnEdits, DeviceKeeps DEF FilesInv, auxVars
<1> QED
    BY <1>1, <1>2, AttemptEdits

\* A command that saves a base it still has among the files, and ends.
LEMMA SaveEdits ==
    ASSUME BInv, EInv, BInv', NEW d \in Device, NEW state, Return(d),
           st' = [st EXCEPT ![d] = state],
           UNCHANGED <<serverVars, tree, staged, cache, auxVars>>,
           Kept(Base(state), tree[d], superseded)
    PROVE  EInv'
<1>1. st'[d] = state /\ \A e \in Device \ {d} : st'[e] = st[e]
    BY DEF BInv, IInv, PerDeviceInv, PerDevice
<1> QED
    BY <1>1, ReturnEdits DEF auxVars

LEMMA FinishSyncEdits ==
    ASSUME BInv, EInv, BInv', NEW d \in Device, FinishSync(d)
    PROVE  EInv'
<1> DEFINE s == mem[d].state
           state == [complete_pending(s) EXCEPT !.base = staged[d], !.rev = mem[d].synced]
<1>1. /\ UNCHANGED <<serverVars, tree, staged, cache, auxVars>> /\ Return(d)
      /\ pc[d] = "finish" /\ st' = [st EXCEPT ![d] = state]
    BY DEF FinishSync
<1>2. state.base = staged[d]
    BY DEF BInv, IInv, DeviceInv, IsMemory, complete_pending, IsSyncState, SyncState
<1>3. Kept(staged[d], tree[d], superseded)
    BY <1>1, DeviceKeeps DEF FilesInv
<1> HIDE DEF state
<1> QED
    BY <1>1, <1>2, <1>3, BaseKept, SaveEdits

LEMMA FinishDiscardEdits ==
    ASSUME BInv, EInv, BInv', NEW d \in Device, FinishDiscard(d)
    PROVE  EInv'
<1> DEFINE state == SyncState(staged[d], mem[d].head, None, EmptyManifest)
<1>1. /\ UNCHANGED <<serverVars, tree, staged, cache, auxVars>> /\ Return(d)
      /\ pc[d] = "discarded" /\ st' = [st EXCEPT ![d] = state]
    BY DEF FinishDiscard
<1>2. state.base = staged[d]
    BY DEF SyncState
<1>3. Kept(staged[d], tree[d], superseded)
    BY <1>1, DeviceKeeps DEF FilesInv
<1> HIDE DEF state
<1> QED
    BY <1>1, <1>2, <1>3, BaseKept, SaveEdits

LEMMA FetchForDiscardEdits ==
    ASSUME BInv, EInv, BInv', NEW d \in Device, FetchForDiscard(d)
    PROVE  EInv'
<1> DEFINE m == mem[d]
<1>1. /\ OnlyDevice(d) /\ pc'[d] = "check" /\ pc[d] = "fetch"
      /\ UNCHANGED <<tree, staged, st, authored, superseded>>
      /\ mem'[d] = [m EXCEPT !.head = head, !.combined = ManifestAt(head)]
      /\ m.mode = "DiscardLocal"
    BY DEF FetchForDiscard, BInv, IInv, PerDeviceInv, PerDevice, Goto, OnlyDevice, auxVars
<1>2. IsMemory(m) /\ SavedInv(history, st[d])
    BY DEF BInv, IInv, DeviceInv, BaseInv, TreesInv
<1>3. /\ mem'[d].local = m.local /\ mem'[d].state = m.state /\ mem'[d].head = head
      /\ mem'[d].mode = "DiscardLocal"
    BY <1>1, <1>2 DEF IsMemory
<1>4. st[d].base # None => st[d].rev <= head
    BY <1>2 DEF SavedInv, head
<1>5. /\ CommandInv(st[d], "fetch", m)
      /\ FilesInv(history, tree[d], staged[d], st[d], "fetch", m, superseded)
    BY <1>1, DeviceKeeps
<1>6. CommandInv(st[d], "check", mem'[d])
    BY <1>3, <1>4, <1>5 DEF CommandInv
<1>7. FilesInv(history, tree[d], staged[d], st[d], "check", mem'[d], superseded)
    BY <1>3, <1>5 DEF FilesInv
<1>8. DeviceEdits(history, tree[d], staged[d], st[d], "check", mem'[d], superseded)
    BY <1>3, <1>6, <1>7 DEF DeviceEdits, PlanInv
<1> QED
    BY <1>1, <1>8, QuietEdits

-----------------------------------------------------------------------------
(* The steps of resolve and of the environment keep the edits.             *)

\* A user changes the files of d, and gives up what that takes away.
LEMMA ChangeEdits ==
    ASSUME BInv, EInv, BInv', NEW d \in Device, OnlyDevice(d), NEW after, tree'[d] = after,
           pc[d] \notin ApplyWindow, UNCHANGED <<staged, st>>,
           superseded' = superseded \cup Replaced(tree[d], after),
           authored' \subseteq authored \cup Contents(after),
           \/ pc'[d] = pc[d] /\ mem'[d] = mem[d]
           \/ /\ pc'[d] \in {"rename", "resolved"}
              /\ mem'[d].state.base = st[d].base /\ mem'[d].state.rev = st[d].rev
    PROVE  EInv'
<1> DEFINE m == mem[d]
           more == superseded'
<1>1. superseded \subseteq more /\ history' = history
    BY DEF OnlyDevice, serverVars
<1>2. \A p \in DOMAIN tree[d] :
        (IsFile(tree[d][p]) /\ get(after, p) # tree[d][p]) => tree[d][p] \in more
    BY ReplacedContents
<1>3. Contents(tree[d]) \subseteq Contents(after) \cup more
    BY ReplacedContents
<1> HIDE DEF more
<1>4. ASSUME NEW x, Kept(x, tree[d], superseded) PROVE Kept(x, after, more)
    BY <1>1, <1>2, <1>4, KeptAfterChange
<1>5. DeviceEdits(history, tree[d], staged[d], st[d], pc[d], m, superseded)
    BY DEF EInv, EditInv
<1>6. DeviceEdits(history, tree[d], staged[d], st[d], pc[d], m, more)
    BY <1>1, <1>5, EditsWithMore
<1>7. /\ Kept(Base(st[d]), after, more)
      /\ pc[d] \in {"publish", "finish", "discarded"} => Kept(staged[d], after, more)
    BY <1>4, <1>5 DEF DeviceEdits, FilesInv, ApplyWindow
<1>8. DeviceEdits(history, after, staged[d], st[d], pc'[d], mem'[d], more)
    <2>1. CASE pc'[d] = pc[d] /\ mem'[d] = mem[d]
        <3>1. FilesInv(history, after, staged[d], st[d], pc[d], m, more)
            BY <1>6, <1>7 DEF DeviceEdits, FilesInv, ApplyWindow
        <3>2. PlanInv(history, after, pc[d], m, more)
            BY <1>6 DEF DeviceEdits, PlanInv, ApplyWindow
        <3> QED
            BY <1>6, <2>1, <3>1, <3>2 DEF DeviceEdits
    <2>2. CASE /\ pc'[d] \in {"rename", "resolved"}
               /\ mem'[d].state.base = st[d].base /\ mem'[d].state.rev = st[d].rev
        BY <1>7, <2>2 DEF DeviceEdits, CommandInv, FilesInv, PlanInv, Working
    <2> QED
        BY <2>1, <2>2
<1>9. EditInv(d)'
    BY <1>1, <1>8 DEF EditInv, more
<1> QED
    BY <1>1, <1>3, <1>9, LocalEdits DEF more

LEMMA ResolveStepEdits ==
    ASSUME BInv, EInv, BInv', NEW d \in Device, NEW p \in DOMAIN st[d].conflicts,
           Resolving(d, p), NEW after, tree' = [tree EXCEPT ![d] = after],
           superseded' = superseded \cup Replaced(tree[d], after),
           NEW label \in {"resolved", "rename"}, Goto(d, label), pc[d] = "idle",
           UNCHANGED <<serverVars, staged, cache, st, authored>>
    PROVE  EInv'
<1> DEFINE records == st[d].conflicts
           kept == [q \in DOMAIN records \ {p} |-> records[q]]
           state == [st[d] EXCEPT !.conflicts = kept]
<1>1. IsSyncState(st[d])
    BY DEF BInv, IInv, DeviceInv
<1>2. state.base = st[d].base /\ state.rev = st[d].rev
    BY <1>1 DEF IsSyncState, SyncState
<1>3. mem' = [mem EXCEPT ![d] = [NoCommand EXCEPT !.todo = {p}, !.state = state]]
    BY DEF Resolving
<1> HIDE DEF state
<1>4. /\ OnlyDevice(d) /\ tree'[d] = after /\ pc'[d] = label
      /\ mem'[d] = [NoCommand EXCEPT !.todo = {p}, !.state = state]
    BY <1>3 DEF BInv, IInv, PerDeviceInv, PerDevice, Goto, OnlyDevice
<1>5. mem'[d].state = state
    BY <1>4 DEF NoCommand
<1> QED
    BY <1>2, <1>4, <1>5, ChangeEdits DEF ApplyWindow

LEMMA ResolveKeepLocalEdits ==
    ASSUME BInv, EInv, BInv', NEW d \in Device, ResolveKeepLocal(d)
    PROVE  EInv'
<1> DEFINE after(p) == IF st[d].conflicts[p].remote_deleted THEN tree[d]
                       ELSE RemovePath(tree[d], st[d].conflicts[p].copy)
<1>1. PICK p \in DOMAIN st[d].conflicts :
        /\ Resolving(d, p) /\ tree' = [tree EXCEPT ![d] = after(p)]
        /\ superseded' = superseded \cup Replaced(tree[d], after(p))
    BY DEF ResolveKeepLocal, GiveUp
<1>2. /\ Goto(d, "resolved") /\ UNCHANGED <<serverVars, staged, cache, st, authored>>
      /\ pc[d] = "idle"
    BY DEF ResolveKeepLocal
<1> HIDE DEF after
<1> QED
    BY <1>1, <1>2, ResolveStepEdits

LEMMA ResolveKeepRemoteEdits ==
    ASSUME BInv, EInv, BInv', NEW d \in Device, ResolveKeepRemote(d)
    PROVE  EInv'
<1>1. PICK p \in DOMAIN st[d].conflicts :
        /\ Resolving(d, p)
        /\ tree' = [tree EXCEPT ![d] = RemovePath(tree[d], p)]
        /\ superseded' = superseded \cup Replaced(tree[d], RemovePath(tree[d], p))
        /\ Goto(d, IF st[d].conflicts[p].remote_deleted THEN "resolved" ELSE "rename")
    BY DEF ResolveKeepRemote, symlink_metadata, GiveUp
<1>2. UNCHANGED <<serverVars, staged, cache, st, authored>> /\ pc[d] = "idle"
    BY DEF ResolveKeepRemote
<1>3. Goto(d, "resolved") \/ Goto(d, "rename")
    BY <1>1
<1> QED
    BY <1>1, <1>2, <1>3, ResolveStepEdits

LEMMA ResolveSaveEdits ==
    ASSUME BInv, EInv, BInv', NEW d \in Device, ResolveSave(d)
    PROVE  EInv'
<1>1. /\ st' = [st EXCEPT ![d] = mem[d].state] /\ pc[d] = "resolved"
      /\ UNCHANGED <<serverVars, tree, staged, cache, auxVars>> /\ Return(d)
    BY DEF ResolveSave
<1>2. mem[d].state.base = st[d].base /\ Kept(Base(st[d]), tree[d], superseded)
    BY <1>1, DeviceKeeps DEF CommandInv, FilesInv
<1>3. Kept(Base(mem[d].state), tree[d], superseded)
    BY <1>2 DEF Base
<1> QED
    BY <1>1, <1>3, SaveEdits

LEMMA InterruptEdits ==
    ASSUME ~TornApply, BInv, EInv, BInv', NEW d \in Device, Interrupt(d)
    PROVE  EInv'
<1>1. /\ Return(d) /\ UNCHANGED <<serverVars, tree, staged, cache, st, authored, superseded>>
      /\ pc[d] \notin {"apply", "restage"}
    BY DEF Interrupt, ApplyWindow
<1> QED
    BY <1>1, ReturnEdits, DeviceKeeps DEF FilesInv

\* What is on the way to the server keeps the files of the head it was made for.
LEMMA TimeOutEdits ==
    ASSUME BInv, EInv, BInv', NEW d \in Device, TimeOut(d)
    PROVE  EInv'
<1> DEFINE update == [expected |-> mem[d].head, manifest |-> staged[d], base |-> st[d].base]
<1>1. /\ late' = late \cup {update} /\ history' = history /\ pc[d] = "publish"
      /\ UNCHANGED <<tree, staged, cache, st, authored, superseded>> /\ Return(d)
    BY DEF TimeOut
<1>2. /\ Kept(Revision(history, mem[d].head), staged[d], superseded)
      /\ Kept(Base(st[d]), tree[d], superseded)
    BY <1>1, DeviceKeeps DEF FilesInv
<1>3. Kept(Revision(history, update.expected), update.manifest, superseded)
    BY <1>2
<1> HIDE DEF update
<1>4. LateKept(history, late', superseded)
    BY <1>1, <1>3 DEF EInv, LateKept
<1>5. /\ pc'[d] = "idle" /\ mem'[d] = NoCommand
      /\ \A e \in Device \ {d} : pc'[e] = pc[e] /\ mem'[e] = mem[e]
    BY <1>1 DEF BInv, IInv, PerDeviceInv, PerDevice, Return, Goto
<1>6. DeviceEdits(history, tree[d], staged[d], st[d], "idle", NoCommand, superseded)
    BY <1>2 DEF DeviceEdits, CommandInv, FilesInv, PlanInv, Working
<1>7. EditInv(d)'
    BY <1>1, <1>5, <1>6 DEF EditInv
<1>8. ASSUME NEW e \in Device, e # d PROVE EditInv(e)'
    BY <1>1, <1>5, <1>8 DEF EInv, EditInv
<1>9. EditsPreserved'
    BY <1>1 DEF EInv, EditsPreserved, ManifestAt, head
<1>10. HistoryKept(history', superseded') /\ LateKept(history', late', superseded')
    BY <1>1, <1>4 DEF EInv
<1> QED
    BY <1>7, <1>8, <1>9, <1>10 DEF EInv

\* An update that arrives late keeps the files of the head if the head has not moved.
LEMMA LateUpdateKeeps ==
    ASSUME BInv, EInv, LateUpdate
    PROVE  \E u \in late :
            /\ late' = late \ {u}
            /\ \/ /\ history' = Append(history, u.manifest)
                  /\ IsWorkingTree(u.manifest) /\ Kept(ManifestAt(head), u.manifest, superseded)
               \/ history' = history
<1>1. PICK u \in late :
        /\ late' = late \ {u}
        /\ history' = IF head_matches(u.expected) THEN Append(history, u.manifest) ELSE history
    BY DEF LateUpdate
<1>2. IsWorkingTree(u.manifest) /\ Kept(Revision(history, u.expected), u.manifest, superseded)
    BY DEF BInv, PublishedInv, EInv, LateKept
<1>3. ManifestAt(head) = Revision(history, head)
    BY DEF ManifestAt, Revision
<1> QED
    BY <1>1, <1>2, <1>3 DEF head_matches

LEMMA LateUpdateEdits ==
    ASSUME BInv, EInv, BInv', LateUpdate
    PROVE  EInv'
<1>1. PICK u \in late :
            /\ late' = late \ {u}
            /\ \/ /\ history' = Append(history, u.manifest)
                  /\ IsWorkingTree(u.manifest) /\ Kept(ManifestAt(head), u.manifest, superseded)
               \/ history' = history
    BY LateUpdateKeeps
<1>2. UNCHANGED <<tree, staged, st, pc, mem, authored, superseded>>
    BY DEF LateUpdate, deviceVars, auxVars
<1>3. \A x \in late' : x \in late
    BY <1>1
<1>4. CASE history' = Append(history, u.manifest)
           /\ IsWorkingTree(u.manifest) /\ Kept(ManifestAt(head), u.manifest, superseded)
    <2>1. /\ HistoryKept(history', superseded') /\ LateKept(history', late', superseded')
          /\ EditsPreserved'
          /\ \A e \in Device :
                DeviceEdits(history', tree[e], staged[e], st[e], pc[e], mem[e], superseded)
        BY <1>2, <1>3, <1>4, PublicationEdits
    <2> QED
        BY <1>2, <2>1 DEF EInv, EditInv
<1>5. CASE history' = history
    <2>1. HistoryKept(history', superseded') /\ LateKept(history', late', superseded')
        BY <1>2, <1>3, <1>5 DEF EInv, LateKept
    <2>2. EditsPreserved' /\ \A e \in Device : EditInv(e)'
        BY <1>2, <1>5 DEF EInv, EditInv, EditsPreserved, ManifestAt, head
    <2> QED
        BY <2>1, <2>2 DEF EInv
<1> QED
    BY <1>1, <1>4, <1>5

LEMMA UserEditEdits ==
    ASSUME ~LateEdits, BInv, EInv, BInv', NEW d \in Device, UserEdit(d)
    PROVE  EInv'
<1>1. PICK after :
        /\ tree' = [tree EXCEPT ![d] = after]
        /\ authored' = authored \cup (Contents(after) \ Contents(tree[d]))
        /\ superseded' = superseded \cup Replaced(tree[d], after)
    BY DEF UserEdit, GiveUp
<1>2. /\ UNCHANGED <<serverVars, staged, cache, st, pc, mem>> /\ pc[d] \notin ApplyWindow
    BY DEF UserEdit
<1>3. OnlyDevice(d) /\ tree'[d] = after
    BY <1>1, <1>2 DEF BInv, IInv, PerDeviceInv, PerDevice, OnlyDevice
<1>4. authored' \subseteq authored \cup Contents(after)
    BY <1>1
<1> QED
    BY <1>1, <1>2, <1>3, <1>4, ChangeEdits

LEMMA StutterEdits ==
    ASSUME EInv, UNCHANGED vars
    PROVE  EInv'
BY DEF EInv, EditInv, EditsPreserved, ManifestAt, head, vars, serverVars, deviceVars, auxVars

LEMMA NextEdits ==
    ASSUME ~LateEdits, ~TornApply
    PROVE  BInv /\ BInv' /\ NoRename /\ EInv /\ [Next]_vars => EInv'
<1> SUFFICES ASSUME BInv, BInv', NoRename, EInv, [Next]_vars PROVE EInv'
    OBVIOUS
<1>1. ASSUME NEW d \in Device, ResolveRename(d) PROVE FALSE
    BY <1>1 DEF ResolveRename, NoRename
<1>2. ASSUME NEW d \in Device, SyncStep(d) PROVE EInv'
    BY <1>1, <1>2, FetchAndPlanEdits, RecordUnchangedEdits, StageLocalEdits,
       CombineManifestsEdits, BeginApplyEdits, WalkTreeEdits, ApplyRemoveEdits, ApplyWriteEdits,
       ApplyDoneEdits, RestageEdits, PublishHeadEdits, PublicationRaceEdits, FinishSyncEdits,
       FetchForDiscardEdits, FinishDiscardEdits, ResolveSaveEdits
    DEF SyncStep
<1> QED
    BY <1>2, ScanLocalEdits, ResolveKeepLocalEdits, ResolveKeepRemoteEdits, InterruptEdits,
       TimeOutEdits, UserEditEdits, LateUpdateEdits, StutterEdits
    DEF Next

-----------------------------------------------------------------------------
\* What users write is not lost by sync, discard_local or a resolve that removes a side,
\* for any number of devices, whatever is merged, copied, published and retried: it is in
\* the head or on a disk until a user gives it up or it is merged.  Assumed are that files
\* being applied are neither edited nor left half applied, and that no copy is renamed.
THEOREM EditsArePreserved ==
    ASSUME ~LateEdits, ~TornApply
    PROVE  Spec /\ []NoRename => []EditsPreserved
<1>1. EInv => EditsPreserved
    BY DEF EInv
<1>2. BInv /\ [Next]_vars => BInv'
    BY NextBase
<1>3. BInv /\ BInv' /\ NoRename /\ EInv /\ [Next]_vars => EInv'
    BY NextEdits
<1> QED
    BY <1>1, <1>2, <1>3, InitBase, InitEdits, PTL DEF Spec

\* push_with_expected_head never takes a content out of the head that no user gave up and
\* no merge took in, under the same assumptions.
THEOREM NoUpdateIsLost ==
    ASSUME ~LateEdits, ~TornApply
    PROVE  Spec /\ []NoRename => NoLostUpdate
<1> DEFINE NoLoss == head' # head =>
                Contents(ManifestAt(head)) \ Contents(history'[head']) \subseteq superseded
<1>1. BInv /\ EInv /\ [Next]_vars => [NoLoss]_vars
    <2> SUFFICES ASSUME BInv, EInv, [Next]_vars, head' # head
                 PROVE  Contents(ManifestAt(head)) \ Contents(history'[head']) \subseteq superseded
        OBVIOUS
    <2>1. ASSUME NEW x, IsWorkingTree(x), Kept(ManifestAt(head), x, superseded),
                 history' = Append(history, x), \A u \in late' : u \in late
          PROVE  Contents(ManifestAt(head)) \ Contents(history'[head']) \subseteq superseded
        <3>1. history'[head'] = x
            BY <2>1, PublicationBase DEF head
        <3> QED
            BY <2>1, <3>1, KeptContents
    <2>2. CASE LateUpdate
        <3>1. PICK u \in late :
                /\ late' = late \ {u}
                /\ \/ /\ history' = Append(history, u.manifest)
                      /\ IsWorkingTree(u.manifest)
                      /\ Kept(ManifestAt(head), u.manifest, superseded)
                   \/ history' = history
            BY <2>2, LateUpdateKeeps
        <3>2. history' # history
            BY DEF head
        <3> QED
            BY <2>1, <3>1, <3>2
    <2>3. ASSUME NEW d \in Device, PublishHead(d)
          PROVE  Contents(ManifestAt(head)) \ Contents(history'[head']) \subseteq superseded
        <3>1. history' = Append(history, staged[d]) /\ late' = late
            BY <2>3 DEF PublishHead
        <3> QED
            BY <2>1, <2>3, <3>1, PublishedKeeps
    <2>4. LateUpdate \/ \E d \in Device : PublishHead(d)
        <3>1. history' # history
            BY DEF head
        <3> QED
            BY <3>1, OnlyPublicationMoves
    <2> QED
        BY <2>2, <2>3, <2>4
<1>2. BInv /\ [Next]_vars => BInv'
    BY NextBase
<1>3. BInv /\ BInv' /\ NoRename /\ EInv /\ [Next]_vars => EInv'
    BY NextEdits
<1> QED
    BY <1>1, <1>2, <1>3, InitBase, InitEdits, PTL DEF Spec, NoLostUpdate

-----------------------------------------------------------------------------
(* BaseIsCached, as long as no two versions of a file are merged: the run  *)
(* merge_stranded shows that it fails after a merge.  What a sync makes    *)
(* its base is in the cache because it was staged, or because the manifest *)
(* it applied holds it, at its path or in a copy, or because it is what    *)
(* the base before it had, which StageLocal found in the cache.            *)

\* No sync is about to merge two versions of a file.
NoMerges == \A d \in Device : pc[d] = "combine" => Merges(d) = {}

Cached(h, blobs, manifest, s, label, m) ==
    /\ Contents(manifest) \subseteq blobs
    /\ Contents(Base(s)) \subseteq blobs
    /\ Contents(Base(m.state)) \subseteq blobs
    /\ (label \in {"check", "walk", "apply"} /\ m.mode # "DiscardLocal") =>
            Contents(Revision(h, m.head)) \subseteq blobs \cup Contents(m.combined)
    /\ label = "restage" => Contents(Revision(h, m.head)) \subseteq blobs

CacheInv(d) == Cached(history, cache[d], staged[d], st[d], pc[d], mem[d])

CInv == \A d \in Device : CacheInv(d)

LEMMA NothingToCache == Contents(EmptyManifest) = {} /\ Base(DefaultState) = EmptyManifest
BY DEF Contents, EmptyManifest, Base, DefaultState, SyncState

LEMMA BaseCached ==
    ASSUME NEW s, NEW blobs, s.base = None \/ Contents(s.base) \subseteq blobs
    PROVE  Contents(Base(s)) \subseteq blobs
BY NothingToCache DEF Base

LEMMA LocalCached ==
    ASSUME CInv, NEW d \in Device, OnlyDevice(d),
           Cached(history, cache'[d], staged'[d], st'[d], pc'[d], mem'[d])
    PROVE  CInv'
<1>1. history' = history
    BY DEF OnlyDevice, serverVars
<1>2. CacheInv(d)'
    BY <1>1 DEF CacheInv
<1>3. ASSUME NEW e \in Device, e # d PROVE CacheInv(e)'
    BY <1>1, <1>3 DEF CInv, CacheInv, OnlyDevice
<1> QED
    BY <1>2, <1>3 DEF CInv

LEMMA ReturnCached ==
    ASSUME CInv, IInv', IInv, NEW d \in Device, UNCHANGED serverVars, Return(d),
           \A e \in Device \ {d} : /\ tree'[e] = tree[e] /\ staged'[e] = staged[e]
                                   /\ cache'[e] = cache[e] /\ st'[e] = st[e],
           Contents(staged'[d]) \subseteq cache'[d], Contents(Base(st'[d])) \subseteq cache'[d]
    PROVE  CInv'
<1>1. OnlyDevice(d) /\ mem'[d] = NoCommand /\ pc'[d] = "idle"
    BY DEF IInv, PerDeviceInv, PerDevice, Return, Goto, OnlyDevice
<1>2. NoCommand.state = DefaultState
    BY DEF NoCommand
<1>3. Cached(history, cache'[d], staged'[d], st'[d], "idle", NoCommand)
    BY <1>2, NothingToCache DEF Cached
<1> QED
    BY <1>1, <1>3, LocalCached

\* The history may grow, commands that have read a head do not see it.
LEMMA PublicationCached ==
    ASSUME BInv, CInv, NEW x, IsWorkingTree(x), history' = Append(history, x),
           \A u \in late' : u \in late, NEW e \in Device
    PROVE  Cached(history', cache[e], staged[e], st[e], pc[e], mem[e])
<1>1. /\ Len(history) \in Nat /\ \A i \in 1..Len(history) : history'[i] = history[i]
    BY PublicationBase
<1>2. mem[e].head \in 0..Len(history)
    BY KnownRevision DEF BInv, head
<1>3. mem[e].head = 0 \/ mem[e].head \in 1..Len(history)
    BY <1>1, <1>2
<1>4. Revision(history', mem[e].head) = Revision(history, mem[e].head)
    BY <1>1, <1>3 DEF Revision
<1> QED
    BY <1>4 DEF CInv, CacheInv, Cached

\* stage_all caches what it lists.
LEMMA StageCached ==
    ASSUME BInv, BInv', CInv, NEW d \in Device, stage_all(d)
    PROVE  /\ staged'[d] = tree[d] /\ cache'[d] = cache[d] \cup Contents(tree[d])
           /\ \A e \in Device \ {d} : staged'[e] = staged[e] /\ cache'[e] = cache[e]
BY DEF stage_all, BInv, IInv, PerDeviceInv, PerDevice

LEMMA InitCached == Init => CInv
<1> SUFFICES ASSUME Init, NEW d \in Device PROVE CacheInv(d)
    BY DEF CInv
<1>1. PICK seed \in Seeds :
        /\ cache[d] = Contents(seed) /\ staged[d] = seed /\ pc[d] = "idle" /\ mem[d] = NoCommand
        /\ st[d] = IF seed = EmptyManifest THEN DefaultState
                   ELSE SyncState(seed, 1, None, EmptyManifest)
    BY DEF Init
<1>2. st[d].base = None \/ st[d].base = seed
    BY <1>1 DEF DefaultState, SyncState
<1>3. Contents(Base(st[d])) \subseteq Contents(seed)
    BY <1>2, BaseCached
<1>4. NoCommand.state = DefaultState
    BY DEF NoCommand
<1>5. Cached(history, Contents(seed), seed, st[d], "idle", NoCommand)
    BY <1>3, <1>4, NothingToCache DEF Cached
<1> QED
    BY <1>1, <1>5 DEF CacheInv

LEMMA ScanLocalCached ==
    ASSUME BInv, BInv', CInv, NEW d \in Device, ScanLocal(d)
    PROVE  CInv'
<1>1. PICK mode \in Modes : mem' = [mem EXCEPT ![d] = Attempt(d, mode, 0)]
    BY DEF ScanLocal
<1>2. /\ OnlyDevice(d) /\ mem'[d] = Attempt(d, mode, 0) /\ pc'[d] = "fetch"
      /\ UNCHANGED <<staged, cache, st>>
    BY <1>1 DEF ScanLocal, BInv, IInv, PerDeviceInv, PerDevice, Goto, OnlyDevice
<1>3. mem'[d].state = st[d]
    BY <1>2 DEF Attempt
<1>4. Cached(history, cache[d], staged[d], st[d], "fetch", mem'[d])
    BY <1>3 DEF CInv, CacheInv, Cached
<1> QED
    BY <1>2, <1>4, LocalCached

LEMMA FetchAndPlanCached ==
    ASSUME BInv, BInv', CInv, NEW d \in Device, FetchAndPlan(d)
    PROVE  CInv'
<1> DEFINE m == mem[d]
           state == begin_pending(m.state, "Planning")
<1>1. IsMemory(m) /\ IsSyncState(m.state)
    BY DEF BInv, IInv, DeviceInv, IsMemory
<1>2. Base(state) = Base(m.state)
    BY <1>1 DEF begin_pending, IsSyncState, SyncState, Base
<1> HIDE DEF state
<1>3. /\ UNCHANGED <<serverVars, tree, staged, cache>>
      /\ \/ /\ mem' = [mem EXCEPT ![d].head = head] /\ Goto(d, "unchanged") /\ UNCHANGED st
         \/ /\ mem' = [mem EXCEPT ![d].head = head, ![d].state = state]
            /\ Goto(d, "stage") /\ st' = [st EXCEPT ![d] = state]
    BY DEF FetchAndPlan, state
<1>4. /\ OnlyDevice(d) /\ UNCHANGED <<staged, cache>>
      /\ \/ /\ mem'[d] = [m EXCEPT !.head = head]
            /\ pc'[d] = "unchanged" /\ st'[d] = st[d]
         \/ /\ mem'[d] = [m EXCEPT !.head = head, !.state = state]
            /\ pc'[d] = "stage" /\ st'[d] = state
    BY <1>3 DEF BInv, IInv, PerDeviceInv, PerDevice, Goto, OnlyDevice
<1>5. /\ Base(mem'[d].state) = Base(m.state) /\ pc'[d] \in {"unchanged", "stage"}
      /\ Base(st'[d]) = Base(st[d]) \/ Base(st'[d]) = Base(m.state)
    BY <1>1, <1>2, <1>4 DEF IsMemory
<1>6. Cached(history, cache[d], staged[d], st'[d], pc'[d], mem'[d])
    BY <1>5 DEF CInv, CacheInv, Cached
<1> QED
    BY <1>4, <1>6, LocalCached

LEMMA RecordUnchangedCached ==
    ASSUME BInv, BInv', CInv, NEW d \in Device, RecordUnchanged(d)
    PROVE  CInv'
<1> DEFINE s == mem[d].state
           state == [complete_pending(s) EXCEPT !.base = tree[d], !.rev = mem[d].head]
<1>1. state.base = tree[d]
    BY DEF BInv, IInv, DeviceInv, IsMemory, complete_pending, IsSyncState, SyncState
<1> HIDE DEF state
<1>2. /\ UNCHANGED <<serverVars, tree>> /\ Return(d) /\ stage_all(d)
      /\ st' = st \/ st' = [st EXCEPT ![d] = state]
    BY DEF RecordUnchanged, state
<1>3. /\ st'[d] = st[d] \/ st'[d] = state
      /\ \A e \in Device \ {d} : st'[e] = st[e]
    BY <1>2 DEF BInv, IInv, PerDeviceInv, PerDevice
<1>4. Contents(Base(st[d])) \subseteq cache'[d] /\ Contents(Base(state)) \subseteq cache'[d]
    <2>1. Contents(tree[d]) \subseteq cache'[d] /\ cache[d] \subseteq cache'[d]
        BY <1>2, StageCached
    <2> QED
        BY <1>1, <2>1, BaseCached DEF CInv, CacheInv, Cached
<1>5. Contents(Base(st'[d])) \subseteq cache'[d] /\ Contents(staged'[d]) \subseteq cache'[d]
    BY <1>2, <1>3, <1>4, StageCached
<1> QED
    BY <1>2, <1>3, <1>5, StageCached, ReturnCached DEF BInv

LEMMA StageLocalCached ==
    ASSUME BInv, BInv', CInv, NEW d \in Device, StageLocal(d)
    PROVE  CInv'
<1>1. /\ UNCHANGED <<serverVars, tree, st>> /\ stage_all(d)
      /\ (Goto(d, "combine") /\ UNCHANGED mem) \/ Return(d)
    BY DEF StageLocal
<1>2. /\ Contents(staged'[d]) \subseteq cache'[d] /\ cache[d] \subseteq cache'[d]
      /\ Contents(Base(st[d])) \subseteq cache'[d] /\ Contents(Base(mem[d].state)) \subseteq cache'[d]
    BY <1>1, StageCached DEF CInv, CacheInv, Cached
<1>3. CASE Return(d)
    BY <1>1, <1>2, <1>3, StageCached, ReturnCached DEF BInv
<1>4. CASE Goto(d, "combine") /\ UNCHANGED mem
    <2>1. OnlyDevice(d) /\ pc'[d] = "combine"
        BY <1>1, <1>4, StageCached DEF BInv, IInv, PerDeviceInv, PerDevice, Goto, OnlyDevice
    <2>2. Cached(history, cache'[d], staged'[d], st[d], "combine", mem[d])
        BY <1>2 DEF Cached
    <2> QED
        BY <1>1, <1>4, <2>1, <2>2, LocalCached
<1> QED
    BY <1>1, <1>3, <1>4

\* A file of the head that the combined manifest does not hold is one of the base.
LEMMA CombinedOrBase ==
    ASSUME BInv, NEW d \in Device, Merges(d) = {},
           NEW combined, combined = Combined(Base(mem[d].state), mem[d].local, Remote(d), CopyPaths(d))
    PROVE  Contents(Remote(d)) \subseteq Contents(Base(mem[d].state)) \cup Contents(combined)
<1> DEFINE base == Base(mem[d].state)
           local == mem[d].local
           remote == Remote(d)
<1>1. /\ IsWorkingTree(base) /\ IsWorkingTree(local) /\ IsWorkingTree(remote)
      /\ Merging(base, local, remote) = {}
      /\ FreshCopies(CopyPaths(d), Conflicts(base, local, remote), AllPaths(base, local, remote))
    BY PlanningTrees, MergesAreMerging, FreshCopyPaths
<1> HIDE DEF base, local, remote
<1>2. \A p \in DOMAIN remote : get(combined, p) # remote[p] =>
            \/ p \in Merging(base, local, remote)
            \/ get(base, p) = remote[p] /\ get(local, p) # remote[p]
            \/ \E q \in DOMAIN combined : Longer(p, q) /\ combined[q] = remote[p]
    <2>1. combined = Combined(base, local, remote, CopyPaths(d))
        BY DEF base, local, remote
    <2> QED
        BY <1>1, <2>1, WhereChanged
<1>3. ASSUME NEW p \in DOMAIN remote, IsFile(remote[p])
      PROVE  remote[p] \in Contents(base) \cup Contents(combined)
    <2>1. CASE get(combined, p) = remote[p]
        BY <1>3, <2>1 DEF Contents, get, IsFile
    <2>2. CASE get(base, p) = remote[p]
        BY <1>3, <2>2 DEF Contents, get, IsFile
    <2>3. CASE \E q \in DOMAIN combined : combined[q] = remote[p]
        BY <1>3, <2>3 DEF Contents
    <2> QED
        BY <1>1, <1>2, <2>1, <2>2, <2>3
<1>4. Contents(remote) \subseteq Contents(base) \cup Contents(combined)
    BY <1>3 DEF Contents
<1> QED
    BY <1>4 DEF base, remote

LEMMA CombineManifestsCached ==
    ASSUME BInv, BInv', CInv, NoMerges, NEW d \in Device, CombineManifests(d)
    PROVE  CInv'
<1> DEFINE m == mem[d]
           combined == Combined(Base(m.state), m.local, Remote(d), CopyPaths(d))
<1>1. PICK conflicts :
        mem' = [mem EXCEPT ![d].combined = combined, ![d].state.conflicts = conflicts]
    BY DEF CombineManifests, CopyPaths
<1>2. /\ Goto(d, "check") /\ pc[d] = "combine"
      /\ UNCHANGED <<serverVars, tree, staged, cache, st>>
    BY DEF CombineManifests
<1>3. IsMemory(m) /\ IsSyncState(m.state) /\ Remote(d) = Revision(history, m.head)
    BY PlanningTrees DEF BInv, IInv, DeviceInv, IsMemory
<1>4. Contents(Remote(d)) \subseteq Contents(Base(m.state)) \cup Contents(combined)
    BY <1>2, CombinedOrBase DEF NoMerges
<1> HIDE DEF combined
<1>5. /\ OnlyDevice(d) /\ pc'[d] = "check" /\ UNCHANGED <<staged, cache, st>>
      /\ mem'[d] = [m EXCEPT !.combined = combined, !.state.conflicts = conflicts]
    BY <1>1, <1>2 DEF BInv, IInv, PerDeviceInv, PerDevice, OnlyDevice, Goto
<1>6. /\ mem'[d].combined = combined /\ mem'[d].head = m.head
      /\ mem'[d].state = [m.state EXCEPT !.conflicts = conflicts]
    BY <1>3, <1>5 DEF IsMemory
<1>7. Base(mem'[d].state) = Base(m.state)
    BY <1>3, <1>6 DEF IsSyncState, SyncState, Base
<1>8. Cached(history, cache[d], staged[d], st[d], "check", mem'[d])
    BY <1>3, <1>4, <1>6, <1>7 DEF CInv, CacheInv, Cached
<1> QED
    BY <1>5, <1>8, LocalCached

LEMMA BeginApplyCached ==
    ASSUME BInv, BInv', CInv, NEW d \in Device, BeginApply(d)
    PROVE  CInv'
<1> DEFINE m == mem[d]
           state == IF m.mode = "DiscardLocal" THEN m.state
                    ELSE begin_pending(m.state, "Download")
<1>1. IsMemory(m) /\ IsSyncState(m.state) /\ pc[d] = "check"
    BY DEF BInv, IInv, DeviceInv, IsMemory, BeginApply
<1>2. Base(state) = Base(m.state)
    BY <1>1 DEF begin_pending, IsSyncState, SyncState, Base
<1> HIDE DEF state
<1>3. /\ UNCHANGED <<serverVars, tree, staged, cache>>
      /\ st' = st \/ st' = [st EXCEPT ![d] = state]
      /\ \/ mem' = [mem EXCEPT ![d].state = state] /\ Goto(d, "walk")
         \/ Return(d)
    BY DEF BeginApply, state
<1>4. Cached(history, cache[d], staged[d], st[d], "check", m)
    BY <1>1 DEF CInv, CacheInv
<1>5. /\ Contents(Base(st'[d])) \subseteq cache[d]
      /\ \A e \in Device \ {d} : st'[e] = st[e]
    <2>1. /\ st'[d] = st[d] \/ st'[d] = state
          /\ \A e \in Device \ {d} : st'[e] = st[e]
        BY <1>3 DEF BInv, IInv, PerDeviceInv, PerDevice
    <2> QED
        BY <1>2, <1>4, <2>1 DEF Cached
<1>6. CASE Return(d)
    BY <1>3, <1>4, <1>5, <1>6, ReturnCached DEF BInv, Cached
<1>7. CASE mem' = [mem EXCEPT ![d].state = state] /\ Goto(d, "walk")
    <2>1. /\ OnlyDevice(d) /\ pc'[d] = "walk" /\ mem'[d] = [m EXCEPT !.state = state]
        BY <1>3, <1>5, <1>7 DEF BInv, IInv, PerDeviceInv, PerDevice, Goto, OnlyDevice
    <2>2. /\ mem'[d].combined = m.combined /\ mem'[d].state = state
          /\ mem'[d].head = m.head /\ mem'[d].mode = m.mode
        BY <1>1, <2>1 DEF IsMemory
    <2>3. Cached(history, cache[d], staged[d], st'[d], "walk", mem'[d])
        BY <1>2, <1>4, <1>5, <2>2 DEF Cached
    <2> QED
        BY <1>3, <2>1, <2>3, LocalCached
<1> QED
    BY <1>3, <1>6, <1>7

\* A new list of things to do changes nothing that is cached.
LEMMA ListCached ==
    ASSUME BInv, CInv, NEW d \in Device, NEW todo, pc[d] \in {"walk", "apply"},
           OnlyDevice(d), pc'[d] = "apply", mem'[d] = [mem[d] EXCEPT !.todo = todo],
           UNCHANGED <<staged, st>>, cache[d] \subseteq cache'[d]
    PROVE  CInv'
<1> DEFINE m == mem[d]
<1>1. /\ mem'[d].combined = m.combined /\ mem'[d].state = m.state
      /\ mem'[d].head = m.head /\ mem'[d].mode = m.mode
    BY DEF BInv, IInv, DeviceInv, IsMemory
<1>2. Cached(history, cache[d], staged[d], st[d], pc[d], m)
    BY DEF CInv, CacheInv
<1>3. Cached(history, cache'[d], staged[d], st[d], "apply", mem'[d])
    BY <1>1, <1>2 DEF Cached
<1> QED
    BY <1>3, LocalCached

LEMMA ApplyCached ==
    ASSUME BInv, BInv', CInv, NEW d \in Device, WalkTree(d) \/ ApplyRemove(d) \/ ApplyWrite(d)
    PROVE  CInv'
<1>1. CASE WalkTree(d)
    <2>1. /\ UNCHANGED <<serverVars, tree, staged, cache, st>> /\ pc[d] = "walk"
          /\ \/ \E todo : mem' = [mem EXCEPT ![d].todo = todo] /\ Goto(d, "apply")
             \/ Return(d)
        BY <1>1 DEF WalkTree
    <2>2. CASE Return(d)
        BY <2>1, <2>2, ReturnCached DEF BInv, CInv, CacheInv, Cached
    <2>3. ASSUME NEW todo, mem' = [mem EXCEPT ![d].todo = todo], Goto(d, "apply") PROVE CInv'
        <3>1. OnlyDevice(d) /\ pc'[d] = "apply" /\ mem'[d] = [mem[d] EXCEPT !.todo = todo]
            BY <2>1, <2>3 DEF BInv, IInv, PerDeviceInv, PerDevice, Goto, OnlyDevice
        <3> QED
            BY <2>1, <3>1, ListCached
    <2> QED
        BY <2>1, <2>2, <2>3
<1>2. CASE ApplyRemove(d)
    <2>1. UNCHANGED <<serverVars, staged, cache, st, pc>> /\ pc[d] = "apply"
        BY <1>2 DEF ApplyRemove
    <2>2. PICK p, after : /\ mem' = [mem EXCEPT ![d].todo = @ \ {p}]
                          /\ tree' = [tree EXCEPT ![d] = after]
        BY <1>2 DEF ApplyRemove
    <2>3. /\ OnlyDevice(d) /\ mem'[d] = [mem[d] EXCEPT !.todo = mem[d].todo \ {p}]
        BY <2>1, <2>2 DEF BInv, IInv, PerDeviceInv, PerDevice, OnlyDevice
    <2> QED
        BY <2>1, <2>3, ListCached
<1>3. CASE ApplyWrite(d)
    <2>1. UNCHANGED <<serverVars, staged, st, pc>> /\ pc[d] = "apply"
        BY <1>3 DEF ApplyWrite
    <2>2. PICK p \in mem[d].todo :
            /\ mem' = [mem EXCEPT ![d].todo = @ \ {p}]
            /\ cache' = [cache EXCEPT ![d] = @ \cup ({mem[d].combined[p]} \ {Directory})]
            /\ tree' = [tree EXCEPT ![d] = WriteEntry(@, p, mem[d].combined[p])]
        BY <1>3 DEF ApplyWrite
    <2>3. /\ OnlyDevice(d) /\ mem'[d] = [mem[d] EXCEPT !.todo = mem[d].todo \ {p}]
          /\ cache[d] \subseteq cache'[d]
        BY <2>1, <2>2 DEF BInv, IInv, PerDeviceInv, PerDevice, OnlyDevice
    <2> QED
        BY <2>1, <2>3, ListCached
<1> QED
    BY <1>1, <1>2, <1>3

LEMMA ApplyDoneCached ==
    ASSUME BInv, BInv', CInv, NEW d \in Device, ApplyDone(d)
    PROVE  CInv'
<1> DEFINE m == mem[d]
<1>1. /\ OnlyDevice(d) /\ UNCHANGED <<st, mem>> /\ pc[d] = "apply"
      /\ staged'[d] = m.combined /\ cache'[d] = cache[d] \cup Contents(m.combined)
      /\ pc'[d] = IF m.mode = "DiscardLocal" THEN "discarded" ELSE "restage"
    BY DEF ApplyDone, BInv, IInv, PerDeviceInv, PerDevice, Goto, OnlyDevice
<1>2. Cached(history, cache[d], staged[d], st[d], "apply", m)
    BY <1>1 DEF CInv, CacheInv
<1>3. Cached(history, cache'[d], m.combined, st[d], pc'[d], m)
    BY <1>1, <1>2 DEF Cached
<1> QED
    BY <1>1, <1>3, LocalCached

LEMMA RestageCached ==
    ASSUME BInv, BInv', CInv, NEW d \in Device, Restage(d)
    PROVE  CInv'
<1> DEFINE m == mem[d]
           applied == [m.state EXCEPT !.base = Remote(d), !.rev = m.head]
           label == IF requires_publication(Plan(d)) THEN "publish" ELSE "finish"
<1>1. PICK state :
        /\ state \in {applied, begin_pending(applied, "Publication")}
        /\ stage_all(d)
        /\ st' = [st EXCEPT ![d] = state]
        /\ mem' = [mem EXCEPT ![d].state = state, ![d].synced = m.head]
        /\ Goto(d, label) /\ pc[d] = "restage"
        /\ UNCHANGED <<serverVars, tree>>
    BY DEF Restage
<1>2. /\ IsMemory(m) /\ IsSyncState(m.state) /\ Remote(d) = Revision(history, m.head)
    BY PlanningTrees DEF BInv, IInv, DeviceInv, IsMemory
<1>3. state.base = Remote(d)
    BY <1>1, <1>2 DEF IsSyncState, SyncState, begin_pending
<1> HIDE DEF applied
<1>4. label \in {"publish", "finish"}
    OBVIOUS
<1> HIDE DEF label
<1>5. /\ OnlyDevice(d) /\ st'[d] = state /\ pc'[d] = label
      /\ mem'[d] = [m EXCEPT !.state = state, !.synced = m.head]
    BY <1>1, StageCached DEF BInv, IInv, PerDeviceInv, PerDevice, Goto, OnlyDevice
<1>6. mem'[d].state = state
    BY <1>2, <1>5 DEF IsMemory
<1>7. Contents(Remote(d)) \subseteq cache'[d] /\ Contents(staged'[d]) \subseteq cache'[d]
    BY <1>1, <1>2, StageCached DEF CInv, CacheInv, Cached
<1>8. Cached(history, cache'[d], staged'[d], state, label, mem'[d])
    BY <1>3, <1>4, <1>6, <1>7, BaseCached DEF Cached
<1> QED
    BY <1>5, <1>8, LocalCached

LEMMA PublishHeadCached ==
    ASSUME BInv, BInv', CInv, NEW d \in Device, PublishHead(d)
    PROVE  CInv'
<1>1. /\ history' = Append(history, staged[d]) /\ late' = late
      /\ UNCHANGED <<staged, cache, st>>
      /\ pc'[d] = "finish" /\ mem'[d] = [mem[d] EXCEPT !.synced = head + 1]
      /\ \A e \in Device \ {d} : pc'[e] = pc[e] /\ mem'[e] = mem[e]
    BY DEF PublishHead, BInv, IInv, PerDeviceInv, PerDevice, Goto
<1>2. IsWorkingTree(staged[d])
    BY DEF BInv, BaseInv, TreesInv
<1>3. \A e \in Device : Cached(history', cache[e], staged[e], st[e], pc[e], mem[e])
    BY <1>1, <1>2, PublicationCached
<1>4. mem'[d].state = mem[d].state
    BY <1>1 DEF BInv, IInv, DeviceInv, IsMemory
<1>5. Cached(history', cache[d], staged[d], st[d], "finish", mem'[d])
    BY <1>3, <1>4 DEF Cached
<1> QED
    BY <1>1, <1>3, <1>5 DEF CInv, CacheInv

LEMMA PublicationRaceCached ==
    ASSUME BInv, BInv', CInv, NEW d \in Device, PublicationRace(d)
    PROVE  CInv'
<1>1. /\ UNCHANGED <<serverVars, tree, staged, cache, st>>
      /\ \/ mem' = [mem EXCEPT ![d] = Attempt(d, "Reconcile", 1)] /\ Goto(d, "fetch")
         \/ Return(d)
    BY DEF PublicationRace
<1>2. CASE Return(d)
    BY <1>1, <1>2, ReturnCached DEF BInv, CInv, CacheInv, Cached
<1>3. CASE mem' = [mem EXCEPT ![d] = Attempt(d, "Reconcile", 1)] /\ Goto(d, "fetch")
    <2>1. OnlyDevice(d) /\ pc'[d] = "fetch" /\ mem'[d] = Attempt(d, "Reconcile", 1)
        BY <1>1, <1>3 DEF BInv, IInv, PerDeviceInv, PerDevice, Goto, OnlyDevice
    <2>2. mem'[d].state = st[d]
        BY <2>1 DEF Attempt
    <2>3. Cached(history, cache[d], staged[d], st[d], "fetch", mem'[d])
        BY <2>2 DEF CInv, CacheInv, Cached
    <2> QED
        BY <1>1, <2>1, <2>3, LocalCached
<1> QED
    BY <1>1, <1>2, <1>3

\* A command that saves a base it has cached, and ends.
LEMMA SaveCached ==
    ASSUME BInv, BInv', CInv, NEW d \in Device, NEW state, Return(d),
           st' = [st EXCEPT ![d] = state], UNCHANGED <<serverVars, tree, staged, cache>>,
           Contents(Base(state)) \subseteq cache[d]
    PROVE  CInv'
<1>1. st'[d] = state /\ \A e \in Device \ {d} : st'[e] = st[e]
    BY DEF BInv, IInv, PerDeviceInv, PerDevice
<1> QED
    BY <1>1, ReturnCached DEF BInv, CInv, CacheInv, Cached

LEMMA FinishCached ==
    ASSUME BInv, BInv', CInv, NEW d \in Device,
           FinishSync(d) \/ FinishDiscard(d) \/ ResolveSave(d)
    PROVE  CInv'
<1>1. /\ Contents(staged[d]) \subseteq cache[d]
      /\ Contents(Base(mem[d].state)) \subseteq cache[d]
    BY DEF CInv, CacheInv, Cached
<1>2. CASE FinishSync(d)
    <2> DEFINE state == [complete_pending(mem[d].state) EXCEPT
                            !.base = staged[d], !.rev = mem[d].synced]
    <2>1. /\ UNCHANGED <<serverVars, tree, staged, cache>> /\ Return(d)
          /\ st' = [st EXCEPT ![d] = state]
        BY <1>2 DEF FinishSync
    <2>2. state.base = staged[d]
        BY DEF BInv, IInv, DeviceInv, IsMemory, complete_pending, IsSyncState, SyncState
    <2> HIDE DEF state
    <2> QED
        BY <1>1, <2>1, <2>2, BaseCached, SaveCached
<1>3. CASE FinishDiscard(d)
    <2> DEFINE state == SyncState(staged[d], mem[d].head, None, EmptyManifest)
    <2>1. /\ UNCHANGED <<serverVars, tree, staged, cache>> /\ Return(d)
          /\ st' = [st EXCEPT ![d] = state]
        BY <1>3 DEF FinishDiscard
    <2>2. state.base = staged[d]
        BY DEF SyncState
    <2> HIDE DEF state
    <2> QED
        BY <1>1, <2>1, <2>2, BaseCached, SaveCached
<1>4. CASE ResolveSave(d)
    BY <1>1, <1>4, SaveCached DEF ResolveSave
<1> QED
    BY <1>2, <1>3, <1>4

LEMMA FetchForDiscardCached ==
    ASSUME BInv, BInv', CInv, NEW d \in Device, FetchForDiscard(d)
    PROVE  CInv'
<1> DEFINE m == mem[d]
<1>1. /\ OnlyDevice(d) /\ pc'[d] = "check" /\ UNCHANGED <<staged, cache, st>>
      /\ mem'[d] = [m EXCEPT !.head = head, !.combined = ManifestAt(head)]
      /\ m.mode = "DiscardLocal"
    BY DEF FetchForDiscard, BInv, IInv, PerDeviceInv, PerDevice, Goto, OnlyDevice
<1>2. mem'[d].state = m.state /\ mem'[d].mode = "DiscardLocal"
    BY <1>1 DEF BInv, IInv, DeviceInv, IsMemory
<1>3. Cached(history, cache[d], staged[d], st[d], "check", mem'[d])
    BY <1>2 DEF CInv, CacheInv, Cached
<1> QED
    BY <1>1, <1>3, LocalCached

\* resolve keeps the base it found.
LEMMA ResolveCached ==
    ASSUME BInv, BInv', CInv, NEW d \in Device, ResolveKeepLocal(d) \/ ResolveKeepRemote(d)
    PROVE  CInv'
<1>1. /\ UNCHANGED <<serverVars, staged, cache, st>>
      /\ \E p \in DOMAIN st[d].conflicts : Resolving(d, p)
      /\ \E after : tree' = [tree EXCEPT ![d] = after]
      /\ Goto(d, "resolved") \/ Goto(d, "rename")
    <2>1. CASE ResolveKeepLocal(d)
        BY <2>1 DEF ResolveKeepLocal
    <2>2. CASE ResolveKeepRemote(d)
        BY <2>2 DEF ResolveKeepRemote
    <2> QED
        BY <2>1, <2>2
<1>2. PICK p \in DOMAIN st[d].conflicts : Resolving(d, p)
    BY <1>1
<1>3. PICK after : tree' = [tree EXCEPT ![d] = after]
    BY <1>1
<1> DEFINE records == st[d].conflicts
           state == [st[d] EXCEPT !.conflicts = [q \in DOMAIN records \ {p} |-> records[q]]]
<1>4. Base(state) = Base(st[d])
    BY DEF BInv, IInv, DeviceInv, IsSyncState, SyncState, Base
<1>5. mem' = [mem EXCEPT ![d] = [NoCommand EXCEPT !.todo = {p}, !.state = state]]
    BY <1>2 DEF Resolving
<1> HIDE DEF state
<1>6. /\ OnlyDevice(d) /\ pc'[d] \in {"resolved", "rename"}
      /\ mem'[d] = [NoCommand EXCEPT !.todo = {p}, !.state = state]
    BY <1>1, <1>3, <1>5 DEF BInv, IInv, PerDeviceInv, PerDevice, Goto, OnlyDevice
<1>7. mem'[d].state = state
    BY <1>6 DEF NoCommand
<1>8. Cached(history, cache[d], staged[d], st[d], pc'[d], mem'[d])
    BY <1>4, <1>6, <1>7 DEF CInv, CacheInv, Cached
<1> QED
    BY <1>1, <1>6, <1>8, LocalCached

LEMMA ResolveRenameCached ==
    ASSUME BInv, BInv', CInv, NEW d \in Device, ResolveRename(d)
    PROVE  CInv'
<1>1. /\ UNCHANGED <<serverVars, staged, cache, st>>
      /\ \/ /\ \E after : tree' = [tree EXCEPT ![d] = after]
            /\ Goto(d, "resolved") /\ UNCHANGED mem
         \/ Return(d) /\ UNCHANGED tree
    BY DEF ResolveRename
<1>2. CASE Return(d) /\ UNCHANGED tree
    BY <1>1, <1>2, ReturnCached DEF BInv, CInv, CacheInv, Cached
<1>3. ASSUME NEW after, tree' = [tree EXCEPT ![d] = after], Goto(d, "resolved"), UNCHANGED mem
      PROVE  CInv'
    <2>1. OnlyDevice(d) /\ pc'[d] = "resolved"
        BY <1>1, <1>3 DEF BInv, IInv, PerDeviceInv, PerDevice, Goto, OnlyDevice
    <2>2. Cached(history, cache[d], staged[d], st[d], "resolved", mem[d])
        BY DEF CInv, CacheInv, Cached
    <2> QED
        BY <1>1, <1>3, <2>1, <2>2, LocalCached
<1> QED
    BY <1>1, <1>2, <1>3

LEMMA EnvironmentCached ==
    ASSUME BInv, BInv', CInv
    PROVE  /\ \A d \in Device : Interrupt(d) \/ TimeOut(d) \/ UserEdit(d) => CInv'
           /\ LateUpdate \/ UNCHANGED vars => CInv'
<1>1. ASSUME NEW d \in Device, Interrupt(d) PROVE CInv'
    BY <1>1, ReturnCached DEF Interrupt, BInv, CInv, CacheInv, Cached
<1>2. ASSUME NEW d \in Device, TimeOut(d) PROVE CInv'
    <2>1. UNCHANGED <<history, staged, cache, st>> /\ Return(d)
        BY <1>2 DEF TimeOut
    <2>2. /\ pc'[d] = "idle" /\ mem'[d] = NoCommand
          /\ \A e \in Device \ {d} : pc'[e] = pc[e] /\ mem'[e] = mem[e]
        BY <2>1 DEF BInv, IInv, PerDeviceInv, PerDevice, Return, Goto
    <2>3. NoCommand.state = DefaultState
        BY DEF NoCommand
    <2>4. Cached(history, cache[d], staged[d], st[d], "idle", NoCommand)
        BY <2>3, NothingToCache DEF CInv, CacheInv, Cached
    <2> QED
        BY <2>1, <2>2, <2>4 DEF CInv, CacheInv
<1>3. ASSUME NEW d \in Device, UserEdit(d) PROVE CInv'
    BY <1>3 DEF UserEdit, serverVars, CInv, CacheInv
<1>4. CASE LateUpdate
    <2>1. PICK u \in late : /\ late' = late \ {u}
                            /\ \/ history' = Append(history, u.manifest)
                               \/ history' = history
        BY <1>4 DEF LateUpdate
    <2>2. UNCHANGED <<staged, cache, st, pc, mem>> /\ IsWorkingTree(u.manifest)
        BY <1>4 DEF LateUpdate, deviceVars, BInv, PublishedInv
    <2>3. CASE history' = history
        BY <2>2, <2>3 DEF CInv, CacheInv
    <2>4. CASE history' = Append(history, u.manifest)
        <3>1. \A e \in Device : Cached(history', cache[e], staged[e], st[e], pc[e], mem[e])
            BY <2>1, <2>2, <2>4, PublicationCached
        <3> QED
            BY <2>2, <3>1 DEF CInv, CacheInv
    <2> QED
        BY <2>1, <2>3, <2>4
<1>5. CASE UNCHANGED vars
    BY <1>5 DEF vars, serverVars, deviceVars, CInv, CacheInv
<1> QED
    BY <1>1, <1>2, <1>3, <1>4, <1>5

LEMMA NextCached == BInv /\ BInv' /\ NoMerges /\ CInv /\ [Next]_vars => CInv'
<1> SUFFICES ASSUME BInv, BInv', NoMerges, CInv, [Next]_vars PROVE CInv'
    OBVIOUS
<1>1. ASSUME NEW d \in Device, SyncStep(d) PROVE CInv'
    BY <1>1, FetchAndPlanCached, RecordUnchangedCached, StageLocalCached,
       CombineManifestsCached, BeginApplyCached, ApplyCached, ApplyDoneCached, RestageCached,
       PublishHeadCached, PublicationRaceCached, FinishCached, FetchForDiscardCached,
       ResolveRenameCached
    DEF SyncStep
<1> QED
    BY <1>1, ScanLocalCached, ResolveCached, EnvironmentCached DEF Next

\* stage_all and apply_pulled_manifest cache every file of the manifest that becomes the
\* base, so a sync never stops with MissingStagedBlob, wherever commands stop, as long as
\* nothing is merged and nobody edits files that are being applied.
THEOREM BaseStaysCached ==
    ASSUME ~LateEdits
    PROVE  Spec /\ []NoMerges => []BaseIsCached
<1>1. CInv => BaseIsCached
    BY DEF CInv, CacheInv, Cached, BaseIsCached
<1>2. BInv /\ [Next]_vars => BInv'
    BY NextBase
<1> QED
    BY <1>1, <1>2, NextCached, InitBase, InitCached, PTL DEF Spec
=============================================================================
