------------------------------ MODULE Planning ------------------------------
(***************************************************************************)
(* What the reconciliation of Reconciliation.tla owes to the two sides.    *)
(*                                                                         *)
(* The state is one input of the planner: a base and the two trees that    *)
(* grew out of it, one on the local disk and one on the server.  Users     *)
(* edit either side; every pair of histories is an input the planner has   *)
(* to cope with, so the invariants below hold for all of them.             *)
(***************************************************************************)
EXTENDS Reconciliation

CONSTANTS
    Universe,    \* the paths users work with
    Versions,    \* the file contents users write
    Revision     \* the remote revision that copies are named after

ASSUME PlanningAssumption ==
    /\ Universe \subseteq Path
    /\ Versions \subseteq Content
    /\ Revision \in Nat

VARIABLES base, local, remote

vars == <<base, local, remote>>

\* Every tree a user can make of m in one change that leaves a tree.
Edited(m) ==
    {t \in {WriteEntry(m, p, e) : p \in Universe, e \in Versions \cup {Directory}}
           \cup {RemovePath(m, p) : p \in DOMAIN m} : IsTree(t)}

Init ==
    /\ base = EmptyManifest
    /\ local = EmptyManifest
    /\ remote = EmptyManifest

LocalEdit == local' \in Edited(local) /\ UNCHANGED <<base, remote>>

RemoteEdit == remote' \in Edited(remote) /\ UNCHANGED <<base, local>>

\* Both sides meet: the common tree is the next base.
Agree == local = remote /\ base' = local /\ UNCHANGED <<local, remote>>

Next == LocalEdit \/ RemoteEdit \/ Agree

Spec == Init /\ [][Next]_vars

-----------------------------------------------------------------------------
Reserved == AllPaths(base, local, remote)

Copy == [p \in Conflicts(base, local, remote) |->
            remote_copy_path(p, Revision, Reserved)]

Result == Combined(base, local, remote, Copy)

\* The manifest sync_workflow applies is a tree: validate_manifest_paths accepts
\* it and no file is planned below another file or below nothing, however the two
\* sides exchanged files and directories.
CombinedIsTree == IsTree(Result) /\ IsManifest(Result)

\* A text that carries one side's changes to the base, line by line.
Carries(text, from, side) ==
    /\ {text, from, side} \cap Binary = {}
    /\ Len(text) = Len(side) /\ Len(from) = Len(side)
    /\ \A i \in 1..Len(side) : side[i] # from[i] => text[i] = side[i]

\* "Preserve": a file one side changed is in the result, at its path, at the
\* conflict copy, or line by line in the merged text.  Nothing a user wrote since
\* the base disappears in one reconciliation.
EditsSurvive ==
    LET preserved(side, p, copies) ==
            \/ side[p] = get(Result, p)
            \/ \E c \in copies : side[p] = get(Result, c)
            \/ /\ IsFile(get(base, p)) /\ IsFile(get(Result, p))
               /\ Carries(Result[p], base[p], side[p])
        copiesOf(p) == {CopyOf(q, p, Copy[q]) :
                            q \in {r \in DOMAIN Copy : r = p \/ Below(r, p)}}
    IN /\ \A p \in DOMAIN local :
            (IsFile(local[p]) /\ local[p] # get(base, p)) => preserved(local, p, {})
       /\ \A p \in DOMAIN remote :
            (IsFile(remote[p]) /\ remote[p] # get(base, p))
                => preserved(remote, p, copiesOf(p))

\* Two trees hold the same at p and below it.
SameBelow(one, other, p) ==
    \A q \in Subtree(p, DOMAIN one \cup DOMAIN other) : get(one, q) = get(other, q)

\* A subtree that one side left alone is taken over from the other side as a whole,
\* its deletions included, unless it lies within a conflict: the plan decides path by
\* path, and nothing of the old subtree, nor a copy, stays among the new one.
UntouchedSideYields ==
    \A p \in Reserved :
        (\A root \in DOMAIN Copy : ~Below(root, p)) =>
            /\ SameBelow(base, local, p) => SameBelow(Result, remote, p)
            /\ SameBelow(base, remote, p) => SameBelow(Result, local, p)

\* The plan of one side is the mirror image of the other side's plan: whichever
\* device reconciles, the same paths conflict, merge, and win.
PlanIsSymmetric ==
    LET mirror == [Unchanged |-> "Unchanged", Upload |-> "Download",
                   Download |-> "Upload", Merge |-> "Merge", Conflict |-> "Conflict"]
        plan == plan_reconciliation(base, local, remote)
        other == plan_reconciliation(base, remote, local)
    IN other = [p \in DOMAIN plan |-> mirror[plan[p]]]
=============================================================================
