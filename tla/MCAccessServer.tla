--------------------------- MODULE MCAccessServer ---------------------------
EXTENDS AccessServer, TLC

CONSTANTS d1, d2, k, r1, r2, r3

\* The founder asks once, the other device twice.
Twice == (r1 :> d1) @@ (r2 :> d2) @@ (r3 :> d2)

Member(role, status) == [role |-> role, status |-> status]

Found(members, grants) == [revision |-> 1, members |-> members, grants |-> grants]

\* The command line posts the first of these; the server also takes the others: another
\* owner who never asked, and grants to devices that are no members, or were.
Posted ==
    {Found(d1 :> Member("Owner", "Active"), EmptyAccess.grants),
     Found(d1 :> Member("Owner", "Active") @@ d2 :> Member("Owner", "Active"),
           EmptyAccess.grants),
     Found(d1 :> Member("Owner", "Active"), <<k, d2>> :> TRUE),
     Found(d1 :> Member("Owner", "Active") @@ d2 :> Member("Member", "Removed"),
           <<k, d2>> :> TRUE)}

\* Handlers are interchangeable.
HandlerSymmetry == Permutations(Handler)
=============================================================================
