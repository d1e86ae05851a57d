-------------------------- MODULE MCServerProcess --------------------------
EXTENDS ServerProcess, TLC

\* No database; one whose migration was not recorded; one of a later version; and one
\* with other objects in it.
MCDatabases ==
    {None, [objects |-> Statements, versions |-> {}],
     [objects |-> Statements, versions |-> {1, 2}], [objects |-> Foreign, versions |-> {1}]}

\* Processes, handlers and nonces are interchangeable.
ServerSymmetry == Permutations(Process) \cup Permutations(Handler) \cup Permutations(Nonce)
=============================================================================
