--------------------------- MODULE MCObjectStore ---------------------------
EXTENDS ObjectStore, TLC

\* Handlers are interchangeable.
HandlerSymmetry == Permutations(Handler)
=============================================================================
