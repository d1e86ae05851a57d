----------------------------- MODULE HeadStore -----------------------------
(***************************************************************************)
(* What the server's storage promises to the devices, and what             *)
(* SyncWorkflow builds on: uploaded objects stay, and the head moves one   *)
(* revision at a time, each time to a manifest that is there, and tells    *)
(* exactly one writer that it did.                                         *)
(***************************************************************************)
EXTENDS Naturals

CONSTANTS
    Object,  \* the content ids of blobs and manifests
    None     \* the manifest of an empty head

VARIABLES
    objects,  \* the objects that can be read
    acked,    \* the uploads that succeeded
    head,     \* the workspace head
    wins      \* the head updates that succeeded

vars == <<objects, acked, head, wins>>

Init ==
    /\ objects = {}
    /\ acked = {}
    /\ head = [revision |-> 0, manifest |-> None]
    /\ wins = {}

Store ==
    /\ \E o \in Object : objects' = objects \cup {o}
    /\ UNCHANGED <<acked, head, wins>>

Acknowledge ==
    /\ \E o \in objects : acked' = acked \cup {o}
    /\ UNCHANGED <<objects, head, wins>>

Publish ==
    /\ \E m \in objects : head' = [revision |-> head.revision + 1, manifest |-> m]
    /\ wins' = wins \cup {head'}
    /\ UNCHANGED <<objects, acked>>

Next == Store \/ Acknowledge \/ Publish

Spec == Init /\ [][Next]_vars

\* The updates that succeeded are the history of the head, one manifest per revision.
OneWinnerPerRevision ==
    /\ \A w \in wins : w.revision \in 1..head.revision
    /\ \A v, w \in wins : v.revision = w.revision => v = w
    /\ head.revision > 0 => head \in wins
=============================================================================
