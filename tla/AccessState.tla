---------------------------- MODULE AccessState ----------------------------
(***************************************************************************)
(* Who may do what in a workspace: AccessState and AccessEvent of          *)
(* rustsync-protocol/src/access.  The server keeps one AccessState per     *)
(* workspace and the devices change it by signed events.                   *)
(*                                                                         *)
(* Kept of a membership: its role and status.  A device record is          *)
(* activated, and revoked, in the very step that does so to its            *)
(* membership, so the membership stands for both.  Kept of a key grant:    *)
(* whether it is active.  Signatures cannot be forged: the actor of an     *)
(* event is the device that signed it.                                     *)
(***************************************************************************)
EXTENDS Naturals, FiniteSets

CONSTANTS
    Device,    \* the device ids
    Key,       \* the key versions (key id and generation)
    RequestId  \* the ids of join requests

Role == {"Owner", "Member"}

MemberPermissions ==
    {"ReadObjects", "WriteObjects", "UpdateHead", "ReadDevices", "ReadAccessHistory"}

allows(role, permission) == role = "Owner" \/ permission \in MemberPermissions

\* AccessState::empty, before the workspace is created.
EmptyAccess ==
    [revision |-> 0, members |-> [d \in {} |-> "Owner"], grants |-> [g \in {} |-> FALSE]]

-----------------------------------------------------------------------------
(* Queries.                                                                *)

active_membership(s, d) == d \in DOMAIN s.members /\ s.members[d].status = "Active"

require_permission(s, d, permission) ==
    active_membership(s, d) /\ allows(s.members[d].role, permission)

ActiveOwners(s) ==
    {d \in DOMAIN s.members : active_membership(s, d) /\ s.members[d].role = "Owner"}

\* Mutant of active_owner_count: owners that were removed count too.
CountRemovedOwners(s) ==
    Cardinality({d \in DOMAIN s.members : s.members[d].role = "Owner"})

active_owner_count(s) == Cardinality(ActiveOwners(s))

has_active_key_grant(s, g) == g \in DOMAIN s.grants /\ s.grants[g]

-----------------------------------------------------------------------------
(* Events.  A signed event is an event with its actor and the revision of  *)
(* the access state it expects.                                            *)

AccessEvent ==
    [kind : {"DeviceJoined"}, id : RequestId, device : Device, role : Role]
        \cup [kind : {"DeviceRoleChanged"}, device : Device, role : Role]
        \cup [kind : {"DeviceRemoved"}, device : Device]
        \cup [kind : {"RestrictedKeyGranted", "RestrictedKeyRevoked"},
               key : Key, device : Device]

required_permission(kind) ==
    CASE kind \in {"DeviceJoined", "DeviceRemoved"} -> "ManageDevices"
      [] kind = "DeviceRoleChanged" -> "ManageRoles"
      [] kind \in {"RestrictedKeyGranted", "RestrictedKeyRevoked"} -> "ManageKeys"

expects_revision(s, e) == e.expected = s.revision

\* Mutant of may_join: only an active member counts as one.
NotActive(s, d) == ~active_membership(s, d)

\* A device joins once: a removed one keeps its membership.
may_join(s, d) == d \notin DOMAIN s.members

\* The last active owner is neither demoted nor removed.
IsLastOwner(s, d) == s.members[d].role = "Owner" /\ active_owner_count(s) = 1

\* Mutant of revoke_all_for_device: the keys are forgotten.
KeepGrants(s, d) == s.grants

revoke_all_for_device(s, d) ==
    [g \in DOMAIN s.grants |-> s.grants[g] /\ g[2] # d]

\* Mutant of InsertMembership: the device record stays as it came with the request.
NotActivated(s, d, role) ==
    [m \in DOMAIN s.members \cup {d} |->
        IF m = d THEN [role |-> role, status |-> "Pending"] ELSE s.members[m]]

InsertMembership(s, d, role) ==
    [m \in DOMAIN s.members \cup {d} |->
        IF m = d THEN [role |-> role, status |-> "Active"] ELSE s.members[m]]

InsertGrant(s, g) ==
    [h \in DOMAIN s.grants \cup {g} |-> IF h = g THEN TRUE ELSE s.grants[h]]

\* The conditions an event of actor has to meet in the state it applies to.
Acceptable(s, actor, e) ==
    /\ require_permission(s, actor, required_permission(e.kind))
    /\ \/ e.kind = "DeviceJoined" /\ may_join(s, e.device)
       \/ /\ e.kind = "DeviceRoleChanged"
          /\ active_membership(s, e.device)
          /\ e.role # "Owner" => ~IsLastOwner(s, e.device)
       \/ /\ e.kind = "DeviceRemoved"
          /\ active_membership(s, e.device)
          /\ ~IsLastOwner(s, e.device)
       \/ /\ e.kind = "RestrictedKeyGranted"
          /\ active_membership(s, e.device)
          /\ ~has_active_key_grant(s, <<e.key, e.device>>)
       \/ /\ e.kind = "RestrictedKeyRevoked"
          /\ has_active_key_grant(s, <<e.key, e.device>>)

ChangedMembers(s, e) ==
    CASE e.kind = "DeviceJoined" -> InsertMembership(s, e.device, e.role)
      [] e.kind = "DeviceRoleChanged" -> [s.members EXCEPT ![e.device].role = e.role]
      [] e.kind = "DeviceRemoved" -> [s.members EXCEPT ![e.device].status = "Removed"]
      [] OTHER -> s.members

ChangedGrants(s, e) ==
    CASE e.kind = "DeviceRemoved" -> revoke_all_for_device(s, e.device)
      [] e.kind = "RestrictedKeyGranted" -> InsertGrant(s, <<e.key, e.device>>)
      [] e.kind = "RestrictedKeyRevoked" -> [s.grants EXCEPT ![<<e.key, e.device>>] = FALSE]
      [] OTHER -> s.grants

\* What apply_verified_event makes of s.
Changed(s, e) ==
    [revision |-> s.revision + 1, members |-> ChangedMembers(s, e),
     grants |-> ChangedGrants(s, e)]

\* Of the checks of validate, the ones about memberships.  Nothing is said of the devices
\* that hold key grants.
validate(s) ==
    IF s.revision = 0 THEN DOMAIN s.members = {} ELSE active_owner_count(s) # 0

\* Whether apply_verified_event succeeds.
accepts_event(s, signed) ==
    /\ expects_revision(s, signed)
    /\ Acceptable(s, signed.actor, signed.event)
    /\ validate(Changed(s, signed.event))

\* The state a WorkspaceCreated event makes of the empty one.
WorkspaceCreated(owner) ==
    [revision |-> 1, members |-> InsertMembership(EmptyAccess, owner, "Owner"),
     grants |-> EmptyAccess.grants]
=============================================================================
