----------------------------- MODULE Enrollment -----------------------------
(***************************************************************************)
(* How a workspace is made and how a device joins it: `init` in one        *)
(* directory; `device request` (or `join`) in a new one, `device approve`  *)
(* on an owner's device, `device bootstrap` (or `join --finish`) in the    *)
(* new directory again, with the server's part of each                     *)
(* (rustsync-server/src/api/workspaces.rs and access.rs).                  *)
(*                                                                         *)
(* A place is a directory of some machine, with `.rustsync` (meta) and     *)
(* `.rustsync.bootstrap-backup` (backup), and runs one command at a time.  *)
(* A command stops at any step: the machine crashes, or a request or its   *)
(* answer is lost.  Home is the place where the workspace is made, and     *)
(* Founder the identity that is generated there.  A device is its          *)
(* identity; the join request of a device stands under the device's name,  *)
(* because the server keeps one of each.  A file that is new is written in *)
(* one step, one that is written over is empty in between.  The server's   *)
(* own interleavings are the subject of AccessServer.                      *)
(***************************************************************************)
EXTENDS AccessState

CONSTANTS
    Place,       \* directories
    Home,        \* the directory where the workspace is made
    Founder,     \* the device that makes it
    MaxChanges,  \* bound: removals and role changes in a behaviour
    MaxFaults,   \* bound: crashes and file system errors in a behaviour
    None         \* nothing there

\* The files of a workspace, besides the identity.
Parts == {"config", "key", "registry", "access"}

\* What can be in .rustsync.
Directory == [identity : Device \cup {None}, parts : SUBSET Parts]

ASSUME EnrollmentAssumption ==
    /\ Home \in Place
    /\ Founder \in Device
    /\ None \notin Device \cup Directory
    /\ MaxChanges \in Nat
    /\ MaxFaults \in Nat

VARIABLES
    access,     \* server: the access state
    pending,    \* server: the devices with a pending join request
    envelopes,  \* server: the key envelopes, by recipient
    meta,       \* disk: what is in .rustsync
    backup,     \* disk: what is in .rustsync.bootstrap-backup
    cmd,        \* the command that runs at a place
    changes,    \* number of removals and role changes so far
    faults      \* number of faults so far

serverVars == <<access, pending, envelopes>>
diskVars == <<meta, backup>>
vars == <<serverVars, diskVars, cmd, changes, faults>>

Metadata(identity, parts) == [identity |-> identity, parts |-> parts]

\* Mutant of WithPart: the identity is written where nobody looks for it.
MisplacedIdentity(m, stage, device) ==
    [(IF m = None THEN Metadata(None, {}) ELSE m) EXCEPT !.parts = @ \cup {stage}]

\* One more file in .rustsync, which is made when it is not there.
WithPart(m, stage, device) ==
    LET old == IF m = None THEN Metadata(None, {}) ELSE m IN
    IF stage = "identity" THEN [old EXCEPT !.identity = device]
    ELSE [old EXCEPT !.parts = @ \cup {stage}]

\* What remove_dir_all may leave of a directory when it fails or is stopped.
PartlyRemoved(m) ==
    IF m = None THEN {None} ELSE {None} \cup [identity : {m.identity, None}, parts : SUBSET m.parts]

Identity(p) == IF meta[p] = None THEN None ELSE meta[p].identity

\* Workspace::open and load_identity_for_workspace
IsOpen(p) == Identity(p) # None /\ "config" \in meta[p].parts

\* require_pending_identity_layout: the identity and nothing else.
IsPendingLayout(p) == Identity(p) # None /\ meta[p].parts = {}

At(p, stage) == cmd[p] # None /\ cmd[p].stage = stage

IsInit(p) == cmd[p] # None /\ cmd[p].op = "init"

Start(p, op, stage, actor, device, state) ==
    /\ cmd[p] = None
    /\ cmd' = [cmd EXCEPT ![p] = [op |-> op, stage |-> stage, actor |-> actor,
                                  device |-> device, state |-> state, envelope |-> None]]

Continue(p, stage) == cmd' = [cmd EXCEPT ![p].stage = stage]

Done(p) == cmd' = [cmd EXCEPT ![p] = None]

\* A request is let through, by the state the server has; its nonce and time are good.
authenticate(d, permission) == require_permission(access, d, permission)

Fault == faults < MaxFaults /\ faults' = faults + 1

\* An identity that was never used: DeviceIdentity::generate.
Fresh ==
    Device \ (DOMAIN access.members \cup pending \cup {Identity(p) : p \in Place}
                \cup {backup[p].identity : p \in {q \in Place : backup[q] # None}})

-----------------------------------------------------------------------------
(* init.  The steps that write files are those of device bootstrap, below. *)

\* Workspace::init: not where a .rustsync is.  A second workspace is another instance.
InitWorkspace(p) ==
    /\ p = Home
    /\ meta[p] = None
    /\ access.revision = 0
    /\ Founder \in Fresh
    /\ Start(p, "init", "config", Founder, Founder, None)
    /\ UNCHANGED <<serverVars, diskVars, changes, faults>>

\* The access state that init saved, and that the server gets.
initial_owner_access_state(d) == WorkspaceCreated(d)

\* create_workspace, and its answer.
CreateWorkspace(p) ==
    /\ At(p, "create")
    /\ access' = initial_owner_access_state(cmd[p].device)
    /\ Done(p)
    /\ UNCHANGED <<pending, envelopes, diskVars, changes, faults>>

\* init_remote_error: no answer, whether or not the server did it, and .rustsync is
\* removed, as far as it can be.
CreateTimesOut(p) ==
    /\ At(p, "create")
    /\ Fault
    /\ access' \in {access, initial_owner_access_state(cmd[p].device)}
    /\ \E m \in PartlyRemoved(meta[p]) : meta' = [meta EXCEPT ![p] = m]
    /\ Done(p)
    /\ UNCHANGED <<pending, envelopes, backup, changes>>

-----------------------------------------------------------------------------
(* device request.                                                         *)

\* Mutant of load_or_create_joining_identity: a new identity although there is one.
AlwaysCreate(p, d) ==
    \/ /\ d = Identity(p)
       /\ UNCHANGED meta
    \/ /\ d \in Fresh \ {Founder}
       /\ meta' = [meta EXCEPT ![p] = WithPart(@, "identity", d)]

\* The identity in .rustsync, or a new one that is saved there.
load_or_create_joining_identity(p, d) ==
    \/ /\ d = Identity(p)
       /\ UNCHANGED meta
    \/ /\ Identity(p) = None
       /\ d \in Fresh \ {Founder}
       /\ meta' = [meta EXCEPT ![p] = WithPart(@, "identity", d)]

DeviceRequest(p) ==
    /\ \E d \in Device :
        /\ load_or_create_joining_identity(p, d)
        /\ Start(p, "request", "submit", d, d, None)
    /\ UNCHANGED <<serverVars, backup, changes, faults>>

\* submit_join_request: for a workspace that exists, and not by a member.
SubmitRequest(p) ==
    /\ At(p, "submit")
    /\ pending' = IF access.revision = 0 \/ active_membership(access, cmd[p].device)
                  THEN pending ELSE pending \cup {cmd[p].device}
    /\ Done(p)
    /\ UNCHANGED <<access, envelopes, diskVars, changes, faults>>

-----------------------------------------------------------------------------
(* device approve.                                                         *)

\* list_join_requests, and the request that is to be approved.
ListRequests(p) ==
    /\ IsOpen(p)
    /\ authenticate(Identity(p), "ManageDevices")
    /\ \E d \in pending : Start(p, "approve", "fetch", Identity(p), d, None)
    /\ UNCHANGED <<serverVars, diskVars, changes, faults>>

\* fetch_access_state, saved in .rustsync
FetchState(p) ==
    /\ At(p, "fetch")
    /\ IF authenticate(cmd[p].actor, "ReadObjects")
       THEN /\ cmd' = [cmd EXCEPT ![p].stage = "approve", ![p].state = access]
            /\ meta' = [meta EXCEPT ![p].parts = @ \cup {"access"}]
       ELSE Done(p) /\ UNCHANGED meta
    /\ UNCHANGED <<serverVars, backup, changes, faults>>

\* signed_device_joined_event
signed_device_joined_event(p, role) ==
    [actor |-> cmd[p].actor, expected |-> cmd[p].state.revision,
     event |-> [kind |-> "DeviceJoined", id |-> cmd[p].device, device |-> cmd[p].device,
                role |-> role]]

\* approve_join_request: the answer is the new state, for which the key is sealed.
PostApproval(p) ==
    /\ At(p, "approve")
    /\ \E role \in Role :
        LET event == signed_device_joined_event(p, role) IN
        IF cmd[p].device \in pending /\ accepts_event(access, event)
        THEN /\ access' = Changed(access, event.event)
             /\ pending' = pending \ {cmd[p].device}
             /\ cmd' = [cmd EXCEPT ![p].stage = "seal", ![p].state = access']
        ELSE Done(p) /\ UNCHANGED <<access, pending>>
    /\ UNCHANGED <<envelopes, diskVars, changes, faults>>

\* The conditions on the two ends of an envelope, for the key everybody shares.
authorize_key_delivery(state, sender, recipient) ==
    /\ require_permission(state, sender, "ManageKeys")
    /\ active_membership(state, recipient)

\* Mutant of sealed_for: for the state the server has by now.
SealedForCurrent(p) == [sender |-> cmd[p].actor, revision |-> access.revision]

\* seal_key_envelope: the envelope is bound to the state of the approval.
sealed_for(p) == [sender |-> cmd[p].actor, revision |-> cmd[p].state.revision]

load_key(p) == "key" \in meta[p].parts

\* seal_default_key_envelope, with the key the owner's device has.
SealEnvelope(p) ==
    LET c == cmd[p] IN
    /\ At(p, "seal")
    /\ IF load_key(p) /\ authorize_key_delivery(c.state, c.actor, c.device)
       THEN cmd' = [cmd EXCEPT ![p].stage = "upload", ![p].envelope = sealed_for(p)]
       ELSE Done(p)
    /\ UNCHANGED <<serverVars, diskVars, changes, faults>>

\* The checks of put_key_envelope, against the state the server has by now.
PutKeyEnvelope(p) ==
    LET c == cmd[p] IN
    /\ At(p, "upload")
    /\ IF /\ authenticate(c.actor, "ManageKeys")
          /\ active_membership(access, c.device)
          /\ c.envelope.revision = access.revision
       THEN Continue(p, "insert")
       ELSE Done(p)
    /\ UNCHANGED <<serverVars, diskVars, changes, faults>>

\* INSERT ... ON CONFLICT DO NOTHING
InsertEnvelope(p) ==
    LET d == cmd[p].device IN
    /\ At(p, "insert")
    /\ envelopes' = [r \in DOMAIN envelopes \cup {d} |->
                        IF r \in DOMAIN envelopes THEN envelopes[r] ELSE cmd[p].envelope]
    /\ Done(p)
    /\ UNCHANGED <<access, pending, diskVars, changes, faults>>

\* device remove and device set-role: read, sign and apply, unless the state changed.
ChangeMembership(p) ==
    /\ cmd[p] = None
    /\ changes < MaxChanges
    /\ IsOpen(p)
    /\ \E d \in Device : \E e \in [kind : {"DeviceRemoved"}, device : {d}]
                            \cup [kind : {"DeviceRoleChanged"}, device : {d}, role : Role] :
        /\ accepts_event(access,
                [actor |-> Identity(p), expected |-> access.revision, event |-> e])
        /\ access' = Changed(access, e)
    /\ changes' = changes + 1
    /\ UNCHANGED <<pending, envelopes, diskVars, cmd, faults>>

-----------------------------------------------------------------------------
(* device bootstrap.                                                       *)

\* fetch_access_state and require_active_identity
Bootstrap(p) ==
    /\ IsPendingLayout(p)
    /\ authenticate(Identity(p), "ReadObjects")
    /\ Start(p, "bootstrap", "download", Identity(p), Identity(p), access)
    /\ UNCHANGED <<serverVars, diskVars, changes, faults>>

\* fetch_key_envelope
DownloadEnvelope(p) ==
    LET d == cmd[p].device IN
    /\ At(p, "download")
    /\ IF authenticate(d, "ReadObjects") /\ d \in DOMAIN envelopes
       THEN cmd' = [cmd EXCEPT ![p].stage = "open", ![p].envelope = envelopes[d]]
       ELSE Done(p)
    /\ UNCHANGED <<serverVars, diskVars, changes, faults>>

\* AccessStateTooOld
is_too_new(envelope, state) == envelope.revision > state.revision

\* open_key_envelope, at the device it was sealed for.
open_key_envelope(envelope, state, recipient) ==
    /\ ~is_too_new(envelope, state)
    /\ authorize_key_delivery(state, envelope.sender, recipient)

\* The envelope is opened first; then .rustsync becomes the backup.
MoveToBackup(p) ==
    LET c == cmd[p] IN
    /\ At(p, "open")
    /\ IF open_key_envelope(c.envelope, c.state, c.device) /\ backup[p] = None
       THEN /\ backup' = [backup EXCEPT ![p] = meta[p]]
            /\ meta' = [meta EXCEPT ![p] = None]
            /\ Continue(p, "config")
       ELSE Done(p) /\ UNCHANGED diskVars
    /\ UNCHANGED <<serverVars, changes, faults>>

\* Mutant of NextStage: the backup is removed as soon as the identity is saved again.
CleanUpEarly(p) ==
    [config |-> "key", key |-> "identity", identity |-> "remove_backup",
     registry |-> "access", access |-> "remove_backup"]

\* The files bootstrap_with_key and init_with_device_identity write, one after another.
NextStage(p) ==
    [config |-> "key", key |-> "identity", identity |-> "registry", registry |-> "access",
     access |-> IF IsInit(p) THEN "truncate" ELSE "remove_backup"]

IsWriting(p) == cmd[p] # None /\ cmd[p].stage \in DOMAIN NextStage(p)

\* Workspace::bootstrap_with_key and Workspace::init_with_device_identity, one file at a
\* time.
WriteMetadata(p) ==
    /\ IsWriting(p)
    /\ meta' = [meta EXCEPT ![p] = WithPart(@, cmd[p].stage, cmd[p].device)]
    /\ Continue(p, NextStage(p)[cmd[p].stage])
    /\ UNCHANGED <<serverVars, backup, changes, faults>>

\* A file cannot be written: bootstrap_with_key removes .rustsync, or fails to.  What it
\* leaves is removed by Restore, and RestoreFails may leave any part of it; a clean-up that
\* stops half-way adds nothing to that.  init leaves what there is, as after a crash.
WriteFails(p) ==
    /\ IsWriting(p)
    /\ ~IsInit(p)
    /\ Fault
    /\ \E m \in {None, meta[p]} : meta' = [meta EXCEPT ![p] = m]
    /\ Continue(p, "restore")
    /\ UNCHANGED <<serverVars, backup, changes>>

\* restore_pending_identity
Restore(p) ==
    /\ At(p, "restore")
    /\ meta' = [meta EXCEPT ![p] = backup[p]]
    /\ backup' = [backup EXCEPT ![p] = None]
    /\ Done(p)
    /\ UNCHANGED <<serverVars, changes, faults>>

\* It fails while .rustsync is removed, or after it: the backup stays.
RestoreFails(p) ==
    /\ At(p, "restore")
    /\ Fault
    /\ \E m \in PartlyRemoved(meta[p]) : meta' = [meta EXCEPT ![p] = m]
    /\ Done(p)
    /\ UNCHANGED <<serverVars, backup, changes>>

\* The backup goes when all is written.
RemoveBackup(p) ==
    /\ At(p, "remove_backup")
    /\ backup' = [backup EXCEPT ![p] = None]
    /\ Continue(p, "truncate")
    /\ UNCHANGED <<serverVars, meta, changes, faults>>

\* It cannot be removed, or not all of it: a warning, and the command goes on.
RemoveBackupFails(p) ==
    /\ At(p, "remove_backup")
    /\ Fault
    /\ \E m \in PartlyRemoved(backup[p]) : backup' = [backup EXCEPT ![p] = m]
    /\ Continue(p, "truncate")
    /\ UNCHANGED <<serverVars, meta, changes>>

\* save_config writes config once more, with the address of the server, in place.
TruncateConfig(p) ==
    /\ At(p, "truncate")
    /\ meta' = [meta EXCEPT ![p].parts = @ \ {"config"}]
    /\ Continue(p, "rewrite")
    /\ UNCHANGED <<serverVars, backup, changes, faults>>

\* init also saves an empty manifest, and then turns to the server.
RewriteConfig(p) ==
    /\ At(p, "rewrite")
    /\ meta' = [meta EXCEPT ![p].parts = @ \cup {"config"}]
    /\ IF IsInit(p) THEN Continue(p, "create") ELSE Done(p)
    /\ UNCHANGED <<serverVars, backup, changes, faults>>

\* The machine crashes, a request or its answer is lost, or a file cannot be written.
Crash(p) ==
    /\ cmd[p] # None
    /\ Fault
    /\ Done(p)
    /\ UNCHANGED <<serverVars, diskVars, changes>>

-----------------------------------------------------------------------------
Init ==
    /\ access = EmptyAccess
    /\ pending = {}
    /\ envelopes = [d \in {} |-> None]
    /\ meta = [p \in Place |-> None]
    /\ backup = [p \in Place |-> None]
    /\ cmd = [p \in Place |-> None]
    /\ changes = 0
    /\ faults = 0

Next ==
    \E p \in Place :
        \/ InitWorkspace(p) \/ CreateWorkspace(p) \/ CreateTimesOut(p)
        \/ DeviceRequest(p) \/ SubmitRequest(p)
        \/ ListRequests(p) \/ FetchState(p) \/ PostApproval(p)
        \/ SealEnvelope(p) \/ PutKeyEnvelope(p) \/ InsertEnvelope(p) \/ ChangeMembership(p)
        \/ Bootstrap(p) \/ DownloadEnvelope(p) \/ MoveToBackup(p)
        \/ WriteMetadata(p) \/ WriteFails(p) \/ Restore(p) \/ RestoreFails(p) \/ RemoveBackup(p)
        \/ RemoveBackupFails(p) \/ TruncateConfig(p) \/ RewriteConfig(p) \/ Crash(p)

Spec == Init /\ [][Next]_vars

-----------------------------------------------------------------------------
(* Properties.                                                             *)

IsMetadata(m) == m = None \/ m \in Directory

Stages ==
    {"submit", "fetch", "approve", "seal", "upload", "insert", "download", "open", "config", "key",
     "identity", "registry", "access", "remove_backup", "restore", "truncate", "rewrite", "create"}

TypeOK ==
    /\ access.revision \in Nat
    /\ DOMAIN access.members \subseteq Device
    /\ pending \subseteq Device
    /\ DOMAIN envelopes \subseteq Device
    /\ \A d \in DOMAIN envelopes : envelopes[d] \in [sender : Device, revision : Nat]
    /\ \A p \in Place :
        /\ IsMetadata(meta[p]) /\ IsMetadata(backup[p])
        /\ cmd[p] # None => cmd[p].stage \in Stages /\ cmd[p].device \in Device
    /\ changes \in 0..MaxChanges
    /\ faults \in 0..MaxFaults

HasIdentity(m, d) == m # None /\ m.identity = d

\* The identity in the backup.
Pending(p) == IF backup[p] = None THEN None ELSE backup[p].identity

\* "Keep its pending identity until bootstrap succeeds": whatever fails or crashes
\* between the request and the finished workspace, the private identity of a device
\* that asked to join, or joined, is still in its .rustsync or in the backup.  (The
\* founder's may be gone: init removes it when the server does not answer in time.)
IdentityKept ==
    \A d \in (pending \cup {m \in DOMAIN access.members : active_membership(access, m)})
                \ {Founder} :
        \E p \in Place : HasIdentity(meta[p], d) \/ HasIdentity(backup[p], d)

\* No half of a workspace passes for the whole.  The server is asked to make one when all
\* of it is on the disk; and where a device joins, a .rustsync with files in it has the
\* key, the identity, the devices and the access state, unless the backup beside it still
\* has the identity to start again from.  That holds when the backup cannot be removed,
\* or in part.  A crash while save_config writes over config.toml costs that file alone,
\* and its ids are in the others.  (At Home the clean-up of init may stop half-way.)
NoHalfWorkspace ==
    \A p \in Place :
        /\ At(p, "create") => meta[p].parts = Parts /\ meta[p].identity # None
        /\ (p # Home /\ meta[p] # None /\ meta[p].parts # {} /\ Pending(p) = None) =>
                meta[p].parts \cup {"config"} = Parts /\ meta[p].identity # None

\* A device that reads the access state and then its envelope can open it by that
\* state: the envelope is not newer, although owners seal and change things meanwhile.
EnvelopeNotTooNew ==
    \A p \in Place : At(p, "open") => ~is_too_new(cmd[p].envelope, cmd[p].state)

\* "Bootstrap says the identity is missing: run `device request` in that same pending
\* directory, then obtain approval before bootstrapping": a place with a pending
\* identity is ready to be bootstrapped.
PendingCanFinish ==
    \A p \in Place : (cmd[p] = None /\ IsPendingLayout(p)) => backup[p] = None
=============================================================================
