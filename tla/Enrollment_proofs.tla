--------------------------- MODULE Enrollment_proofs ---------------------------
(***************************************************************************)
(* Proofs about Enrollment, for any number of devices, directories,        *)
(* crashes and changes of the access state: the private identity of a      *)
(* device that asked to join survives, half a workspace is never taken for *)
(* a whole one, and a key envelope can be opened.                          *)
(***************************************************************************)
EXTENDS Enrollment, TLAPS

Envelope == [sender : Device, revision : Nat]

IsAccess(s) ==
    /\ s = [revision |-> s.revision, members |-> s.members, grants |-> s.grants]
    /\ s.revision \in Nat
    /\ s.members = [d \in DOMAIN s.members |-> s.members[d]]
    /\ DOMAIN s.members \subseteq Device

\* The stages that write .rustsync, and those of each command.
WritingStages ==
    {"config", "key", "identity", "registry", "access", "remove_backup", "truncate", "rewrite",
     "create"}

IsStageOf(op, stage) ==
    \/ op = "init" /\ stage \in WritingStages \ {"remove_backup"}
    \/ op = "request" /\ stage = "submit"
    \/ op = "approve" /\ stage \in {"fetch", "approve", "seal", "upload", "insert"}
    \/ /\ op = "bootstrap"
       /\ stage \in {"download", "open", "restore"} \cup (WritingStages \ {"create"})

IsCommand(c) ==
    /\ c = [op |-> c.op, stage |-> c.stage, actor |-> c.actor, device |-> c.device,
            state |-> c.state, envelope |-> c.envelope]
    /\ IsStageOf(c.op, c.stage)
    /\ c.actor \in Device /\ c.device \in Device
    /\ c.stage \in {"approve", "seal", "upload", "insert", "download", "open"} =>
            IsAccess(c.state)
    /\ c.stage \in {"upload", "insert", "open"} => c.envelope \in Envelope

\* TypeOK, and what it leaves out.
Typed ==
    /\ IsAccess(access)
    /\ pending \subseteq Device
    /\ DOMAIN envelopes \subseteq Device
    /\ envelopes \in [DOMAIN envelopes -> Envelope]
    /\ meta \in [Place -> {None} \cup Directory]
    /\ backup \in [Place -> {None} \cup Directory]
    /\ cmd = [p \in Place |-> cmd[p]]
    /\ \A p \in Place : cmd[p] # None => IsCommand(cmd[p])
    /\ changes \in 0..MaxChanges
    /\ faults \in 0..MaxFaults

AtAny(p, stages) == cmd[p] # None /\ cmd[p].stage \in stages

Does(p, op) == cmd[p] # None /\ cmd[p].op = op

-----------------------------------------------------------------------------
(* The directories.                                                        *)

\* Until the workspace is created only init writes more than an identity.
UntilCreated(p) ==
    access.revision = 0 =>
        /\ backup[p] = None
        /\ p # Home => meta[p] = None \/ meta[p].parts = {}
        /\ cmd[p] # None => cmd[p].op \in {"init", "request"}

InitIsFirst(p) == IsInit(p) => access.revision = 0 /\ p = Home /\ cmd[p].device = Founder

\* What init or bootstrap has written when it comes to a stage.
IsWritten(m, stage, device) ==
    \/ stage = "config" /\ m = None
    \/ stage = "key" /\ m = Metadata(None, {"config"})
    \/ stage = "identity" /\ m = Metadata(None, {"config", "key"})
    \/ stage = "registry" /\ m = Metadata(device, {"config", "key"})
    \/ stage = "access" /\ m = Metadata(device, {"config", "key", "registry"})
    \/ stage \in {"remove_backup", "truncate", "create"} /\ m = Metadata(device, Parts)
    \/ stage = "rewrite" /\ m = Metadata(device, Parts \ {"config"})

WritesInOrder(p) ==
    AtAny(p, WritingStages) => IsWritten(meta[p], cmd[p].stage, cmd[p].device)

\* While bootstrap writes, or restores, the pending identity is in the backup, and there
\* is no other in .rustsync that a restore could lose.
BackedUp(p) ==
    /\ (Does(p, "bootstrap") /\ ~AtAny(p, {"download", "open", "truncate", "rewrite"})) =>
            backup[p] = Metadata(cmd[p].device, {})
    /\ At(p, "restore") => meta[p] = None \/ meta[p].identity \in {None, cmd[p].device}

BackupIsPending(p) == backup[p] # None => backup[p].parts = {}

\* What the other commands work with.
CommandFits(p) ==
    /\ At(p, "submit") => HasIdentity(meta[p], cmd[p].device)
    /\ At(p, "fetch") => meta[p] # None /\ "config" \in meta[p].parts
    /\ AtAny(p, {"download", "open"}) => meta[p] = Metadata(cmd[p].device, {})

\* NoHalfWorkspace, of a directory in which a device joins.
NotHalf(p) ==
    (p # Home /\ meta[p] # None /\ meta[p].parts # {} /\ Pending(p) = None) =>
        meta[p].parts \cup {"config"} = Parts /\ meta[p].identity # None

PlaceOK(p) ==
    /\ UntilCreated(p) /\ InitIsFirst(p) /\ WritesInOrder(p) /\ BackedUp(p)
    /\ BackupIsPending(p) /\ CommandFits(p) /\ NotHalf(p)

\* Before it is created nobody is known to the server.
NobodyBefore ==
    access.revision = 0 =>
        DOMAIN access.members = {} /\ pending = {} /\ DOMAIN envelopes = {}

Holds(p, d) == HasIdentity(meta[p], d) \/ HasIdentity(backup[p], d)

\* Every device that asked has its identity somewhere, also when it was removed.
IdentitiesHeld ==
    \A d \in (pending \cup DOMAIN access.members) \ {Founder} : \E p \in Place : Holds(p, d)

DirectoryInv == NobodyBefore /\ IdentitiesHeld /\ \A p \in Place : PlaceOK(p)

-----------------------------------------------------------------------------
(* The envelopes.                                                          *)

Sealing(p) == AtAny(p, {"seal", "upload", "insert"})
Reading(p) == AtAny(p, {"download", "open"})

\* An envelope is for the revision at which its recipient joined, and that is once.
SealedOnJoining ==
    /\ \A p \in Place : Sealing(p) =>
        /\ cmd[p].device \in DOMAIN access.members
        /\ cmd[p].state.revision <= access.revision
        /\ ~At(p, "seal") => cmd[p].envelope.revision = cmd[p].state.revision
    /\ \A d \in DOMAIN envelopes :
        d \in DOMAIN access.members /\ envelopes[d].revision <= access.revision

\* Who reads an envelope has joined before, and read the state after that.
ReadAfterJoining ==
    \A p \in Place : Reading(p) =>
        /\ cmd[p].device \in DOMAIN access.members
        /\ cmd[p].device \in DOMAIN envelopes =>
                envelopes[cmd[p].device].revision <= cmd[p].state.revision
        /\ \A q \in Place : (Sealing(q) /\ cmd[q].device = cmd[p].device) =>
                cmd[q].state.revision <= cmd[p].state.revision
        /\ At(p, "open") => cmd[p].envelope.revision <= cmd[p].state.revision

EnvelopeInv == SealedOnJoining /\ ReadAfterJoining

Inv == Typed /\ DirectoryInv /\ EnvelopeInv

-----------------------------------------------------------------------------
(* What a step does to the access state and to the commands.               *)

\* An event of the three kinds counts up, and only a join adds a member.
LEMMA ChangedAccess ==
    ASSUME NEW s, IsAccess(s), NEW e, e.device \in Device,
           e.kind \in {"DeviceJoined", "DeviceRoleChanged", "DeviceRemoved"}
    PROVE  /\ IsAccess(Changed(s, e))
           /\ Changed(s, e).revision = s.revision + 1
           /\ DOMAIN Changed(s, e).members =
                DOMAIN s.members \cup (IF e.kind = "DeviceJoined" THEN {e.device} ELSE {})
<1>1. CASE e.kind = "DeviceJoined"
  BY <1>1 DEF IsAccess, Changed, ChangedMembers, InsertMembership
<1>2. CASE e.kind = "DeviceRoleChanged"
  BY <1>2 DEF IsAccess, Changed, ChangedMembers
<1>3. CASE e.kind = "DeviceRemoved"
  BY <1>3 DEF IsAccess, Changed, ChangedMembers
<1> QED BY <1>1, <1>2, <1>3

LEMMA CreatedAccess ==
    ASSUME NEW d \in Device
    PROVE  /\ IsAccess(WorkspaceCreated(d))
           /\ WorkspaceCreated(d).revision = 1
           /\ DOMAIN WorkspaceCreated(d).members = {d}
  BY DEF IsAccess, WorkspaceCreated, InsertMembership, EmptyAccess

\* The places other than p keep their command.
OthersKeep(p) == \A q \in Place : q # p => cmd'[q] = cmd[q]

LEMMA DoneStep ==
    ASSUME Typed, NEW p \in Place, Done(p)
    PROVE  /\ cmd' = [q \in Place |-> cmd'[q]]
           /\ cmd'[p] = None
           /\ OthersKeep(p)
  BY DEF Typed, Done, OthersKeep

LEMMA StartStep ==
    ASSUME Typed, NEW p \in Place, NEW op, NEW stage, NEW actor, NEW device, NEW state,
           Start(p, op, stage, actor, device, state)
    PROVE  /\ cmd' = [q \in Place |-> cmd'[q]]
           /\ cmd[p] = None
           /\ cmd'[p] = [op |-> op, stage |-> stage, actor |-> actor,
                         device |-> device, state |-> state, envelope |-> None]
           /\ OthersKeep(p)
  BY DEF Typed, Start, OthersKeep

LEMMA ContinueStep ==
    ASSUME Typed, NEW p \in Place, cmd[p] # None, NEW stage, Continue(p, stage)
    PROVE  /\ cmd' = [q \in Place |-> cmd'[q]]
           /\ cmd'[p] = [op |-> cmd[p].op, stage |-> stage, actor |-> cmd[p].actor,
                         device |-> cmd[p].device, state |-> cmd[p].state,
                         envelope |-> cmd[p].envelope]
           /\ OthersKeep(p)
<1>1. cmd' = [cmd EXCEPT ![p] = [cmd[p] EXCEPT !.stage = stage]]
  BY DEF Typed, Continue
<1>2. IsCommand(cmd[p])
  BY DEF Typed
<1>3. [cmd[p] EXCEPT !.stage = stage] =
        [op |-> cmd[p].op, stage |-> stage, actor |-> cmd[p].actor,
         device |-> cmd[p].device, state |-> cmd[p].state, envelope |-> cmd[p].envelope]
  BY <1>2 DEF IsCommand
<1> QED
  BY <1>1, <1>3 DEF Typed, OthersKeep

-----------------------------------------------------------------------------
(* Steps that concern one directory.                                       *)

\* What is left of a directory has files of it, and no identity but its own.
LEMMA Removal ==
    ASSUME NEW m \in {None} \cup Directory, NEW n \in PartlyRemoved(m)
    PROVE  /\ n \in {None} \cup Directory
           /\ n # None => /\ m # None
                          /\ n.identity \in {m.identity, None}
                          /\ n.parts \subseteq m.parts
<1>1. CASE m = None
  BY <1>1 DEF PartlyRemoved
<1>2. CASE m # None
  BY <1>2 DEF PartlyRemoved, Directory
<1> QED BY <1>1, <1>2

\* A directory that another one's command, and the server, leave as it is.
LEMMA OtherPlaces ==
    ASSUME NEW q \in Place, PlaceOK(q), cmd'[q] = cmd[q], meta'[q] = meta[q],
           backup'[q] = backup[q], access'.revision = 0 <=> access.revision = 0
    PROVE  PlaceOK(q)'
  BY DEF PlaceOK, UntilCreated, InitIsFirst, IsInit, WritesInOrder, BackedUp, BackupIsPending,
         CommandFits, NotHalf, Pending, AtAny, At, Does, HasIdentity

\* The disks after a step of the command at p: only its directory may change.
OwnDisk(p) ==
    /\ meta' \in [Place -> {None} \cup Directory]
    /\ backup' \in [Place -> {None} \cup Directory]
    /\ \A q \in Place : q # p => meta'[q] = meta[q] /\ backup'[q] = backup[q]

OwnStep(p) ==
    /\ OwnDisk(p)
    /\ cmd' = [q \in Place |-> cmd'[q]]
    /\ OthersKeep(p)
    /\ changes' \in 0..MaxChanges
    /\ faults' \in 0..MaxFaults

LEMMA SameDisk ==
    ASSUME Typed, NEW p \in Place, UNCHANGED diskVars
    PROVE  OwnDisk(p)
  BY DEF Typed, OwnDisk, diskVars

LEMMA FaultStep == ASSUME Typed, Fault PROVE faults' \in 0..MaxFaults
  BY EnrollmentAssumption DEF Typed, Fault

\* A step of one command at one place, with nothing new at the server.
LEMMA LocalStep ==
    ASSUME Inv, NEW p \in Place, OwnStep(p), UNCHANGED serverVars,
           cmd'[p] # None => IsCommand(cmd'[p]),
           PlaceOK(p)',
           \A d \in Device : (d # Founder /\ Holds(p, d)) => Holds(p, d)',
           EnvelopeInv'
    PROVE  Inv'
<1>1. Typed'
  BY DEF Inv, Typed, OwnStep, OwnDisk, OthersKeep, serverVars
<1>2. NobodyBefore'
  BY DEF Inv, DirectoryInv, NobodyBefore, serverVars
<1>3. IdentitiesHeld'
  <2> SUFFICES ASSUME NEW d \in (pending \cup DOMAIN access.members) \ {Founder}
               PROVE  \E q \in Place : Holds(q, d)'
    BY DEF IdentitiesHeld, serverVars
  <2>1. d \in Device
    BY DEF Inv, Typed, IsAccess
  <2>2. PICK q \in Place : Holds(q, d)
    BY DEF Inv, DirectoryInv, IdentitiesHeld
  <2>3. Holds(q, d)'
    BY <2>1, <2>2 DEF Holds, HasIdentity, OwnStep, OwnDisk
  <2> QED BY <2>3
<1>4. \A q \in Place : PlaceOK(q)'
  BY OtherPlaces DEF Inv, DirectoryInv, OwnStep, OwnDisk, OthersKeep, serverVars
<1> QED
  BY <1>1, <1>2, <1>3, <1>4 DEF Inv, DirectoryInv

\* The envelopes do not notice a command that neither seals nor reads.
LEMMA NoEnvelope ==
    ASSUME Inv, NEW p \in Place, OthersKeep(p), UNCHANGED <<access, envelopes>>,
           ~Sealing(p)', ~Reading(p)'
    PROVE  EnvelopeInv'
  BY DEF Inv, EnvelopeInv, SealedOnJoining, ReadAfterJoining, Sealing, Reading, AtAny, At,
         OthersKeep

\* A command ends.
LEMMA EndStep ==
    ASSUME Inv, NEW p \in Place, OwnStep(p), UNCHANGED serverVars, cmd'[p] = None,
           access.revision = 0 => meta'[p] \in {meta[p], None} /\ backup'[p] = None,
           backup'[p] \in {backup[p], None},
           NotHalf(p)',
           \A d \in Device : (d # Founder /\ Holds(p, d)) => Holds(p, d)'
    PROVE  Inv'
<1>1. PlaceOK(p)
  BY DEF Inv, DirectoryInv
<1>2. UntilCreated(p)'
  BY <1>1 DEF PlaceOK, UntilCreated, serverVars
<1>3. BackupIsPending(p)'
  BY <1>1 DEF PlaceOK, BackupIsPending
<1>4. PlaceOK(p)'
  BY <1>2, <1>3 DEF PlaceOK, InitIsFirst, IsInit, WritesInOrder, BackedUp, CommandFits,
                    AtAny, At, Does
<1>5. EnvelopeInv'
  BY NoEnvelope DEF OwnStep, Sealing, Reading, AtAny, serverVars
<1> QED
  BY <1>4, <1>5, LocalStep

\* A command ends and nothing else happens.
LEMMA QuietEnd ==
    ASSUME Inv, NEW p \in Place, Done(p), UNCHANGED <<serverVars, diskVars, changes>>,
           faults' \in 0..MaxFaults
    PROVE  Inv'
<1>1. OwnStep(p) /\ cmd'[p] = None
  BY DoneStep, SameDisk DEF Inv, Typed, OwnStep
<1>2. NotHalf(p)' /\ (access.revision = 0 => backup[p] = None)
  BY DEF Inv, DirectoryInv, PlaceOK, NotHalf, Pending, UntilCreated, serverVars, diskVars
<1>3. \A d \in Device : Holds(p, d) => Holds(p, d)'
  BY DEF Holds, HasIdentity, diskVars
<1> QED
  BY <1>1, <1>2, <1>3, EndStep DEF diskVars

LEMMA CrashKeepsInv ==
    ASSUME Inv, NEW p \in Place, Crash(p)
    PROVE  Inv'
  BY QuietEnd, FaultStep DEF Crash, Inv

\* A command goes on, or begins, and nothing is written.
LEMMA QuietStep ==
    ASSUME Inv, NEW p \in Place, UNCHANGED <<serverVars, diskVars, changes, faults>>,
           cmd' = [q \in Place |-> cmd'[q]], OthersKeep(p),
           cmd'[p] # None => IsCommand(cmd'[p]),
           PlaceOK(p)', EnvelopeInv'
    PROVE  Inv'
<1>1. OwnStep(p)
  BY SameDisk DEF Inv, Typed, OwnStep
<1>2. \A d \in Device : Holds(p, d) => Holds(p, d)'
  BY DEF Holds, HasIdentity, diskVars
<1> QED
  BY <1>1, <1>2, LocalStep

-----------------------------------------------------------------------------
(* init and device request.                                                *)

LEMMA InitWorkspaceKeepsInv ==
    ASSUME Inv, NEW p \in Place, InitWorkspace(p)
    PROVE  Inv'
<1>1. Start(p, "init", "config", Founder, Founder, None)
      /\ UNCHANGED <<serverVars, diskVars, changes, faults>>
  BY DEF InitWorkspace
<1>2. /\ cmd' = [q \in Place |-> cmd'[q]]
      /\ cmd'[p] = [op |-> "init", stage |-> "config", actor |-> Founder,
                    device |-> Founder, state |-> None, envelope |-> None]
      /\ OthersKeep(p)
  BY <1>1, StartStep DEF Inv
<1>3. IsCommand(cmd'[p])
  BY <1>2, EnrollmentAssumption DEF IsCommand, IsStageOf, WritingStages
<1>4. PlaceOK(p)'
  BY <1>2
     DEF InitWorkspace, Inv, DirectoryInv, PlaceOK, UntilCreated, InitIsFirst, IsInit,
         WritesInOrder, IsWritten, BackedUp, BackupIsPending, CommandFits, NotHalf, Pending, AtAny,
         At, Does, serverVars, diskVars
<1>5. EnvelopeInv'
  BY <1>2, NoEnvelope DEF InitWorkspace, Sealing, Reading, AtAny, serverVars
<1> QED
  BY <1>1, <1>2, <1>3, <1>4, <1>5, QuietStep

LEMMA RequestKeepsInv ==
    ASSUME Inv, NEW p \in Place, DeviceRequest(p)
    PROVE  Inv'
<1>1. PICK d \in Device :
        /\ load_or_create_joining_identity(p, d)
        /\ Start(p, "request", "submit", d, d, None)
  BY DEF DeviceRequest
<1>2. /\ cmd' = [q \in Place |-> cmd'[q]]
      /\ cmd[p] = None
      /\ cmd'[p] = [op |-> "request", stage |-> "submit", actor |-> d, device |-> d,
                    state |-> None, envelope |-> None]
      /\ OthersKeep(p)
  BY <1>1, StartStep DEF Inv
<1>3. IsCommand(cmd'[p])
  BY <1>2 DEF IsCommand, IsStageOf, WritingStages
<1>4. d # None
  BY EnrollmentAssumption
<1> DEFINE m == WithPart(meta[p], "identity", d)
<1>5. /\ m \in Directory /\ m # None
      /\ m.identity = d
      /\ m.parts = IF meta[p] = None THEN {} ELSE meta[p].parts
  BY EnrollmentAssumption DEF Inv, Typed, WithPart, Metadata, Directory
<1>6. \/ Identity(p) = d /\ UNCHANGED meta
      \/ Identity(p) = None /\ meta' = [meta EXCEPT ![p] = m]
  BY <1>1 DEF load_or_create_joining_identity
<1>7. /\ meta' \in [Place -> {None} \cup Directory]
      /\ \A q \in Place : q # p => meta'[q] = meta[q]
      /\ HasIdentity(meta'[p], d)
      /\ meta'[p].parts = IF meta[p] = None THEN {} ELSE meta[p].parts
  BY <1>4, <1>5, <1>6 DEF Inv, Typed, Identity, HasIdentity
<1>8. OwnStep(p) /\ UNCHANGED serverVars /\ backup' = backup
  BY <1>2, <1>7 DEF DeviceRequest, OwnStep, OwnDisk, Inv, Typed
<1>9. PlaceOK(p)
  BY DEF Inv, DirectoryInv
<1>10. PlaceOK(p)'
  <2>1. UntilCreated(p)' /\ NotHalf(p)' /\ BackupIsPending(p)'
    BY <1>2, <1>4, <1>7, <1>8, <1>9
       DEF PlaceOK, UntilCreated, NotHalf, Pending, BackupIsPending, HasIdentity, serverVars
  <2>2. InitIsFirst(p)' /\ WritesInOrder(p)' /\ BackedUp(p)'
    BY <1>2 DEF InitIsFirst, IsInit, WritesInOrder, BackedUp, AtAny, At, Does, WritingStages
  <2>3. CommandFits(p)'
    BY <1>2, <1>7 DEF CommandFits, AtAny, At
  <2> QED BY <2>1, <2>2, <2>3 DEF PlaceOK
<1>11. \A e \in Device : Holds(p, e) => Holds(p, e)'
  BY <1>4, <1>6, <1>8, EnrollmentAssumption DEF Holds, HasIdentity, Identity
<1>12. EnvelopeInv'
  BY <1>2, <1>8, NoEnvelope DEF Sealing, Reading, AtAny, serverVars
<1> QED
  BY <1>3, <1>8, <1>10, <1>11, <1>12, LocalStep

LEMMA SubmitKeepsInv ==
    ASSUME Inv, NEW p \in Place, SubmitRequest(p)
    PROVE  Inv'
<1>1. /\ cmd' = [q \in Place |-> cmd'[q]]
      /\ cmd'[p] = None
      /\ OthersKeep(p)
  BY DoneStep DEF SubmitRequest, Inv
<1>2. cmd[p].device \in Device /\ Holds(p, cmd[p].device)
  BY DEF SubmitRequest, Inv, Typed, DirectoryInv, PlaceOK, CommandFits, Holds, At, IsCommand
<1>3. pending' \subseteq pending \cup {cmd[p].device}
      /\ UNCHANGED <<access, envelopes, meta, backup, changes, faults>>
  BY DEF SubmitRequest, diskVars
<1>4. Typed'
  BY <1>1, <1>2, <1>3 DEF Inv, Typed, OthersKeep
<1>5. NobodyBefore'
  BY DEF SubmitRequest, Inv, DirectoryInv, NobodyBefore
<1>6. IdentitiesHeld'
  BY <1>2, <1>3 DEF Inv, DirectoryInv, IdentitiesHeld, Holds
<1>7. \A q \in Place : PlaceOK(q)'
  <2> SUFFICES ASSUME NEW q \in Place PROVE PlaceOK(q)'
    OBVIOUS
  <2>1. CASE q = p
    BY <1>1, <1>3, <2>1
       DEF Inv, DirectoryInv, PlaceOK, UntilCreated, InitIsFirst, IsInit, WritesInOrder,
           BackedUp, BackupIsPending, CommandFits, NotHalf, Pending, AtAny, At, Does
  <2>2. CASE q # p
    BY <1>1, <1>3, <2>2, OtherPlaces DEF Inv, DirectoryInv, OthersKeep
  <2> QED BY <2>1, <2>2
<1>8. EnvelopeInv'
  BY <1>1, <1>3, NoEnvelope DEF Sealing, Reading, AtAny
<1> QED
  BY <1>4, <1>5, <1>6, <1>7, <1>8 DEF Inv, DirectoryInv

\* init is answered, or is not: then the server may have the workspace all the same, and
\* .rustsync, which has the founder's identity alone, may be gone.
LEMMA CreateKeepsInv ==
    ASSUME Inv, NEW p \in Place, CreateWorkspace(p) \/ CreateTimesOut(p)
    PROVE  Inv'
<1>1. /\ cmd' = [q \in Place |-> cmd'[q]]
      /\ cmd'[p] = None
      /\ OthersKeep(p)
  BY DoneStep DEF CreateWorkspace, CreateTimesOut, Inv
<1>2. At(p, "create") /\ IsCommand(cmd[p])
  BY DEF CreateWorkspace, CreateTimesOut, Inv, Typed, At
<1>3. IsInit(p)
  BY <1>2 DEF IsInit, At, IsCommand, IsStageOf, WritingStages
<1>4. /\ access.revision = 0 /\ p = Home /\ cmd[p].device = Founder
      /\ DOMAIN access.members = {} /\ pending = {} /\ DOMAIN envelopes = {}
      /\ meta[p] = Metadata(Founder, Parts)
  BY <1>2, <1>3
     DEF Inv, DirectoryInv, NobodyBefore, PlaceOK, InitIsFirst, WritesInOrder, IsWritten,
         AtAny, At, WritingStages
<1>5. access' \in {access, WorkspaceCreated(Founder)}
  BY <1>4 DEF CreateWorkspace, CreateTimesOut, initial_owner_access_state
<1>6. /\ IsAccess(access')
      /\ access'.revision \in {0, 1}
      /\ DOMAIN access'.members \subseteq {Founder}
      /\ access'.revision = 0 => DOMAIN access'.members = {}
  BY <1>4, <1>5, CreatedAccess, EnrollmentAssumption DEF Inv, Typed
<1>7. /\ OwnDisk(p)
      /\ UNCHANGED <<pending, envelopes, backup, changes>>
      /\ faults' \in 0..MaxFaults
  <2>1. CASE CreateWorkspace(p)
    BY <1>4, <2>1, SameDisk DEF CreateWorkspace, diskVars, Inv, Typed
  <2>2. CASE CreateTimesOut(p)
    <3>1. PICK m \in PartlyRemoved(meta[p]) : meta' = [meta EXCEPT ![p] = m]
      BY <2>2 DEF CreateTimesOut
    <3>2. m \in {None} \cup Directory
      BY <3>1, Removal DEF Inv, Typed
    <3> QED BY <2>2, <3>1, <3>2, FaultStep DEF CreateTimesOut, OwnDisk, Inv, Typed
  <2> QED BY <2>1, <2>2
<1>8. Typed'
  BY <1>1, <1>6, <1>7 DEF Inv, Typed, OwnDisk, OthersKeep
<1>9. NobodyBefore' /\ IdentitiesHeld'
  BY <1>4, <1>6, <1>7 DEF NobodyBefore, IdentitiesHeld
<1>10. \A q \in Place : backup[q] = None
  BY <1>4 DEF Inv, DirectoryInv, PlaceOK, UntilCreated
<1>11. PlaceOK(p)'
  BY <1>1, <1>4, <1>7, <1>10, EnrollmentAssumption
     DEF PlaceOK, UntilCreated, InitIsFirst, IsInit, WritesInOrder, BackedUp, BackupIsPending,
         CommandFits, NotHalf, Pending, AtAny, At, Does, Metadata, Parts
<1>12. ASSUME NEW q \in Place, q # p PROVE PlaceOK(q)'
  <2>1. /\ cmd'[q] = cmd[q] /\ meta'[q] = meta[q] /\ backup'[q] = backup[q]
        /\ PlaceOK(q)
        /\ meta[q] = None \/ meta[q].parts = {}
        /\ ~IsInit(q)
    BY <1>1, <1>4, <1>7, <1>12
       DEF OwnDisk, OthersKeep, Inv, DirectoryInv, PlaceOK, UntilCreated, InitIsFirst
  <2>2. UntilCreated(q)' /\ NotHalf(q)'
    BY <1>4, <1>6, <2>1 DEF UntilCreated, NotHalf, Pending, PlaceOK
  <2>3. InitIsFirst(q)' /\ WritesInOrder(q)' /\ BackedUp(q)' /\ BackupIsPending(q)'
        /\ CommandFits(q)'
    BY <2>1 DEF PlaceOK, InitIsFirst, IsInit, WritesInOrder, BackedUp, BackupIsPending,
                CommandFits, AtAny, At, Does, HasIdentity
  <2> QED BY <2>2, <2>3 DEF PlaceOK
<1>13. EnvelopeInv'
  <2>1. \A q \in Place : ~Sealing(q) /\ ~Reading(q)
    <3> SUFFICES ASSUME NEW q \in Place PROVE ~Sealing(q) /\ ~Reading(q)
      OBVIOUS
    <3>1. cmd[q] # None => IsCommand(cmd[q]) /\ cmd[q].op \in {"init", "request"}
      BY <1>4 DEF Inv, Typed, DirectoryInv, PlaceOK, UntilCreated
    <3> QED BY <3>1 DEF Sealing, Reading, AtAny, IsCommand, IsStageOf, WritingStages
  <2>2. \A q \in Place : ~Sealing(q)' /\ ~Reading(q)'
    BY <1>1, <2>1 DEF Sealing, Reading, AtAny, OthersKeep
  <2> QED BY <1>4, <1>7, <2>2 DEF EnvelopeInv, SealedOnJoining, ReadAfterJoining
<1> QED
  BY <1>8, <1>9, <1>11, <1>12, <1>13 DEF Inv, DirectoryInv

-----------------------------------------------------------------------------
(* device approve.                                                         *)

\* Whoever the server lets through is a member, so the workspace exists.
LEMMA MemberThere ==
    ASSUME Inv, NEW d, NEW permission, authenticate(d, permission)
    PROVE  access.revision # 0 /\ d \in DOMAIN access.members /\ d \in Device
  BY DEF authenticate, require_permission, active_membership, Inv, Typed, IsAccess,
         DirectoryInv, NobodyBefore

\* A command that goes on with the access state it got.
LEMMA WithState ==
    ASSUME NEW c, IsCommand(c), NEW stage, NEW state
    PROVE  [c EXCEPT !.stage = stage, !.state = state] =
                [op |-> c.op, stage |-> stage, actor |-> c.actor, device |-> c.device,
                 state |-> state, envelope |-> c.envelope]
<1>1. c = [op |-> c.op, stage |-> c.stage, actor |-> c.actor, device |-> c.device,
           state |-> c.state, envelope |-> c.envelope]
  BY DEF IsCommand
<1> DEFINE d == [c EXCEPT !.stage = stage]
<1>2. d = [op |-> c.op, stage |-> stage, actor |-> c.actor, device |-> c.device,
           state |-> c.state, envelope |-> c.envelope]
  BY <1>1
<1>3. [c EXCEPT !.stage = stage, !.state = state] = [d EXCEPT !.state = state]
  BY <1>1
<1> HIDE DEF d
<1> QED BY <1>2, <1>3

\* A command that goes on with an envelope.
LEMMA WithEnvelope ==
    ASSUME NEW c, IsCommand(c), NEW stage, NEW envelope
    PROVE  [c EXCEPT !.stage = stage, !.envelope = envelope] =
                [op |-> c.op, stage |-> stage, actor |-> c.actor, device |-> c.device,
                 state |-> c.state, envelope |-> envelope]
<1>1. c = [op |-> c.op, stage |-> c.stage, actor |-> c.actor, device |-> c.device,
           state |-> c.state, envelope |-> c.envelope]
  BY DEF IsCommand
<1> DEFINE d == [c EXCEPT !.stage = stage]
<1>2. d = [op |-> c.op, stage |-> stage, actor |-> c.actor, device |-> c.device,
           state |-> c.state, envelope |-> c.envelope]
  BY <1>1
<1>3. [c EXCEPT !.stage = stage, !.envelope = envelope] = [d EXCEPT !.envelope = envelope]
  BY <1>1
<1> HIDE DEF d
<1> QED BY <1>2, <1>3

\* A device that seals goes on sealing, for the same state.
LEMMA StillSealing ==
    ASSUME Inv, NEW p \in Place, OthersKeep(p), UNCHANGED <<access, envelopes>>,
           Sealing(p), ~Reading(p)',
           cmd'[p].device = cmd[p].device, cmd'[p].state = cmd[p].state,
           cmd'[p].envelope.revision = cmd[p].state.revision
    PROVE  EnvelopeInv'
<1>1. \A q \in Place : /\ Sealing(q)' => Sealing(q)
                       /\ Reading(q)' => Reading(q)
                       /\ cmd'[q].device = cmd[q].device
                       /\ cmd'[q].state = cmd[q].state
  BY DEF Sealing, Reading, AtAny, OthersKeep
<1>2. SealedOnJoining'
  <2>1. \A q \in Place : Sealing(q)' =>
            /\ cmd'[q].device \in DOMAIN access.members
            /\ cmd'[q].state.revision <= access.revision
            /\ ~At(q, "seal")' => cmd'[q].envelope.revision = cmd'[q].state.revision
    BY <1>1 DEF Inv, EnvelopeInv, SealedOnJoining, OthersKeep, At
  <2> QED BY <2>1 DEF Inv, EnvelopeInv, SealedOnJoining
<1>3. ReadAfterJoining'
  BY <1>1 DEF Inv, EnvelopeInv, ReadAfterJoining, OthersKeep, Reading, AtAny, At
<1> QED BY <1>2, <1>3 DEF EnvelopeInv

\* A command of an owner's device, which is past init.
LEMMA ApproverPlace ==
    ASSUME Inv, NEW p \in Place, Does(p, "approve")
    PROVE  access.revision # 0
  BY DEF Inv, DirectoryInv, PlaceOK, UntilCreated, Does

\* Approving writes nothing after the access state.
LEMMA ApprovingPlace ==
    ASSUME Inv, NEW p \in Place, access.revision # 0, UNCHANGED <<access, diskVars>>,
           cmd'[p].op = "approve", IsCommand(cmd'[p]),
           cmd'[p].stage = "fetch" => IsOpen(p)
    PROVE  PlaceOK(p)'
<1>1. PlaceOK(p) /\ cmd'[p].stage \in {"fetch", "approve", "seal", "upload", "insert"}
  BY DEF Inv, DirectoryInv, IsCommand, IsStageOf
<1>2. cmd'[p].stage = "fetch" => meta[p] # None /\ "config" \in meta[p].parts
  BY EnrollmentAssumption DEF IsOpen, Identity
<1> QED
  BY <1>1, <1>2
     DEF PlaceOK, UntilCreated, InitIsFirst, IsInit, WritesInOrder, BackedUp, BackupIsPending,
         CommandFits, NotHalf, Pending, AtAny, At, Does, WritingStages, diskVars

LEMMA ListKeepsInv ==
    ASSUME Inv, NEW p \in Place, ListRequests(p)
    PROVE  Inv'
<1>1. PICK d \in pending : Start(p, "approve", "fetch", Identity(p), d, None)
  BY DEF ListRequests
<1>2. /\ cmd' = [q \in Place |-> cmd'[q]]
      /\ cmd'[p] = [op |-> "approve", stage |-> "fetch", actor |-> Identity(p),
                    device |-> d, state |-> None, envelope |-> None]
      /\ OthersKeep(p)
  BY <1>1, StartStep DEF Inv
<1>3. access.revision # 0 /\ Identity(p) \in Device
  BY MemberThere DEF ListRequests
<1>4. IsCommand(cmd'[p])
  BY <1>2, <1>3 DEF IsCommand, IsStageOf, Inv, Typed
<1>5. PlaceOK(p)'
  BY <1>2, <1>3, <1>4, ApprovingPlace DEF ListRequests, serverVars
<1>6. EnvelopeInv'
  BY <1>2, NoEnvelope DEF ListRequests, Sealing, Reading, AtAny, serverVars
<1> QED
  BY <1>2, <1>4, <1>5, <1>6, QuietStep DEF ListRequests

LEMMA FetchKeepsInv ==
    ASSUME Inv, NEW p \in Place, FetchState(p)
    PROVE  Inv'
<1>1. At(p, "fetch") /\ IsCommand(cmd[p]) /\ cmd[p].op = "approve"
  BY DEF FetchState, Inv, Typed, At, IsCommand, IsStageOf, WritingStages
<1>2. CASE Done(p) /\ UNCHANGED meta
  BY <1>2, QuietEnd DEF FetchState, diskVars, Inv, Typed
<1>3. CASE /\ cmd' = [cmd EXCEPT ![p].stage = "approve", ![p].state = access]
           /\ meta' = [meta EXCEPT ![p].parts = @ \cup {"access"}]
  <2>1. cmd' = [cmd EXCEPT ![p] = [cmd[p] EXCEPT !.stage = "approve", !.state = access]]
    BY <1>3 DEF Inv, Typed
  <2>2. [cmd[p] EXCEPT !.stage = "approve", !.state = access] =
            [op |-> cmd[p].op, stage |-> "approve", actor |-> cmd[p].actor,
             device |-> cmd[p].device, state |-> access, envelope |-> cmd[p].envelope]
    BY <1>1, WithState, Zenon
  <2>3. /\ cmd' = [q \in Place |-> cmd'[q]]
        /\ cmd'[p] = [op |-> "approve", stage |-> "approve", actor |-> cmd[p].actor,
                      device |-> cmd[p].device, state |-> access,
                      envelope |-> cmd[p].envelope]
        /\ OthersKeep(p)
    BY <1>1, <2>1, <2>2 DEF Inv, Typed, OthersKeep
  <2>4. IsCommand(cmd'[p])
    BY <1>1, <2>3 DEF IsCommand, IsStageOf, Inv, Typed
  <2>5. meta[p] \in Directory /\ meta[p] # None /\ "config" \in meta[p].parts
    BY <1>1 DEF Inv, Typed, DirectoryInv, PlaceOK, CommandFits
  <2>6. /\ OwnDisk(p) /\ backup' = backup
        /\ meta'[p] \in Directory
        /\ meta'[p].identity = meta[p].identity
        /\ meta'[p].parts = meta[p].parts \cup {"access"}
    <3>1. meta' = [meta EXCEPT ![p] = [meta[p] EXCEPT !.parts = meta[p].parts \cup {"access"}]]
      BY <1>3 DEF Inv, Typed
    <3>2. [meta[p] EXCEPT !.parts = meta[p].parts \cup {"access"}] =
            [identity |-> meta[p].identity, parts |-> meta[p].parts \cup {"access"}]
      BY <2>5 DEF Directory
    <3>3. [identity |-> meta[p].identity, parts |-> meta[p].parts \cup {"access"}] \in Directory
      BY <2>5 DEF Directory, Parts
    <3>4. backup' = backup
      BY DEF FetchState
    <3> QED BY <3>1, <3>2, <3>3, <3>4 DEF OwnDisk, Inv, Typed
  <2>7. access.revision # 0
    BY <1>1, ApproverPlace DEF Does, At
  <2>8. PlaceOK(p)'
    <3>1. PlaceOK(p)
      BY DEF Inv, DirectoryInv
    <3>2. NotHalf(p)'
      BY <2>5, <2>6, <2>7, <3>1 DEF PlaceOK, NotHalf, Pending, FetchState, serverVars, Parts
    <3>3. BackupIsPending(p)' /\ UntilCreated(p)'
      BY <2>6, <2>7, <3>1 DEF PlaceOK, BackupIsPending, UntilCreated, FetchState, serverVars
    <3> QED
      BY <2>3, <3>2, <3>3 DEF PlaceOK, InitIsFirst, IsInit, WritesInOrder, BackedUp,
                             CommandFits, AtAny, At, Does, WritingStages
  <2>9. \A d \in Device : Holds(p, d) => Holds(p, d)'
    BY <2>5, <2>6, EnrollmentAssumption DEF Holds, HasIdentity
  <2>10. EnvelopeInv'
    BY <2>3, NoEnvelope DEF FetchState, Sealing, Reading, AtAny, serverVars
  <2>11. OwnStep(p)
    BY <2>3, <2>6 DEF OwnStep, FetchState, Inv, Typed
  <2> QED
    BY <2>4, <2>8, <2>9, <2>10, <2>11, LocalStep DEF FetchState
<1> QED BY <1>2, <1>3 DEF FetchState

\* An event applies: directories and identities stay as they are.
LEMMA EventStep ==
    ASSUME Inv, access.revision # 0, IsAccess(access'),
           access'.revision = access.revision + 1, pending' \subseteq pending,
           DOMAIN access'.members \subseteq DOMAIN access.members \cup pending,
           UNCHANGED diskVars, NEW p \in Place, OthersKeep(p), PlaceOK(p)'
    PROVE  DirectoryInv'
<1>1. access'.revision # 0
  BY DEF Inv, Typed, IsAccess
<1>2. NobodyBefore'
  BY <1>1 DEF NobodyBefore
<1>3. IdentitiesHeld'
  <2> SUFFICES ASSUME NEW d \in (pending' \cup DOMAIN access'.members) \ {Founder}
               PROVE  \E q \in Place : Holds(q, d)'
    BY DEF IdentitiesHeld
  <2>1. PICK q \in Place : Holds(q, d)
    BY DEF Inv, DirectoryInv, IdentitiesHeld
  <2> QED BY <2>1 DEF Holds, diskVars
<1>4. \A q \in Place : PlaceOK(q)'
  BY <1>1, OtherPlaces DEF Inv, DirectoryInv, OthersKeep, diskVars
<1> QED
  BY <1>2, <1>3, <1>4 DEF DirectoryInv

\* What was sealed remains for a member, and for an earlier revision.
LEMMA EarlierRevisions ==
    ASSUME Inv, IsAccess(access'), access'.revision = access.revision + 1,
           DOMAIN access.members \subseteq DOMAIN access'.members
    PROVE  /\ \A q \in Place : Sealing(q) =>
                /\ cmd[q].device \in DOMAIN access'.members
                /\ cmd[q].state.revision <= access'.revision
           /\ \A r \in DOMAIN envelopes :
                r \in DOMAIN access'.members /\ envelopes[r].revision <= access'.revision
<1>1. ASSUME NEW q \in Place, Sealing(q)
      PROVE  /\ cmd[q].device \in DOMAIN access'.members
             /\ cmd[q].state.revision <= access'.revision
  <2>1. cmd[q].state.revision \in Nat /\ access.revision \in Nat
    BY <1>1 DEF Inv, Typed, Sealing, AtAny, IsCommand, IsAccess
  <2> QED BY <1>1, <2>1 DEF Inv, EnvelopeInv, SealedOnJoining
<1>2. ASSUME NEW r \in DOMAIN envelopes
      PROVE  r \in DOMAIN access'.members /\ envelopes[r].revision <= access'.revision
  <2>1. envelopes[r].revision \in Nat /\ access.revision \in Nat
    BY DEF Inv, Typed, Envelope, IsAccess
  <2> QED BY <2>1 DEF Inv, EnvelopeInv, SealedOnJoining
<1> QED BY <1>1, <1>2

LEMMA ApprovalKeepsInv ==
    ASSUME Inv, NEW p \in Place, PostApproval(p)
    PROVE  Inv'
<1> DEFINE d == cmd[p].device
<1>1. At(p, "approve") /\ IsCommand(cmd[p]) /\ cmd[p].op = "approve" /\ d \in Device
  BY DEF PostApproval, Inv, Typed, At, IsCommand, IsStageOf, WritingStages
<1>2. PICK role \in Role :
        IF d \in pending /\ accepts_event(access, signed_device_joined_event(p, role))
        THEN /\ access' = Changed(access, signed_device_joined_event(p, role).event)
             /\ pending' = pending \ {d}
             /\ cmd' = [cmd EXCEPT ![p].stage = "seal", ![p].state = access']
        ELSE Done(p) /\ UNCHANGED <<access, pending>>
  BY DEF PostApproval
<1> DEFINE e == [kind |-> "DeviceJoined", id |-> d, device |-> d, role |-> role]
<1>3. signed_device_joined_event(p, role).event = e
  BY DEF signed_device_joined_event
<1>4. CASE Done(p) /\ UNCHANGED <<access, pending>>
  BY <1>4, QuietEnd DEF PostApproval, serverVars, Inv, Typed
<1>5. CASE /\ d \in pending /\ accepts_event(access, signed_device_joined_event(p, role))
           /\ access' = Changed(access, e)
           /\ pending' = pending \ {d}
           /\ cmd' = [cmd EXCEPT ![p].stage = "seal", ![p].state = access']
  <2>1. d \notin DOMAIN access.members
    BY <1>3, <1>5 DEF accepts_event, Acceptable, may_join
  <2>2. access.revision # 0
    BY <1>1, ApproverPlace DEF Does, At
  <2>3. /\ IsAccess(access')
        /\ access'.revision = access.revision + 1
        /\ DOMAIN access'.members = DOMAIN access.members \cup {d}
    BY <1>1, <1>5, ChangedAccess DEF Inv, Typed
  <2>4. cmd' = [cmd EXCEPT ![p] = [cmd[p] EXCEPT !.stage = "seal", !.state = access']]
    BY <1>5 DEF Inv, Typed
  <2>5. [cmd[p] EXCEPT !.stage = "seal", !.state = access'] =
            [op |-> cmd[p].op, stage |-> "seal", actor |-> cmd[p].actor,
             device |-> cmd[p].device, state |-> access', envelope |-> cmd[p].envelope]
    BY <1>1, WithState, Zenon
  <2>6. /\ cmd' = [q \in Place |-> cmd'[q]]
        /\ cmd'[p] = [op |-> "approve", stage |-> "seal", actor |-> cmd[p].actor,
                      device |-> d, state |-> access', envelope |-> cmd[p].envelope]
        /\ OthersKeep(p)
    BY <1>1, <2>4, <2>5 DEF Inv, Typed, OthersKeep
  <2>7. IsCommand(cmd'[p])
    BY <1>1, <2>3, <2>6 DEF IsCommand, IsStageOf
  <2>8. Typed'
    BY <1>5, <2>3, <2>6, <2>7 DEF PostApproval, Inv, Typed, OthersKeep, diskVars
  <2>9. PlaceOK(p)'
    <3>1. PlaceOK(p) /\ access'.revision # 0
      BY <2>3 DEF Inv, DirectoryInv, Typed, IsAccess
    <3> QED
      BY <2>2, <2>6, <3>1
         DEF PostApproval, diskVars, PlaceOK, UntilCreated, InitIsFirst, IsInit,
             WritesInOrder, BackedUp, BackupIsPending, CommandFits, NotHalf, Pending, AtAny, At, Does,
             WritingStages
  <2>10. DirectoryInv'
    BY <1>5, <2>2, <2>3, <2>6, <2>9, EventStep DEF PostApproval
  <2>11. SealedOnJoining'
    <3>1. \A q \in Place : Sealing(q) =>
                /\ cmd[q].device \in DOMAIN access'.members
                /\ cmd[q].state.revision <= access'.revision
      BY <2>3, EarlierRevisions
    <3>2. \A r \in DOMAIN envelopes :
                r \in DOMAIN access'.members /\ envelopes[r].revision <= access'.revision
      BY <2>3, EarlierRevisions
    <3>3. access'.revision <= access'.revision
      BY <2>3 DEF IsAccess
    <3>4. \A q \in Place : q # p => (Sealing(q)' <=> Sealing(q)) /\ (At(q, "seal")' <=> At(q, "seal"))
      BY <2>6 DEF Sealing, AtAny, At, OthersKeep
    <3>5. \A q \in Place : Sealing(q)' =>
                /\ cmd'[q].device \in DOMAIN access'.members
                /\ cmd'[q].state.revision <= access'.revision
                /\ ~At(q, "seal")' => cmd'[q].envelope.revision = cmd'[q].state.revision
      <4> SUFFICES ASSUME NEW q \in Place, Sealing(q)'
                   PROVE  /\ cmd'[q].device \in DOMAIN access'.members
                          /\ cmd'[q].state.revision <= access'.revision
                          /\ ~At(q, "seal")' =>
                                cmd'[q].envelope.revision = cmd'[q].state.revision
        OBVIOUS
      <4>1. CASE q = p
        BY <2>3, <2>6, <3>3, <4>1 DEF Sealing, AtAny, At
      <4>2. CASE q # p
        BY <2>6, <3>1, <3>4, <4>2 DEF OthersKeep, Inv, EnvelopeInv, SealedOnJoining
      <4> QED BY <4>1, <4>2
    <3> QED
      BY <3>2, <3>5 DEF PostApproval, SealedOnJoining
  <2>12. ReadAfterJoining'
    <3> SUFFICES ASSUME NEW r \in Place, Reading(r)'
                 PROVE  /\ cmd'[r].device \in DOMAIN access'.members
                        /\ cmd'[r].device \in DOMAIN envelopes =>
                                envelopes[cmd'[r].device].revision <= cmd'[r].state.revision
                        /\ \A q \in Place : (Sealing(q)' /\ cmd'[q].device = cmd'[r].device) =>
                                cmd'[q].state.revision <= cmd'[r].state.revision
                        /\ At(r, "open")' => cmd'[r].envelope.revision <= cmd'[r].state.revision
      BY DEF PostApproval, ReadAfterJoining
    <3>1. r # p /\ cmd'[r] = cmd[r] /\ Reading(r)
      BY <2>6 DEF Reading, AtAny, OthersKeep
    <3>2. /\ cmd[r].device \in DOMAIN access.members
          /\ cmd[r].device \in DOMAIN envelopes =>
                envelopes[cmd[r].device].revision <= cmd[r].state.revision
          /\ \A q \in Place : (Sealing(q) /\ cmd[q].device = cmd[r].device) =>
                cmd[q].state.revision <= cmd[r].state.revision
          /\ At(r, "open") => cmd[r].envelope.revision <= cmd[r].state.revision
      BY <3>1 DEF Inv, EnvelopeInv, ReadAfterJoining
    <3>3. cmd[r].device # d
      BY <2>1, <3>2
    <3>4. \A q \in Place : (Sealing(q)' /\ cmd'[q].device = cmd'[r].device) =>
                cmd'[q].state.revision <= cmd'[r].state.revision
      BY <2>6, <3>1, <3>2, <3>3 DEF Sealing, AtAny, OthersKeep
    <3> QED
      BY <2>3, <3>1, <3>2, <3>4 DEF At
  <2> QED
    BY <2>8, <2>10, <2>11, <2>12 DEF Inv, EnvelopeInv
<1> QED BY <1>2, <1>3, <1>4, <1>5

\* An owner's device goes on: what it seals is for the revision of the approval.
LEMMA SealKeepsInv ==
    ASSUME Inv, NEW p \in Place, SealEnvelope(p)
    PROVE  Inv'
<1>1. At(p, "seal") /\ IsCommand(cmd[p]) /\ cmd[p].op = "approve"
  BY DEF SealEnvelope, Inv, Typed, At, IsCommand, IsStageOf, WritingStages
<1>2. CASE Done(p)
  BY <1>2, QuietEnd DEF SealEnvelope, Inv, Typed
<1>3. CASE cmd' = [cmd EXCEPT ![p].stage = "upload", ![p].envelope = sealed_for(p)]
  <2> DEFINE c == [op |-> "approve", stage |-> "upload", actor |-> cmd[p].actor,
                   device |-> cmd[p].device, state |-> cmd[p].state,
                   envelope |-> sealed_for(p)]
  <2>1. cmd' = [cmd EXCEPT ![p] = [cmd[p] EXCEPT !.stage = "upload", !.envelope = sealed_for(p)]]
    BY <1>3 DEF Inv, Typed
  <2>2. [cmd[p] EXCEPT !.stage = "upload", !.envelope = sealed_for(p)] =
            [op |-> cmd[p].op, stage |-> "upload", actor |-> cmd[p].actor,
             device |-> cmd[p].device, state |-> cmd[p].state, envelope |-> sealed_for(p)]
    BY <1>1, WithEnvelope, Zenon
  <2>3. cmd' = [q \in Place |-> cmd'[q]] /\ cmd'[p] = c /\ OthersKeep(p)
    BY <1>1, <2>1, <2>2 DEF Inv, Typed, OthersKeep
  <2>4. sealed_for(p) \in Envelope /\ sealed_for(p).revision = cmd[p].state.revision
    BY <1>1 DEF sealed_for, Envelope, IsCommand, IsAccess, At
  <2>5. IsCommand(cmd'[p])
    BY <1>1, <2>3, <2>4 DEF IsCommand, IsStageOf, At
  <2>6. access.revision # 0
    BY <1>1, ApproverPlace DEF Does, At
  <2>7. PlaceOK(p)'
    BY <2>3, <2>5, <2>6, ApprovingPlace DEF SealEnvelope, serverVars
  <2>8. EnvelopeInv'
    <3>1. Sealing(p) /\ (Sealing(p)' => ~At(p, "seal")') /\ ~Reading(p)'
      BY <1>1, <2>3 DEF Sealing, Reading, AtAny, At
    <3> QED
      BY <2>3, <2>4, <3>1, StillSealing DEF SealEnvelope, serverVars
  <2> QED
    BY <2>3, <2>5, <2>7, <2>8, QuietStep DEF SealEnvelope
<1> QED BY <1>2, <1>3 DEF SealEnvelope

LEMMA PutKeepsInv ==
    ASSUME Inv, NEW p \in Place, PutKeyEnvelope(p)
    PROVE  Inv'
<1>1. At(p, "upload") /\ IsCommand(cmd[p]) /\ cmd[p].op = "approve"
  BY DEF PutKeyEnvelope, Inv, Typed, At, IsCommand, IsStageOf, WritingStages
<1>2. CASE Done(p)
  BY <1>2, QuietEnd DEF PutKeyEnvelope, Inv, Typed
<1>3. CASE Continue(p, "insert")
  <2>1. /\ cmd' = [q \in Place |-> cmd'[q]]
        /\ cmd'[p] = [op |-> "approve", stage |-> "insert", actor |-> cmd[p].actor,
                      device |-> cmd[p].device, state |-> cmd[p].state,
                      envelope |-> cmd[p].envelope]
        /\ OthersKeep(p)
    BY <1>1, <1>3, ContinueStep DEF At, Inv
  <2>2. IsCommand(cmd'[p])
    BY <1>1, <2>1 DEF IsCommand, IsStageOf, At
  <2>3. access.revision # 0
    BY <1>1, ApproverPlace DEF Does, At
  <2>4. PlaceOK(p)'
    BY <2>1, <2>2, <2>3, ApprovingPlace DEF PutKeyEnvelope, serverVars
  <2>5. EnvelopeInv'
    <3>1. Sealing(p) /\ ~At(p, "seal") /\ ~Reading(p)'
      BY <1>1, <2>1 DEF Sealing, Reading, AtAny, At
    <3>2. cmd[p].envelope.revision = cmd[p].state.revision
      BY <3>1 DEF Inv, EnvelopeInv, SealedOnJoining
    <3> QED
      BY <2>1, <3>1, <3>2, StillSealing DEF PutKeyEnvelope, serverVars
  <2> QED
    BY <2>1, <2>2, <2>4, <2>5, QuietStep DEF PutKeyEnvelope
<1> QED BY <1>2, <1>3 DEF PutKeyEnvelope

\* The first envelope of a device stays.
LEMMA InsertKeepsInv ==
    ASSUME Inv, NEW p \in Place, InsertEnvelope(p)
    PROVE  Inv'
<1> DEFINE d == cmd[p].device
<1>1. /\ At(p, "insert") /\ IsCommand(cmd[p]) /\ cmd[p].op = "approve"
      /\ d \in Device /\ cmd[p].envelope \in Envelope
  BY DEF InsertEnvelope, Inv, Typed, At, IsCommand, IsStageOf, WritingStages
<1>2. /\ cmd' = [q \in Place |-> cmd'[q]]
      /\ cmd'[p] = None
      /\ OthersKeep(p)
  BY DoneStep DEF InsertEnvelope, Inv
<1>3. /\ DOMAIN envelopes' = DOMAIN envelopes \cup {d}
      /\ \A r \in DOMAIN envelopes' :
            envelopes'[r] = IF r \in DOMAIN envelopes THEN envelopes[r] ELSE cmd[p].envelope
      /\ envelopes' = [r \in DOMAIN envelopes' |-> envelopes'[r]]
  BY DEF InsertEnvelope
<1>4. UNCHANGED <<access, pending, diskVars, changes, faults>> /\ access.revision # 0
  BY <1>1, ApproverPlace DEF InsertEnvelope, Does, At
<1>5. Typed'
  <2>1. DOMAIN envelopes' \subseteq Device /\ envelopes' \in [DOMAIN envelopes' -> Envelope]
    BY <1>1, <1>3 DEF Inv, Typed
  <2> QED BY <1>2, <1>4, <2>1 DEF Inv, Typed, OthersKeep, diskVars
<1>6. DirectoryInv'
  <2>1. NobodyBefore' /\ IdentitiesHeld'
    BY <1>4 DEF Inv, DirectoryInv, NobodyBefore, IdentitiesHeld, Holds, diskVars
  <2>2. PlaceOK(p)'
    BY <1>2, <1>4 DEF Inv, DirectoryInv, PlaceOK, UntilCreated, InitIsFirst, IsInit,
       WritesInOrder, BackedUp, BackupIsPending, CommandFits, NotHalf, Pending, AtAny, At, Does, diskVars
  <2> QED
    BY <1>2, <1>4, <2>1, <2>2, OtherPlaces DEF Inv, DirectoryInv, OthersKeep, diskVars
<1>7. /\ Sealing(p) /\ ~At(p, "seal")
      /\ d \in DOMAIN access.members
      /\ cmd[p].envelope.revision = cmd[p].state.revision
      /\ cmd[p].state.revision <= access.revision
  BY <1>1 DEF Inv, EnvelopeInv, SealedOnJoining, Sealing, AtAny, At
<1>8. ~Sealing(p)' /\ ~Reading(p)'
      /\ \A q \in Place : q # p => /\ Sealing(q)' <=> Sealing(q)
                                   /\ Reading(q)' <=> Reading(q)
                                   /\ At(q, "seal")' <=> At(q, "seal")
                                   /\ At(q, "open")' <=> At(q, "open")
  BY <1>2 DEF Sealing, Reading, AtAny, At, OthersKeep
<1>9. SealedOnJoining'
  <2>1. \A r \in DOMAIN envelopes' :
            r \in DOMAIN access.members /\ envelopes'[r].revision <= access.revision
    BY <1>3, <1>7 DEF Inv, EnvelopeInv, SealedOnJoining
  <2> QED
    BY <1>2, <1>4, <1>8, <2>1 DEF Inv, EnvelopeInv, SealedOnJoining, OthersKeep
<1>10. ReadAfterJoining'
  <2> SUFFICES ASSUME NEW r \in Place, Reading(r)'
               PROVE  /\ cmd'[r].device \in DOMAIN access.members
                      /\ cmd'[r].device \in DOMAIN envelopes' =>
                            envelopes'[cmd'[r].device].revision <= cmd'[r].state.revision
                      /\ \A q \in Place : (Sealing(q)' /\ cmd'[q].device = cmd'[r].device) =>
                            cmd'[q].state.revision <= cmd'[r].state.revision
                      /\ At(r, "open")' => cmd'[r].envelope.revision <= cmd'[r].state.revision
    BY <1>4 DEF ReadAfterJoining
  <2>1. r # p /\ cmd'[r] = cmd[r] /\ Reading(r)
    BY <1>2, <1>8 DEF OthersKeep
  <2>2. /\ cmd[r].device \in DOMAIN access.members
        /\ cmd[r].device \in DOMAIN envelopes =>
                envelopes[cmd[r].device].revision <= cmd[r].state.revision
        /\ \A q \in Place : (Sealing(q) /\ cmd[q].device = cmd[r].device) =>
                cmd[q].state.revision <= cmd[r].state.revision
        /\ At(r, "open") => cmd[r].envelope.revision <= cmd[r].state.revision
    BY <2>1 DEF Inv, EnvelopeInv, ReadAfterJoining
  <2>3. cmd[r].device \in DOMAIN envelopes' =>
            envelopes'[cmd[r].device].revision <= cmd[r].state.revision
    BY <1>3, <1>7, <2>2
  <2> QED
    BY <1>2, <1>8, <2>1, <2>2, <2>3 DEF OthersKeep
<1> QED
  BY <1>5, <1>6, <1>9, <1>10 DEF Inv, EnvelopeInv

LEMMA MembershipKeepsInv ==
    ASSUME Inv, NEW p \in Place, ChangeMembership(p)
    PROVE  Inv'
<1>1. PICK d \in Device : \E e \in [kind : {"DeviceRemoved"}, device : {d}]
                            \cup [kind : {"DeviceRoleChanged"}, device : {d}, role : Role] :
        /\ accepts_event(access,
                [actor |-> Identity(p), expected |-> access.revision, event |-> e])
        /\ access' = Changed(access, e)
  BY DEF ChangeMembership
<1>2. PICK e \in [kind : {"DeviceRemoved"}, device : {d}]
                    \cup [kind : {"DeviceRoleChanged"}, device : {d}, role : Role] :
        /\ accepts_event(access,
                [actor |-> Identity(p), expected |-> access.revision, event |-> e])
        /\ access' = Changed(access, e)
  BY <1>1
<1>3. e.device \in Device /\ e.kind \in {"DeviceRoleChanged", "DeviceRemoved"}
  OBVIOUS
<1>4. access.revision # 0
  BY <1>2 DEF accepts_event, Acceptable, require_permission, active_membership,
              Inv, DirectoryInv, NobodyBefore
<1>5. /\ IsAccess(access')
      /\ access'.revision = access.revision + 1
      /\ DOMAIN access'.members = DOMAIN access.members
  BY <1>2, <1>3, ChangedAccess DEF Inv, Typed
<1>6. UNCHANGED <<pending, envelopes, diskVars, cmd, faults>> /\ changes' \in 0..MaxChanges
  BY EnrollmentAssumption DEF ChangeMembership, Inv, Typed
<1>7. Typed'
  BY <1>5, <1>6 DEF Inv, Typed, diskVars
<1>8. DirectoryInv'
  <2>1. PlaceOK(p)'
    BY <1>4, <1>5, <1>6, OtherPlaces DEF Inv, Typed, IsAccess, DirectoryInv, diskVars
  <2> QED
    BY <1>4, <1>5, <1>6, <2>1, EventStep DEF OthersKeep
<1>9. EnvelopeInv'
  <2>1. /\ \A q \in Place : Sealing(q) =>
                /\ cmd[q].device \in DOMAIN access'.members
                /\ cmd[q].state.revision <= access'.revision
        /\ \A r \in DOMAIN envelopes :
                r \in DOMAIN access'.members /\ envelopes[r].revision <= access'.revision
    BY <1>5, EarlierRevisions
  <2> QED
    BY <1>5, <1>6, <2>1 DEF Inv, EnvelopeInv, SealedOnJoining, ReadAfterJoining, Sealing,
                            Reading, AtAny, At
<1> QED
  BY <1>7, <1>8, <1>9 DEF Inv

-----------------------------------------------------------------------------
(* device bootstrap: the state, the envelope, and the files.               *)

\* A pending directory has the identity and no more.
LEMMA PendingDirectory ==
    ASSUME Inv, NEW p \in Place, IsPendingLayout(p)
    PROVE  meta[p] = Metadata(Identity(p), {})
<1>1. meta[p] # None /\ Identity(p) = meta[p].identity /\ meta[p].parts = {}
  BY DEF IsPendingLayout, Identity
<1>2. meta[p] \in Directory
  BY <1>1 DEF Inv, Typed
<1> QED BY <1>1, <1>2 DEF Metadata, Directory

\* The state that bootstrap reads is not older than any envelope there is.
LEMMA BootstrapKeepsInv ==
    ASSUME Inv, NEW p \in Place, Bootstrap(p)
    PROVE  Inv'
<1> DEFINE d == Identity(p)
<1>1. /\ cmd' = [q \in Place |-> cmd'[q]]
      /\ cmd'[p] = [op |-> "bootstrap", stage |-> "download", actor |-> d, device |-> d,
                    state |-> access, envelope |-> None]
      /\ OthersKeep(p)
  BY StartStep DEF Bootstrap, Inv
<1>2. access.revision # 0 /\ d \in DOMAIN access.members /\ d \in Device
  BY MemberThere DEF Bootstrap
<1>3. IsCommand(cmd'[p])
  BY <1>1, <1>2 DEF IsCommand, IsStageOf, Inv, Typed
<1>4. meta[p] = Metadata(d, {})
  BY PendingDirectory DEF Bootstrap
<1>5. PlaceOK(p)'
  <2>1. PlaceOK(p)
    BY DEF Inv, DirectoryInv
  <2> QED
    BY <1>1, <1>2, <1>4, <2>1
       DEF Bootstrap, PlaceOK, UntilCreated, InitIsFirst, IsInit, WritesInOrder, BackedUp,
           BackupIsPending, CommandFits, NotHalf, Pending, AtAny, At, Does, WritingStages, serverVars,
           diskVars
<1>6. /\ ~Sealing(p)' /\ ~At(p, "open")'
      /\ \A q \in Place : q # p => /\ Sealing(q)' <=> Sealing(q)
                                   /\ Reading(q)' <=> Reading(q)
                                   /\ At(q, "seal")' <=> At(q, "seal")
                                   /\ At(q, "open")' <=> At(q, "open")
  BY <1>1 DEF Sealing, Reading, AtAny, At, OthersKeep
<1>7. UNCHANGED <<access, envelopes>>
  BY DEF Bootstrap, serverVars
<1>8. SealedOnJoining'
  BY <1>1, <1>6, <1>7 DEF Inv, EnvelopeInv, SealedOnJoining, OthersKeep
<1>9. ReadAfterJoining'
  <2> SUFFICES ASSUME NEW r \in Place, Reading(r)'
               PROVE  /\ cmd'[r].device \in DOMAIN access.members
                      /\ cmd'[r].device \in DOMAIN envelopes =>
                            envelopes[cmd'[r].device].revision <= cmd'[r].state.revision
                      /\ \A q \in Place : (Sealing(q)' /\ cmd'[q].device = cmd'[r].device) =>
                            cmd'[q].state.revision <= cmd'[r].state.revision
                      /\ At(r, "open")' => cmd'[r].envelope.revision <= cmd'[r].state.revision
    BY <1>7 DEF ReadAfterJoining
  <2>1. CASE r = p
    <3>1. \A q \in Place : Sealing(q)' => cmd'[q].state.revision <= access.revision
      BY <1>7, <1>8 DEF SealedOnJoining
    <3>2. d \in DOMAIN envelopes => envelopes[d].revision <= access.revision
      BY DEF Inv, EnvelopeInv, SealedOnJoining
    <3> QED BY <1>1, <1>2, <1>6, <2>1, <3>1, <3>2
  <2>2. CASE r # p
    BY <1>1, <1>6, <2>2 DEF Inv, EnvelopeInv, ReadAfterJoining, OthersKeep
  <2> QED BY <2>1, <2>2
<1> QED
  BY <1>1, <1>3, <1>5, <1>8, <1>9, QuietStep DEF Bootstrap, EnvelopeInv

LEMMA DownloadKeepsInv ==
    ASSUME Inv, NEW p \in Place, DownloadEnvelope(p)
    PROVE  Inv'
<1> DEFINE d == cmd[p].device
<1>1. At(p, "download") /\ IsCommand(cmd[p]) /\ cmd[p].op = "bootstrap" /\ d \in Device
  BY DEF DownloadEnvelope, Inv, Typed, At, IsCommand, IsStageOf, WritingStages
<1>2. CASE Done(p)
  BY <1>2, QuietEnd DEF DownloadEnvelope, Inv, Typed
<1>3. CASE /\ d \in DOMAIN envelopes
           /\ cmd' = [cmd EXCEPT ![p].stage = "open", ![p].envelope = envelopes[d]]
  <2> DEFINE c == [op |-> "bootstrap", stage |-> "open", actor |-> cmd[p].actor,
                   device |-> d, state |-> cmd[p].state, envelope |-> envelopes[d]]
  <2>1. cmd' = [cmd EXCEPT ![p] = [cmd[p] EXCEPT !.stage = "open", !.envelope = envelopes[d]]]
    BY <1>3 DEF Inv, Typed
  <2>2. [cmd[p] EXCEPT !.stage = "open", !.envelope = envelopes[d]] =
            [op |-> cmd[p].op, stage |-> "open", actor |-> cmd[p].actor,
             device |-> cmd[p].device, state |-> cmd[p].state, envelope |-> envelopes[d]]
    BY <1>1, WithEnvelope, Zenon
  <2>3. cmd' = [q \in Place |-> cmd'[q]] /\ cmd'[p] = c /\ OthersKeep(p)
    BY <1>1, <2>1, <2>2 DEF Inv, Typed, OthersKeep
  <2>4. envelopes[d] \in Envelope
    BY <1>3 DEF Inv, Typed
  <2>5. IsCommand(cmd'[p])
    BY <1>1, <2>3, <2>4 DEF IsCommand, IsStageOf, At
  <2>6. PlaceOK(p)'
    <3>1. PlaceOK(p)
      BY DEF Inv, DirectoryInv
    <3> QED
      BY <1>1, <2>3, <3>1
         DEF DownloadEnvelope, PlaceOK, UntilCreated, InitIsFirst, IsInit, WritesInOrder,
             BackedUp, BackupIsPending, CommandFits, NotHalf, Pending, AtAny, At, Does, WritingStages,
             serverVars, diskVars
  <2>7. /\ ~Sealing(p)' /\ Reading(p)
        /\ \A q \in Place : q # p => /\ Sealing(q)' <=> Sealing(q)
                                     /\ Reading(q)' <=> Reading(q)
                                     /\ At(q, "seal")' <=> At(q, "seal")
                                     /\ At(q, "open")' <=> At(q, "open")
    BY <1>1, <2>3 DEF Sealing, Reading, AtAny, At, OthersKeep
  <2>8. UNCHANGED <<access, envelopes>>
    BY DEF DownloadEnvelope, serverVars
  <2>9. SealedOnJoining'
    BY <2>3, <2>7, <2>8 DEF Inv, EnvelopeInv, SealedOnJoining, OthersKeep
  <2>10. ReadAfterJoining'
    <3>1. \A r \in Place : Reading(r)' =>
            /\ Reading(r)
            /\ cmd'[r].device = cmd[r].device
            /\ cmd'[r].state = cmd[r].state
      BY <2>3, <2>7 DEF OthersKeep
    <3>2. \A r \in Place : Sealing(r)' =>
            /\ Sealing(r)
            /\ cmd'[r].device = cmd[r].device
            /\ cmd'[r].state = cmd[r].state
      BY <2>3, <2>7 DEF OthersKeep
    <3>3. \A r \in Place : (Reading(r)' /\ At(r, "open")') =>
                cmd'[r].envelope.revision <= cmd[r].state.revision
      <4> SUFFICES ASSUME NEW r \in Place, Reading(r)', At(r, "open")'
                   PROVE  cmd'[r].envelope.revision <= cmd[r].state.revision
        OBVIOUS
      <4>1. CASE r = p
        BY <1>3, <2>3, <2>7, <4>1 DEF Inv, EnvelopeInv, ReadAfterJoining
      <4>2. CASE r # p
        BY <2>3, <2>7, <4>2 DEF Inv, EnvelopeInv, ReadAfterJoining, OthersKeep
      <4> QED BY <4>1, <4>2
    <3> QED
      BY <2>8, <3>1, <3>2, <3>3 DEF Inv, EnvelopeInv, ReadAfterJoining
  <2> QED
    BY <2>3, <2>5, <2>6, <2>9, <2>10, QuietStep DEF DownloadEnvelope, EnvelopeInv
<1> QED BY <1>2, <1>3 DEF DownloadEnvelope

\* .rustsync, with the pending identity, becomes the backup.
LEMMA MoveKeepsInv ==
    ASSUME Inv, NEW p \in Place, MoveToBackup(p)
    PROVE  Inv'
<1>1. At(p, "open") /\ IsCommand(cmd[p]) /\ cmd[p].op = "bootstrap"
  BY DEF MoveToBackup, Inv, Typed, At, IsCommand, IsStageOf, WritingStages
<1>2. CASE Done(p) /\ UNCHANGED diskVars
  BY <1>2, QuietEnd DEF MoveToBackup, Inv, Typed
<1>3. CASE /\ backup[p] = None
           /\ backup' = [backup EXCEPT ![p] = meta[p]]
           /\ meta' = [meta EXCEPT ![p] = None]
           /\ Continue(p, "config")
  <2>1. /\ cmd' = [q \in Place |-> cmd'[q]]
        /\ cmd'[p] = [op |-> "bootstrap", stage |-> "config", actor |-> cmd[p].actor,
                      device |-> cmd[p].device, state |-> cmd[p].state,
                      envelope |-> cmd[p].envelope]
        /\ OthersKeep(p)
    BY <1>1, <1>3, ContinueStep DEF At, Inv
  <2>2. IsCommand(cmd'[p])
    BY <1>1, <2>1 DEF IsCommand, IsStageOf, WritingStages
  <2>3. PlaceOK(p) /\ meta[p] = Metadata(cmd[p].device, {})
    BY <1>1 DEF Inv, DirectoryInv, PlaceOK, CommandFits, AtAny, At
  <2>4. /\ OwnDisk(p) /\ UNCHANGED serverVars
        /\ meta'[p] = None /\ backup'[p] = Metadata(cmd[p].device, {})
    BY <1>3, <2>3 DEF MoveToBackup, OwnDisk, Inv, Typed
  <2>5. OwnStep(p)
    BY <2>1, <2>4 DEF MoveToBackup, OwnStep, Inv, Typed
  <2>6. access.revision # 0
    BY <1>1, <2>3 DEF PlaceOK, UntilCreated, At
  <2>7. PlaceOK(p)'
    BY <2>1, <2>4, <2>6
       DEF PlaceOK, UntilCreated, InitIsFirst, IsInit, WritesInOrder, IsWritten, BackedUp,
           BackupIsPending, CommandFits, NotHalf, Pending, AtAny, At, Does, WritingStages, serverVars,
           Metadata
  <2>8. \A d \in Device : Holds(p, d) => Holds(p, d)'
    BY <1>3, <2>3, <2>4, EnrollmentAssumption DEF Holds, HasIdentity, Inv, Typed
  <2>9. EnvelopeInv'
    BY <2>1, <2>4, NoEnvelope DEF Sealing, Reading, AtAny, serverVars
  <2> QED
    BY <2>2, <2>4, <2>5, <2>7, <2>8, <2>9, LocalStep
<1> QED BY <1>2, <1>3 DEF MoveToBackup

-----------------------------------------------------------------------------
(* The files, one after another.                                           *)

\* A command that writes is init, before there is a workspace, or bootstrap, after that.
LEMMA WriterPlace ==
    ASSUME Inv, NEW p \in Place, cmd[p] # None, cmd[p].stage \in WritingStages
    PROVE  /\ IsCommand(cmd[p])
           /\ PlaceOK(p)
           /\ cmd[p].op \in {"init", "bootstrap"}
           /\ cmd[p].device \in Device /\ cmd[p].device # None
           /\ IsWritten(meta[p], cmd[p].stage, cmd[p].device)
           /\ IsInit(p) => /\ access.revision = 0 /\ p = Home
                           /\ cmd[p].device = Founder /\ backup[p] = None
           /\ ~IsInit(p) => cmd[p].op = "bootstrap" /\ access.revision # 0
<1>1. IsCommand(cmd[p]) /\ PlaceOK(p)
  BY DEF Inv, Typed, DirectoryInv
<1>2. cmd[p].op \in {"init", "bootstrap"} /\ cmd[p].device \in Device /\ cmd[p].device # None
  BY <1>1, EnrollmentAssumption DEF IsCommand, IsStageOf, WritingStages
<1>3. IsWritten(meta[p], cmd[p].stage, cmd[p].device)
  BY <1>1 DEF PlaceOK, WritesInOrder, AtAny
<1> QED
  BY <1>1, <1>2, <1>3 DEF PlaceOK, InitIsFirst, UntilCreated, IsInit

\* The stage that follows, for the command it is.
Follows(p, stage) ==
    IF stage = "config" THEN "key"
    ELSE IF stage = "key" THEN "identity"
    ELSE IF stage = "identity" THEN "registry"
    ELSE IF stage = "registry" THEN "access"
    ELSE IF IsInit(p) THEN "truncate" ELSE "remove_backup"

FileStages == {"config", "key", "identity", "registry", "access"}

LEMMA StageAfter ==
    ASSUME NEW p \in Place
    PROVE  /\ DOMAIN NextStage(p) = FileStages
           /\ \A stage \in FileStages : NextStage(p)[stage] = Follows(p, stage)
  BY DEF NextStage, FileStages, Follows

LEMMA NextWritten ==
    ASSUME NEW m, NEW device \in Device, NEW stage \in FileStages, NEW p \in Place,
           IsWritten(m, stage, device)
    PROVE  /\ IsWritten(WithPart(m, stage, device), Follows(p, stage), device)
           /\ WithPart(m, stage, device) \in Directory
<1> USE EnrollmentAssumption
<1>1. CASE stage = "config"
  BY <1>1 DEF FileStages, Follows, IsWritten, WithPart, Metadata, Directory, Parts
<1>2. CASE stage = "key"
  <2>1. m = Metadata(None, {"config"}) /\ m \in Directory
    BY <1>2 DEF IsWritten, Metadata, Directory, Parts
  <2> QED BY <1>2, <2>1 DEF Follows, IsWritten, WithPart, Metadata, Directory, Parts
<1>3. CASE stage = "identity"
  <2>1. m = Metadata(None, {"config", "key"}) /\ m \in Directory
    BY <1>3 DEF IsWritten, Metadata, Directory, Parts
  <2> QED BY <1>3, <2>1 DEF Follows, IsWritten, WithPart, Metadata, Directory, Parts
<1>4. CASE stage = "registry"
  <2>1. m = Metadata(device, {"config", "key"}) /\ m \in Directory
    BY <1>4 DEF IsWritten, Metadata, Directory, Parts
  <2> QED BY <1>4, <2>1 DEF Follows, IsWritten, WithPart, Metadata, Directory, Parts
<1>5. CASE stage = "access"
  <2>1. m = Metadata(device, {"config", "key", "registry"}) /\ m \in Directory
    BY <1>5 DEF IsWritten, Metadata, Directory, Parts
  <2> QED BY <1>5, <2>1 DEF Follows, IsWritten, WithPart, Metadata, Directory, Parts
<1> QED BY <1>1, <1>2, <1>3, <1>4, <1>5 DEF FileStages

\* What is written belongs to the device of the command.
LEMMA WrittenIdentity ==
    ASSUME NEW m, NEW stage \in WritingStages, NEW device, IsWritten(m, stage, device)
    PROVE  m = None \/ m.identity \in {None, device}
  BY DEF IsWritten, Metadata

LEMMA WriteKeepsInv ==
    ASSUME Inv, NEW p \in Place, WriteMetadata(p)
    PROVE  Inv'
<1> DEFINE stage == cmd[p].stage
           d == cmd[p].device
           next == Follows(p, stage)
<1>1. cmd[p] # None /\ stage \in FileStages /\ stage \in WritingStages
  BY StageAfter DEF WriteMetadata, IsWriting, FileStages, WritingStages
<1>2. /\ PlaceOK(p) /\ IsCommand(cmd[p]) /\ d \in Device /\ d # None
      /\ cmd[p].op \in {"init", "bootstrap"}
      /\ IsWritten(meta[p], stage, d)
      /\ IsInit(p) => access.revision = 0 /\ p = Home /\ d = Founder /\ backup[p] = None
      /\ ~IsInit(p) => cmd[p].op = "bootstrap" /\ access.revision # 0
  BY <1>1, WriterPlace
<1>3. Continue(p, next)
  BY <1>1, StageAfter DEF WriteMetadata
<1>4. /\ cmd' = [q \in Place |-> cmd'[q]]
      /\ cmd'[p] = [op |-> cmd[p].op, stage |-> next, actor |-> cmd[p].actor,
                    device |-> d, state |-> cmd[p].state, envelope |-> cmd[p].envelope]
      /\ OthersKeep(p)
  BY <1>1, <1>3, ContinueStep DEF Inv
<1>5. /\ next \in {"key", "identity", "registry", "access", "truncate", "remove_backup"}
      /\ next = "remove_backup" => ~IsInit(p)
      /\ next = "truncate" => IsInit(p)
  BY <1>1 DEF Follows, FileStages
<1>6. IsCommand(cmd'[p])
  BY <1>1, <1>2, <1>4, <1>5 DEF IsCommand, IsStageOf, WritingStages, IsInit
<1>7. /\ IsWritten(WithPart(meta[p], stage, d), next, d)
      /\ WithPart(meta[p], stage, d) \in Directory
  BY <1>1, <1>2, NextWritten
<1>8. /\ OwnDisk(p) /\ backup' = backup /\ UNCHANGED serverVars
      /\ IsWritten(meta'[p], next, d)
  BY <1>7 DEF WriteMetadata, OwnDisk, Inv, Typed
<1>9. OwnStep(p)
  BY <1>4, <1>8 DEF WriteMetadata, OwnStep, Inv, Typed
<1>10. ~IsInit(p) => backup[p] = Metadata(d, {}) /\ backup[p] # None
  <2>1. ~IsInit(p) => backup[p] = Metadata(d, {})
    BY <1>1, <1>2 DEF PlaceOK, BackedUp, Does, AtAny, FileStages
  <2>2. Metadata(d, {}) # None
    BY <1>2, EnrollmentAssumption DEF Metadata, Directory
  <2> QED BY <2>1, <2>2
<1>11. PlaceOK(p)'
  <2>1. IsInit(p)' => IsInit(p)
    BY <1>4, <1>1 DEF IsInit
  <2>2. UntilCreated(p)'
    BY <1>2, <1>4, <1>8 DEF UntilCreated, IsInit, serverVars
  <2>3. InitIsFirst(p)'
    BY <1>2, <1>4, <1>8, <2>1 DEF InitIsFirst, serverVars
  <2>4. WritesInOrder(p)'
    BY <1>4, <1>8 DEF WritesInOrder, AtAny
  <2>5. BackedUp(p)' /\ CommandFits(p)'
    BY <1>1, <1>4, <1>5, <1>8, <1>10 DEF BackedUp, CommandFits, Does, AtAny, At, IsInit
  <2>6. BackupIsPending(p)'
    BY <1>2, <1>8 DEF PlaceOK, BackupIsPending
  <2>7. NotHalf(p)'
    BY <1>2, <1>8, <1>10 DEF NotHalf, Pending, Metadata, serverVars
  <2> QED BY <2>2, <2>3, <2>4, <2>5, <2>6, <2>7 DEF PlaceOK
<1>12. \A e \in Device : (e # Founder /\ Holds(p, e)) => Holds(p, e)'
  <2>1. meta[p] = None \/ meta[p].identity \in {None, d}
    BY <1>1, <1>2, WrittenIdentity
  <2> QED
    BY <1>2, <1>8, <1>10, <2>1, EnrollmentAssumption DEF Holds, HasIdentity, Metadata
<1>13. EnvelopeInv'
  BY <1>4, <1>5, <1>8, NoEnvelope DEF Sealing, Reading, AtAny, serverVars
<1> QED
  BY <1>6, <1>8, <1>9, <1>11, <1>12, <1>13, LocalStep

\* A file cannot be written: the backup still has the identity.
LEMMA WriteFailsKeepsInv ==
    ASSUME Inv, NEW p \in Place, WriteFails(p)
    PROVE  Inv'
<1> DEFINE d == cmd[p].device
<1>1. cmd[p] # None /\ cmd[p].stage \in FileStages /\ cmd[p].stage \in WritingStages
  BY StageAfter DEF WriteFails, IsWriting, FileStages, WritingStages
<1>2. /\ PlaceOK(p) /\ IsCommand(cmd[p]) /\ d \in Device /\ d # None
      /\ IsWritten(meta[p], cmd[p].stage, d)
      /\ cmd[p].op = "bootstrap" /\ access.revision # 0
  BY <1>1, WriterPlace DEF WriteFails
<1>3. /\ cmd' = [q \in Place |-> cmd'[q]]
      /\ cmd'[p] = [op |-> "bootstrap", stage |-> "restore", actor |-> cmd[p].actor,
                    device |-> d, state |-> cmd[p].state, envelope |-> cmd[p].envelope]
      /\ OthersKeep(p)
  BY <1>1, <1>2, ContinueStep DEF WriteFails, Inv
<1>4. IsCommand(cmd'[p])
  BY <1>2, <1>3 DEF IsCommand, IsStageOf
<1>5. /\ OwnDisk(p) /\ backup' = backup /\ UNCHANGED serverVars
      /\ meta'[p] # None => meta[p] # None /\ meta'[p].identity \in {meta[p].identity, None}
  <2>1. PICK m \in {None, meta[p]} : meta' = [meta EXCEPT ![p] = m]
    BY DEF WriteFails
  <2>2. /\ m \in {None} \cup Directory
        /\ m # None => meta[p] # None /\ m.identity \in {meta[p].identity, None}
    BY <2>1 DEF Inv, Typed
  <2> QED BY <2>1, <2>2 DEF WriteFails, OwnDisk, Inv, Typed
<1>6. OwnStep(p)
  BY <1>3, <1>5, FaultStep DEF WriteFails, OwnStep, Inv, Typed
<1>7. /\ backup[p] = Metadata(d, {}) /\ backup[p] # None
      /\ meta[p] = None \/ meta[p].identity \in {None, d}
  <2>1. backup[p] = Metadata(d, {})
    BY <1>1, <1>2 DEF PlaceOK, BackedUp, Does, AtAny, FileStages
  <2>2. Metadata(d, {}) # None
    BY <1>2, EnrollmentAssumption DEF Metadata, Directory
  <2>3. meta[p] = None \/ meta[p].identity \in {None, d}
    BY <1>1, <1>2, WrittenIdentity
  <2> QED BY <2>1, <2>2, <2>3
<1>8. PlaceOK(p)'
  BY <1>2, <1>3, <1>5, <1>7
     DEF Metadata, PlaceOK, UntilCreated, InitIsFirst, IsInit, WritesInOrder, BackedUp, BackupIsPending,
         CommandFits, NotHalf, Pending, AtAny, At, Does, WritingStages, serverVars
<1>9. \A e \in Device : Holds(p, e) => Holds(p, e)'
  BY <1>5, <1>7, EnrollmentAssumption DEF Holds, HasIdentity, Metadata
<1>10. EnvelopeInv'
  BY <1>3, <1>5, NoEnvelope DEF Sealing, Reading, AtAny, serverVars
<1> QED
  BY <1>4, <1>5, <1>6, <1>8, <1>9, <1>10, LocalStep

\* Either way the pending identity is in one of the two.
LEMMA RestoreKeepsInv ==
    ASSUME Inv, NEW p \in Place, Restore(p) \/ RestoreFails(p)
    PROVE  Inv'
<1> DEFINE d == cmd[p].device
<1>1. At(p, "restore") /\ IsCommand(cmd[p]) /\ PlaceOK(p)
  BY DEF Restore, RestoreFails, Inv, Typed, DirectoryInv, At
<1>2. cmd[p].op = "bootstrap" /\ d \in Device /\ access.revision # 0
  BY <1>1 DEF IsCommand, IsStageOf, At, WritingStages, PlaceOK, UntilCreated
<1>3. /\ backup[p] = Metadata(d, {}) /\ backup[p] # None
      /\ meta[p] = None \/ meta[p].identity \in {None, d}
  <2>1. /\ backup[p] = Metadata(d, {})
        /\ meta[p] = None \/ meta[p].identity \in {None, d}
    BY <1>1, <1>2 DEF PlaceOK, BackedUp, Does, AtAny, At
  <2>2. Metadata(d, {}) # None
    BY <1>2, EnrollmentAssumption DEF Metadata, Directory
  <2> QED BY <2>1, <2>2
<1>4. /\ cmd' = [q \in Place |-> cmd'[q]]
      /\ cmd'[p] = None
      /\ OthersKeep(p)
  BY DoneStep DEF Restore, RestoreFails, Inv
<1>5. /\ OwnDisk(p) /\ UNCHANGED serverVars
      /\ \/ meta'[p] = backup[p] /\ backup'[p] = None
         \/ backup'[p] = backup[p]
  <2>1. CASE Restore(p)
    BY <2>1 DEF Restore, OwnDisk, Inv, Typed
  <2>2. CASE RestoreFails(p)
    <3>1. PICK m \in PartlyRemoved(meta[p]) : meta' = [meta EXCEPT ![p] = m]
      BY <2>2 DEF RestoreFails
    <3>2. m \in {None} \cup Directory
      BY <3>1, Removal DEF Inv, Typed
    <3> QED BY <2>2, <3>1, <3>2 DEF RestoreFails, OwnDisk, Inv, Typed
  <2> QED BY <2>1, <2>2
<1>6. OwnStep(p)
  BY <1>4, <1>5, FaultStep DEF Restore, RestoreFails, OwnStep, Inv, Typed
<1>7. NotHalf(p)'
  <2>1. d # None
    BY <1>2, EnrollmentAssumption
  <2> QED BY <1>3, <1>5, <2>1 DEF NotHalf, Pending, Metadata
<1>8. \A e \in Device : Holds(p, e) => Holds(p, e)'
  BY <1>3, <1>5, EnrollmentAssumption DEF Holds, HasIdentity, Metadata
<1> QED
  BY <1>2, <1>4, <1>5, <1>6, <1>7, <1>8, EndStep

\* The backup goes, or a part of it, when the same identity is in .rustsync, with
\* everything else; and the command goes on either way.
LEMMA RemoveKeepsInv ==
    ASSUME Inv, NEW p \in Place, RemoveBackup(p) \/ RemoveBackupFails(p)
    PROVE  Inv'
<1> DEFINE d == cmd[p].device
<1>1. cmd[p] # None /\ cmd[p].stage = "remove_backup" /\ cmd[p].stage \in WritingStages
  BY DEF RemoveBackup, RemoveBackupFails, At, WritingStages
<1>2. PlaceOK(p) /\ IsCommand(cmd[p]) /\ d \in Device /\ cmd[p].op = "bootstrap"
  BY <1>1, WriterPlace DEF IsCommand, IsStageOf, WritingStages
<1>3. access.revision # 0 /\ d # None
  BY <1>1, <1>2, WriterPlace DEF IsInit
<1>4. /\ meta[p] = Metadata(d, Parts)
      /\ meta[p] # None /\ meta[p].identity = d /\ meta[p].parts = Parts
  <2>1. meta[p] = Metadata(d, Parts)
    BY <1>1, <1>2 DEF PlaceOK, WritesInOrder, IsWritten, AtAny
  <2> QED BY <1>2, <2>1, EnrollmentAssumption DEF Metadata, Directory
<1>5. backup[p] = Metadata(d, {})
  BY <1>1, <1>2 DEF PlaceOK, BackedUp, Does, AtAny
<1>6. PICK m \in PartlyRemoved(backup[p]) : backup' = [backup EXCEPT ![p] = m]
  BY <1>5 DEF RemoveBackup, RemoveBackupFails, PartlyRemoved
<1>7. /\ m \in {None} \cup Directory
      /\ m # None => m.parts = {}
  <2>1. backup[p] \in {None} \cup Directory /\ backup[p].parts = {}
    BY <1>5 DEF Inv, Typed, Metadata
  <2> QED BY <1>6, <2>1, Removal
<1>8. /\ cmd' = [q \in Place |-> cmd'[q]]
      /\ cmd'[p] = [op |-> "bootstrap", stage |-> "truncate", actor |-> cmd[p].actor,
                    device |-> d, state |-> cmd[p].state, envelope |-> cmd[p].envelope]
      /\ OthersKeep(p)
  BY <1>1, <1>2, ContinueStep DEF RemoveBackup, RemoveBackupFails, Inv
<1>9. IsCommand(cmd'[p])
  BY <1>2, <1>8 DEF IsCommand, IsStageOf, WritingStages
<1>10. OwnDisk(p) /\ backup'[p] = m /\ meta' = meta /\ UNCHANGED serverVars
  BY <1>6, <1>7 DEF RemoveBackup, RemoveBackupFails, OwnDisk, Inv, Typed
<1>11. OwnStep(p)
  BY <1>8, <1>10, FaultStep DEF RemoveBackup, RemoveBackupFails, OwnStep, Inv, Typed
<1>12. PlaceOK(p)'
  <2>1. NotHalf(p)'
    BY <1>3, <1>4, <1>10 DEF NotHalf, Parts
  <2> QED
    BY <1>3, <1>4, <1>7, <1>8, <1>10, <2>1
       DEF PlaceOK, UntilCreated, InitIsFirst, IsInit, WritesInOrder, IsWritten, BackedUp,
           BackupIsPending, CommandFits, AtAny, At, Does, serverVars
<1>13. \A e \in Device : Holds(p, e) => Holds(p, e)'
  BY <1>4, <1>5, <1>10 DEF Holds, HasIdentity, Metadata
<1>14. EnvelopeInv'
  BY <1>8, <1>10, NoEnvelope DEF Sealing, Reading, AtAny, serverVars
<1> QED
  BY <1>9, <1>10, <1>11, <1>12, <1>13, <1>14, LocalStep

\* config is written over: the rest of the workspace is there meanwhile.
LEMMA TruncateKeepsInv ==
    ASSUME Inv, NEW p \in Place, TruncateConfig(p)
    PROVE  Inv'
<1> DEFINE d == cmd[p].device
<1>1. cmd[p] # None /\ cmd[p].stage = "truncate" /\ cmd[p].stage \in WritingStages
  BY DEF TruncateConfig, At, WritingStages
<1>2. /\ PlaceOK(p) /\ IsCommand(cmd[p]) /\ d \in Device /\ d # None
      /\ cmd[p].op \in {"init", "bootstrap"}
      /\ IsInit(p) => access.revision = 0 /\ p = Home /\ d = Founder /\ backup[p] = None
      /\ ~IsInit(p) => access.revision # 0
  BY <1>1, WriterPlace
<1>3. meta[p] = Metadata(d, Parts)
  BY <1>1, <1>2 DEF PlaceOK, WritesInOrder, IsWritten, AtAny
<1>4. /\ cmd' = [q \in Place |-> cmd'[q]]
      /\ cmd'[p] = [op |-> cmd[p].op, stage |-> "rewrite", actor |-> cmd[p].actor,
                    device |-> d, state |-> cmd[p].state, envelope |-> cmd[p].envelope]
      /\ OthersKeep(p)
  BY <1>1, ContinueStep DEF TruncateConfig, Inv
<1>5. IsCommand(cmd'[p])
  BY <1>2, <1>4 DEF IsCommand, IsStageOf, WritingStages
<1>6. /\ OwnDisk(p) /\ backup' = backup /\ UNCHANGED serverVars
      /\ meta'[p] = Metadata(d, Parts \ {"config"})
  <2>1. meta' = [meta EXCEPT ![p] = [meta[p] EXCEPT !.parts = meta[p].parts \ {"config"}]]
    BY DEF TruncateConfig, Inv, Typed
  <2>2. [meta[p] EXCEPT !.parts = meta[p].parts \ {"config"}] = Metadata(d, Parts \ {"config"})
    BY <1>3 DEF Metadata
  <2>3. Metadata(d, Parts \ {"config"}) \in Directory
    BY <1>2 DEF Metadata, Directory
  <2> QED BY <2>1, <2>2, <2>3 DEF TruncateConfig, OwnDisk, Inv, Typed
<1>7. OwnStep(p)
  BY <1>4, <1>6 DEF TruncateConfig, OwnStep, Inv, Typed
<1>8. PlaceOK(p)'
  <2>1. NotHalf(p)'
    BY <1>2, <1>6 DEF NotHalf, Metadata, Parts
  <2>2. UntilCreated(p)' /\ InitIsFirst(p)' /\ BackupIsPending(p)'
    BY <1>1, <1>2, <1>4, <1>6
       DEF PlaceOK, UntilCreated, InitIsFirst, IsInit, BackupIsPending, serverVars
  <2> QED
    BY <1>4, <1>6, <2>1, <2>2
       DEF PlaceOK, WritesInOrder, IsWritten, BackedUp, CommandFits, AtAny, At, Does
<1>9. \A e \in Device : Holds(p, e) => Holds(p, e)'
  <2>1. Metadata(d, Parts \ {"config"}) # None
    BY <1>2, EnrollmentAssumption DEF Metadata, Directory
  <2> QED BY <1>3, <1>6, <2>1 DEF Holds, HasIdentity, Metadata
<1>10. EnvelopeInv'
  BY <1>4, <1>6, NoEnvelope DEF Sealing, Reading, AtAny, serverVars
<1> QED
  BY <1>5, <1>6, <1>7, <1>8, <1>9, <1>10, LocalStep

LEMMA RewriteKeepsInv ==
    ASSUME Inv, NEW p \in Place, RewriteConfig(p)
    PROVE  Inv'
<1> DEFINE d == cmd[p].device
<1>1. cmd[p] # None /\ cmd[p].stage = "rewrite" /\ cmd[p].stage \in WritingStages
  BY DEF RewriteConfig, At, WritingStages
<1>2. /\ PlaceOK(p) /\ IsCommand(cmd[p]) /\ d \in Device /\ d # None
      /\ IsInit(p) => access.revision = 0 /\ p = Home /\ d = Founder /\ backup[p] = None
      /\ ~IsInit(p) => access.revision # 0
  BY <1>1, WriterPlace
<1>3. meta[p] = Metadata(d, Parts \ {"config"})
  BY <1>1, <1>2 DEF PlaceOK, WritesInOrder, IsWritten, AtAny
<1>4. /\ OwnDisk(p) /\ backup' = backup /\ UNCHANGED <<serverVars, changes, faults>>
      /\ meta'[p] = Metadata(d, Parts)
  <2>1. meta' = [meta EXCEPT ![p] = [meta[p] EXCEPT !.parts = meta[p].parts \cup {"config"}]]
    BY DEF RewriteConfig, Inv, Typed
  <2>2. [meta[p] EXCEPT !.parts = meta[p].parts \cup {"config"}] = Metadata(d, Parts)
    BY <1>3 DEF Metadata, Parts
  <2>3. Metadata(d, Parts) \in Directory
    BY <1>2 DEF Metadata, Directory
  <2> QED BY <2>1, <2>2, <2>3 DEF RewriteConfig, OwnDisk, Inv, Typed
<1>5. NotHalf(p)'
  BY <1>2, <1>4 DEF NotHalf, Metadata, Parts
<1>6. \A e \in Device : Holds(p, e) => Holds(p, e)'
  <2>1. Metadata(d, Parts) # None
    BY <1>2, EnrollmentAssumption DEF Metadata, Directory
  <2> QED BY <1>3, <1>4, <2>1 DEF Holds, HasIdentity, Metadata
<1>7. CASE ~IsInit(p)
  <2>1. Done(p)
    BY <1>7 DEF RewriteConfig
  <2>2. OwnStep(p) /\ cmd'[p] = None
    BY <1>4, <2>1, DoneStep DEF OwnStep, Inv, Typed
  <2> QED BY <1>2, <1>4, <1>5, <1>6, <1>7, <2>2, EndStep
<1>8. CASE IsInit(p)
  <2>1. /\ cmd' = [q \in Place |-> cmd'[q]]
        /\ cmd'[p] = [op |-> "init", stage |-> "create", actor |-> cmd[p].actor,
                      device |-> d, state |-> cmd[p].state, envelope |-> cmd[p].envelope]
        /\ OthersKeep(p)
    BY <1>1, <1>8, ContinueStep DEF RewriteConfig, Inv, IsInit
  <2>2. IsCommand(cmd'[p])
    BY <1>2, <2>1 DEF IsCommand, IsStageOf, WritingStages
  <2>3. OwnStep(p)
    BY <1>4, <2>1 DEF OwnStep, Inv, Typed
  <2>4. PlaceOK(p)'
    BY <1>2, <1>4, <1>5, <1>8, <2>1
       DEF PlaceOK, UntilCreated, InitIsFirst, IsInit, WritesInOrder, IsWritten, BackedUp,
           BackupIsPending, CommandFits, AtAny, At, Does, serverVars
  <2>5. EnvelopeInv'
    BY <1>4, <2>1, NoEnvelope DEF Sealing, Reading, AtAny, serverVars
  <2> QED
    BY <1>4, <1>6, <2>2, <2>3, <2>4, <2>5, LocalStep
<1> QED BY <1>7, <1>8

-----------------------------------------------------------------------------
(* The theorems.                                                           *)

LEMMA InitInv == Init => Inv
<1> SUFFICES ASSUME Init PROVE Inv
  OBVIOUS
<1>1. /\ IsAccess(access) /\ access.revision = 0 /\ DOMAIN access.members = {}
      /\ pending = {} /\ DOMAIN envelopes = {}
  BY DEF Init, EmptyAccess, IsAccess
<1>2. \A p \in Place : meta[p] = None /\ backup[p] = None /\ cmd[p] = None
  BY DEF Init
<1>3. Typed
  BY <1>1, <1>2, EnrollmentAssumption DEF Init, Typed
<1>4. DirectoryInv
  BY <1>1, <1>2
     DEF DirectoryInv, NobodyBefore, IdentitiesHeld, PlaceOK, UntilCreated, InitIsFirst, IsInit,
         WritesInOrder, BackedUp, BackupIsPending, CommandFits, NotHalf, Pending, AtAny, At, Does
<1>5. EnvelopeInv
  BY <1>1, <1>2 DEF EnvelopeInv, SealedOnJoining, ReadAfterJoining, Sealing, Reading, AtAny
<1> QED BY <1>3, <1>4, <1>5 DEF Inv

LEMMA NextInv == Inv /\ [Next]_vars => Inv'
<1> SUFFICES ASSUME Inv, [Next]_vars PROVE Inv'
  OBVIOUS
<1>1. CASE UNCHANGED vars
  BY <1>1
     DEF vars, serverVars, diskVars, Inv, Typed, DirectoryInv, NobodyBefore, IdentitiesHeld,
         Holds, PlaceOK, UntilCreated, InitIsFirst, IsInit, WritesInOrder, BackedUp,
         BackupIsPending, CommandFits, NotHalf, Pending, AtAny, At, Does, EnvelopeInv, SealedOnJoining,
         ReadAfterJoining, Sealing, Reading
<1>2. ASSUME NEW p \in Place,
             \/ InitWorkspace(p) \/ CreateWorkspace(p) \/ CreateTimesOut(p)
             \/ DeviceRequest(p) \/ SubmitRequest(p)
      PROVE  Inv'
  BY <1>2, InitWorkspaceKeepsInv, CreateKeepsInv, RequestKeepsInv, SubmitKeepsInv
<1>3. ASSUME NEW p \in Place,
             \/ ListRequests(p) \/ FetchState(p) \/ PostApproval(p) \/ SealEnvelope(p)
             \/ PutKeyEnvelope(p) \/ InsertEnvelope(p) \/ ChangeMembership(p)
      PROVE  Inv'
  BY <1>3, ListKeepsInv, FetchKeepsInv, ApprovalKeepsInv, SealKeepsInv, PutKeepsInv,
     InsertKeepsInv, MembershipKeepsInv
<1>4. ASSUME NEW p \in Place,
             \/ Bootstrap(p) \/ DownloadEnvelope(p) \/ MoveToBackup(p) \/ WriteMetadata(p)
             \/ WriteFails(p) \/ Restore(p) \/ RestoreFails(p) \/ RemoveBackup(p)
             \/ RemoveBackupFails(p) \/ TruncateConfig(p) \/ RewriteConfig(p) \/ Crash(p)
      PROVE  Inv'
  BY <1>4, BootstrapKeepsInv, DownloadKeepsInv, MoveKeepsInv, WriteKeepsInv,
     WriteFailsKeepsInv, RestoreKeepsInv, RemoveKeepsInv, TruncateKeepsInv, RewriteKeepsInv,
     CrashKeepsInv
<1> QED
  BY <1>1, <1>2, <1>3, <1>4 DEF Next

LEMMA Invariance == Spec => []Inv
  BY InitInv, NextInv, PTL DEF Spec

\* Types: of the access state, the requests, the envelopes, the directories, the commands
\* and the counters, through every command of device.rs, init.rs and join.rs.
THEOREM TypeCorrect == Spec => []TypeOK
<1>1. Inv => TypeOK
  <2> SUFFICES ASSUME Inv PROVE TypeOK
    OBVIOUS
  <2>1. /\ access.revision \in Nat /\ DOMAIN access.members \subseteq Device
        /\ \A d \in DOMAIN envelopes : envelopes[d] \in [sender : Device, revision : Nat]
    BY DEF Inv, Typed, IsAccess, Envelope
  <2>2. \A p \in Place : IsMetadata(meta[p]) /\ IsMetadata(backup[p])
    BY DEF Inv, Typed, IsMetadata
  <2>3. \A p \in Place : cmd[p] # None => cmd[p].stage \in Stages /\ cmd[p].device \in Device
    BY DEF Inv, Typed, IsCommand, IsStageOf, WritingStages, Stages
  <2> QED BY <2>1, <2>2, <2>3 DEF Inv, Typed, TypeOK
<1> QED BY <1>1, Invariance, PTL

\* The private identity of every device that asked to join, or joined, is in .rustsync or
\* in the backup beside it, whatever command of whatever directory stops wherever it does
\* (run_device_bootstrap, bootstrap_with_key, restore_pending_identity).
THEOREM IdentityIsKept == Spec => []IdentityKept
<1>1. Inv => IdentityKept
  BY DEF Inv, DirectoryInv, IdentitiesHeld, Holds, IdentityKept
<1> QED BY <1>1, Invariance, PTL

\* The server is asked for a workspace when all of it is on the disk; and where a device
\* joins, a .rustsync with files in it is whole, up to the config.toml that save_config
\* may be writing, or the backup beside it has the identity: also when the backup cannot
\* be removed and bootstrap goes on with a warning.
THEOREM WorkspaceIsWhole == Spec => []NoHalfWorkspace
<1>1. Inv => NoHalfWorkspace
  <2> SUFFICES ASSUME Inv, NEW p \in Place
               PROVE  /\ At(p, "create") => meta[p].parts = Parts /\ meta[p].identity # None
                      /\ NotHalf(p)
    BY DEF NoHalfWorkspace, NotHalf
  <2>1. ASSUME At(p, "create") PROVE meta[p].parts = Parts /\ meta[p].identity # None
    <3>1. cmd[p] # None /\ cmd[p].stage = "create" /\ cmd[p].stage \in WritingStages
      BY <2>1 DEF At, WritingStages
    <3>2. IsWritten(meta[p], "create", cmd[p].device) /\ cmd[p].device # None
      BY <3>1, WriterPlace
    <3> QED BY <3>2 DEF IsWritten, Metadata
  <2> QED BY <2>1 DEF Inv, DirectoryInv, PlaceOK
<1> QED BY <1>1, Invariance, PTL

\* The envelope that bootstrap opens is not newer than the access state it read first,
\* so AccessStateTooOld is never its answer.
THEOREM EnvelopeCanBeOpened == Spec => []EnvelopeNotTooNew
<1>1. Inv => EnvelopeNotTooNew
  <2> SUFFICES ASSUME Inv, NEW p \in Place, At(p, "open")
               PROVE  ~is_too_new(cmd[p].envelope, cmd[p].state)
    BY DEF EnvelopeNotTooNew
  <2>1. cmd[p].envelope.revision <= cmd[p].state.revision
    BY DEF Inv, EnvelopeInv, ReadAfterJoining, Reading, AtAny, At
  <2>2. cmd[p].envelope.revision \in Nat /\ cmd[p].state.revision \in Nat
    BY DEF Inv, Typed, IsCommand, IsAccess, Envelope, At
  <2> QED BY <2>1, <2>2 DEF is_too_new
<1> QED BY <1>1, Invariance, PTL
=============================================================================
