---------------------------- MODULE AccessServer ----------------------------
(***************************************************************************)
(* The server's handlers of join requests and access events                *)
(* (rustsync-server/src/api/access.rs, workspaces.rs), as many at a time   *)
(* as there are members of Handler.                                        *)
(*                                                                         *)
(* A handler checks the access state when it authenticates a request and   *)
(* uses the answer after other requests were served; it may stop at every  *)
(* await, because its connection closes or the server crashes.  Its locks  *)
(* are then released, but a statement that it had sent to the database may *)
(* still be executed: the handler's slot is "stray" until it was.  Clients *)
(* keep what they signed and post it again when they miss a response.      *)
(***************************************************************************)
EXTENDS AccessState

CONSTANTS
    Handler,     \* requests in progress
    Founding,    \* the access states that devices post to create the workspace
    Requester,   \* the device that made a request id up: ids are random, nobody shares one
    MaxPending,  \* MAX_PENDING_JOIN_REQUESTS_PER_WORKSPACE
    MaxEvents,   \* bound: signed events in a behaviour
    NoTask       \* an idle handler, and a free lock

\* A well-formed access state.
IsAccess(s) ==
    /\ s = [revision |-> s.revision, members |-> s.members, grants |-> s.grants]
    /\ s.revision \in Nat
    /\ DOMAIN s.members \subseteq Device
    /\ s.members \in [DOMAIN s.members -> [role : Role, status : {"Active", "Removed"}]]
    /\ DOMAIN s.grants \subseteq Key \X Device
    /\ s.grants \in [DOMAIN s.grants -> BOOLEAN]

ASSUME ServerAssumption ==
    /\ NoTask \notin Handler
    /\ \A s \in Founding : IsAccess(s)
    /\ Requester \in [RequestId -> Device]
    /\ MaxPending \in Nat
    /\ MaxEvents \in Nat

VARIABLES
    access,      \* database: the access state
    pending,     \* database: the join requests, from id to device
    signed,      \* clients: the access events they signed
    task,        \* what a handler is doing
    joinLock,    \* join_request_lock: its holder
    accessLock,  \* access_event_lock: its holder
    \* History variables:
    asked,       \* the devices that submitted a join request
    founding,    \* the access state the workspace was created with
    strayed,     \* the join requests that a stray statement inserted
    stray        \* a stray statement saved an access state: "never", "before" the
                 \* latest read under access_event_lock, or "since"

vars == <<access, pending, signed, task, joinLock, accessLock, asked, founding, strayed, stray>>

Done(h) == task' = [task EXCEPT ![h] = NoTask]

At(h, op, stage) == task[h] # NoTask /\ task[h].op = op /\ task[h].stage = stage

Continue(h, stage) == task' = [task EXCEPT ![h].stage = stage]

-----------------------------------------------------------------------------
(* create_workspace and submit_join_request.                               *)

\* verify_bootstrap_signature and create_access_state: any valid state that makes its
\* sender an owner is inserted if there is none.  This handler holds no lock, so that
\* whether it is still there when its INSERT is executed makes no difference.
CreateWorkspace ==
    /\ access.revision = 0
    /\ \E s \in Founding :
        /\ ActiveOwners(s) # {}
        /\ validate(s)
        /\ access' = s
        /\ founding' = s
    /\ UNCHANGED <<pending, signed, task, joinLock, accessLock, asked, strayed, stray>>

\* Mutant of lock_join_requests: nobody waits.
NoWait(h) == UNCHANGED joinLock

lock_join_requests(h) == joinLock = NoTask /\ joinLock' = h

unlock(h) == joinLock' = IF joinLock = h THEN NoTask ELSE joinLock

\* Lock, and refuse a device that is a member.
SubmitJoinRequest(h) ==
    /\ task[h] = NoTask
    /\ lock_join_requests(h)
    /\ access.revision # 0
    /\ \E id \in RequestId :
        /\ ~active_membership(access, Requester[id])
        /\ task' = [task EXCEPT ![h] = [op |-> "submit", stage |-> "find", id |-> id,
                                       device |-> Requester[id]]]
        /\ asked' = asked \cup {Requester[id]}
    /\ UNCHANGED <<access, pending, signed, accessLock, founding, strayed, stray>>

\* A request that is posted again skips the limits.
FindRequest(h) ==
    /\ At(h, "submit", "find")
    /\ Continue(h, IF task[h].id \in DOMAIN pending THEN "insert" ELSE "list")
    /\ UNCHANGED <<access, pending, signed, joinLock, accessLock, asked, founding, strayed, stray>>

\* Mutant of at_limit: one request too many.
OverLimit == Cardinality(DOMAIN pending) > MaxPending

at_limit == Cardinality(DOMAIN pending) >= MaxPending

\* One pending request per device, and so many per workspace.
ListRequests(h) ==
    /\ At(h, "submit", "list")
    /\ IF at_limit \/ \E id \in DOMAIN pending : pending[id] = task[h].device
       THEN Done(h) /\ unlock(h)
       ELSE Continue(h, "insert") /\ UNCHANGED joinLock
    /\ UNCHANGED <<access, pending, signed, accessLock, asked, founding, strayed, stray>>

\* INSERT ... ON CONFLICT DO NOTHING
insert_request(id, d) ==
    pending' = [i \in DOMAIN pending \cup {id} |->
                    IF i \in DOMAIN pending THEN pending[i] ELSE d]

InsertRequest(h) ==
    /\ At(h, "submit", "insert")
    /\ insert_request(task[h].id, task[h].device)
    /\ Done(h)
    /\ unlock(h)
    /\ UNCHANGED <<access, signed, accessLock, asked, founding, strayed, stray>>

-----------------------------------------------------------------------------
(* approve_join_request and apply_access_event.                            *)

\* What d signs for the access state it fetched.  seen is not part of the event: it
\* records that state.
SignedAccessEvent(d, e) ==
    [actor |-> d, event |-> e, expected |-> access.revision, seen |-> access]

\* A member fetches the access state and signs an event.
SignEvent ==
    /\ Cardinality(signed) < MaxEvents
    /\ \E d \in Device, e \in AccessEvent :
        /\ active_membership(access, d)
        /\ signed' = signed \cup {SignedAccessEvent(d, e)}
    /\ UNCHANGED <<access, pending, task, joinLock, accessLock, asked, founding, strayed, stray>>

\* A request is let through, by the state the server has; its nonce and time are good.
authenticate(d, permission) == require_permission(access, d, permission)

\* The task of a signed event, with the access state to save.
Handling(s, state, stage) == [op |-> "event", signed |-> s, state |-> state, stage |-> stage]

\* The sender has the permission now.  Events may be posted repeatedly.
PostEvent(h) ==
    /\ task[h] = NoTask
    /\ \E s \in signed :
        /\ authenticate(s.actor, required_permission(s.event.kind))
        /\ task' = [task EXCEPT ![h] =
                Handling(s, EmptyAccess,
                         IF s.event.kind = "DeviceJoined" THEN "request" ELSE "apply")]
    /\ UNCHANGED <<access, pending, signed, joinLock, accessLock, asked, founding, strayed, stray>>

\* Mutant of verify_join_request: the request is not looked up.
TrustEvent(id, d) == TRUE

verify_join_request(id, d) == id \in DOMAIN pending /\ pending[id] = d

\* A join needs the pending request of the device that joins.
FindPending(h) ==
    /\ At(h, "event", "request")
    /\ IF verify_join_request(task[h].signed.event.id, task[h].signed.event.device)
       THEN Continue(h, "apply") ELSE Done(h)
    /\ UNCHANGED <<access, pending, signed, joinLock, accessLock, asked, founding, strayed, stray>>

\* Mutant of lock_access_events: nobody waits.
NotAwaited == TRUE

lock_access_events == accessLock = NoTask

\* verify_and_apply_access_event: under access_event_lock the state is read again and
\* changed; the changed one is then saved, and the lock kept until it is.
ApplyEvent(h) ==
    LET s == task[h].signed IN
    /\ At(h, "event", "apply")
    /\ lock_access_events
    /\ stray' = IF stray = "since" THEN "before" ELSE stray
    /\ IF active_membership(access, s.actor) /\ accepts_event(access, s)
       THEN /\ task' = [task EXCEPT ![h] = Handling(s, Changed(access, s.event), "save")]
            /\ accessLock' = h
       ELSE Done(h) /\ UNCHANGED accessLock
    /\ UNCHANGED <<access, pending, signed, joinLock, asked, founding, strayed>>

unlock_events(h) == accessLock' = IF accessLock = h THEN NoTask ELSE accessLock

\* save_access_state: INSERT ... ON CONFLICT DO UPDATE
SaveState(h) ==
    /\ At(h, "event", "save")
    /\ access' = task[h].state
    /\ unlock_events(h)
    /\ IF task[h].signed.event.kind = "DeviceJoined"
       THEN task' = [task EXCEPT ![h] = Handling(task[h].signed, EmptyAccess, "remove")]
       ELSE Done(h)
    /\ UNCHANGED <<pending, signed, joinLock, asked, founding, strayed, stray>>

\* remove_join_request, under no lock
RemoveRequest(h) ==
    /\ At(h, "event", "remove")
    /\ pending' = [i \in DOMAIN pending \ {task[h].signed.event.id} |-> pending[i]]
    /\ Done(h)
    /\ UNCHANGED <<access, signed, joinLock, accessLock, asked, founding, strayed, stray>>

-----------------------------------------------------------------------------
(* A connection closes, or the server stops.                               *)

\* Nothing more of the handler is done.
Abort(h) ==
    /\ task[h] # NoTask
    /\ Done(h)
    /\ unlock(h)
    /\ unlock_events(h)
    /\ UNCHANGED <<access, pending, signed, asked, founding, strayed, stray>>

\* The handler is gone with its locks, but the statement it was waiting for is with the
\* connection's worker.
Abandon(h) ==
    /\ At(h, "submit", "insert") \/ At(h, "event", "save")
    /\ Continue(h, "stray")
    /\ unlock(h)
    /\ unlock_events(h)
    /\ UNCHANGED <<access, pending, signed, asked, founding, strayed, stray>>

\* The worker executes it.
StrayInsert(h) ==
    /\ At(h, "submit", "stray")
    /\ insert_request(task[h].id, task[h].device)
    /\ strayed' = IF task[h].id \in DOMAIN pending THEN strayed ELSE strayed \cup {task[h].id}
    /\ Done(h)
    /\ UNCHANGED <<access, signed, joinLock, accessLock, asked, founding, stray>>

StraySave(h) ==
    /\ At(h, "event", "stray")
    /\ access' = task[h].state
    /\ stray' = "since"
    /\ Done(h)
    /\ UNCHANGED <<pending, signed, joinLock, accessLock, asked, founding, strayed>>

-----------------------------------------------------------------------------
Init ==
    /\ access = EmptyAccess
    /\ pending = [i \in {} |-> NoTask]
    /\ signed = {}
    /\ task = [h \in Handler |-> NoTask]
    /\ joinLock = NoTask
    /\ accessLock = NoTask
    /\ asked = {}
    /\ founding = EmptyAccess
    /\ strayed = {}
    /\ stray = "never"

Next ==
    \/ CreateWorkspace
    \/ SignEvent
    \/ \E h \in Handler :
        \/ SubmitJoinRequest(h) \/ FindRequest(h) \/ ListRequests(h) \/ InsertRequest(h)
        \/ PostEvent(h) \/ FindPending(h) \/ ApplyEvent(h) \/ SaveState(h)
        \/ RemoveRequest(h)
        \/ Abort(h) \/ Abandon(h) \/ StrayInsert(h) \/ StraySave(h)

Spec == Init /\ [][Next]_vars

-----------------------------------------------------------------------------
(* Properties.                                                             *)

IsSigned(s) ==
    /\ s = [actor |-> s.actor, event |-> s.event, expected |-> s.expected, seen |-> s.seen]
    /\ s.actor \in Device
    /\ s.event \in AccessEvent
    /\ s.expected \in Nat
    /\ IsAccess(s.seen)

IsTask(t) ==
    \/ t = NoTask
    \/ t \in [op : {"submit"}, stage : {"find", "list", "insert", "stray"},
              id : RequestId, device : Device]
    \/ /\ t = Handling(t.signed, t.state, t.stage)
       /\ t.signed \in signed
       /\ t.stage \in {"request", "apply", "save", "remove", "stray"}
       /\ IsAccess(t.state)

TypeOK ==
    /\ IsAccess(access)
    /\ DOMAIN pending \subseteq RequestId
    /\ pending \in [DOMAIN pending -> Device]
    /\ \A s \in signed : IsSigned(s)
    /\ task = [h \in Handler |-> task[h]]
    /\ \A h \in Handler : IsTask(task[h])
    /\ joinLock \in Handler \cup {NoTask}
    /\ accessLock \in Handler \cup {NoTask}
    /\ asked \subseteq Device
    /\ IsAccess(founding)
    /\ strayed \subseteq RequestId
    /\ stray \in {"never", "before", "since"}

\* A workspace always has an active owner, also when two owners demote or remove each
\* other, or themselves, at the same time, and when a stray statement brings an older
\* state back.
OwnerRemains == access.revision # 0 => ActiveOwners(access) # {}

\* "Removing a device revokes its server access and key grants": only an active member
\* holds an active grant, in whichever order grants and removals arrive, also late.
\* Grants to strangers can only be those the workspace was created with: validate
\* lets them through.
GrantsAreForMembers ==
    \A g \in DOMAIN access.grants :
        access.grants[g] =>
            \/ active_membership(access, g[2])
            \/ has_active_key_grant(founding, g) /\ ~active_membership(founding, g[2])

\* Only a device that asked for it becomes a member of a workspace once it is created,
\* whatever an owner signs.
MembersAsked == DOMAIN access.members \ DOMAIN founding.members \subseteq asked

\* A device has at most one pending request, although the lookup and the insertion are
\* separate statements, but for requests that were inserted after their handler was gone.
OnePendingPerDevice ==
    \A i, j \in DOMAIN pending \ strayed : pending[i] = pending[j] => i = j

\* The limit on pending requests holds, whatever was found before the insertion: only
\* requests that were inserted after their handler was gone come on top.
PendingBounded == Cardinality(DOMAIN pending \ strayed) <= MaxPending

StaysOut ==
    \A d \in DOMAIN access.members :
        /\ d \in DOMAIN access'.members
        /\ ~active_membership(access, d) => ~active_membership(access', d)

\* A removal is final: no handler that runs to its end makes a removed device a member
\* again, unless a stray statement changed the access state while the handler had the
\* lock.
RemovedStaysOut == [][stray' # "since" => StaysOut]_vars

DecidedByOwner ==
    (access' # access /\ access.revision # 0 /\ stray' # "since") =>
        \E s \in signed :
            /\ s.expected = access.revision
            /\ stray = "never" => s.seen = access
            /\ s.actor \in ActiveOwners(access)
            /\ access' = Changed(access, s.event)

\* An access event changes only a state whose revision its signer had seen and only if
\* that signer owns the workspace in it.  As long as revisions are not used twice, by a
\* stray statement, that is the very state it had seen, so a delayed or repeated event
\* undoes nothing that was decided after it was signed.
DecidedOnCurrentState == [][DecidedByOwner]_vars
=============================================================================
