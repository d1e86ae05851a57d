------------------------ MODULE AccessServer_proofs ------------------------
(***************************************************************************)
(* Proofs about AccessServer for any number of devices, handlers, requests *)
(* and events.                                                             *)
(***************************************************************************)
EXTENDS AccessServer, FiniteSetTheorems, TLAPS

\* Abbreviations that the proofs always look through.
USE DEF SignedAccessEvent, authenticate, Handling

-----------------------------------------------------------------------------
(* What one event does to an access state.                                 *)

\* Every event names a device, and the fields its kind needs.
LEMMA EventFields ==
    ASSUME NEW e \in AccessEvent
    PROVE  /\ e.device \in Device
           /\ e.kind \in {"DeviceJoined", "DeviceRoleChanged", "DeviceRemoved",
                         "RestrictedKeyGranted", "RestrictedKeyRevoked"}
           /\ e.kind \in {"DeviceJoined", "DeviceRoleChanged"} => e.role \in Role
           /\ e.kind = "DeviceJoined" => e.id \in RequestId
           /\ e.kind \in {"RestrictedKeyGranted", "RestrictedKeyRevoked"} => e.key \in Key
  BY DEF AccessEvent

\* An accepted event leaves a well-typed membership table.
LEMMA MembersTyped ==
    ASSUME NEW s, IsAccess(s), NEW e \in AccessEvent, NEW actor, Acceptable(s, actor, e)
    PROVE  /\ DOMAIN ChangedMembers(s, e) \subseteq Device
           /\ ChangedMembers(s, e) \in
                [DOMAIN ChangedMembers(s, e) -> [role : Role, status : {"Active", "Removed"}]]
           /\ DOMAIN s.members \subseteq DOMAIN ChangedMembers(s, e)
  <1>1. CASE e.kind = "DeviceJoined"
    BY <1>1, EventFields DEF IsAccess, ChangedMembers, InsertMembership
  <1>2. CASE e.kind = "DeviceRoleChanged"
    BY <1>2, EventFields DEF IsAccess, ChangedMembers, Acceptable, active_membership
  <1>3. CASE e.kind = "DeviceRemoved"
    BY <1>3, EventFields DEF IsAccess, ChangedMembers, Acceptable, active_membership
  <1>4. CASE e.kind \in {"RestrictedKeyGranted", "RestrictedKeyRevoked"}
    BY <1>4 DEF IsAccess, ChangedMembers
  <1> QED BY <1>1, <1>2, <1>3, <1>4, EventFields

\* An accepted event leaves a well-typed table of key grants.
LEMMA GrantsTyped ==
    ASSUME NEW s, IsAccess(s), NEW e \in AccessEvent, NEW actor, Acceptable(s, actor, e)
    PROVE  /\ DOMAIN ChangedGrants(s, e) \subseteq Key \X Device
           /\ ChangedGrants(s, e) \in [DOMAIN ChangedGrants(s, e) -> BOOLEAN]
  <1>1. CASE e.kind \in {"DeviceJoined", "DeviceRoleChanged"}
    BY <1>1 DEF IsAccess, ChangedGrants
  <1>2. CASE e.kind = "DeviceRemoved"
    BY <1>2 DEF IsAccess, ChangedGrants, revoke_all_for_device
  <1>3. CASE e.kind = "RestrictedKeyGranted"
    <2> DEFINE g == <<e.key, e.device>>
    <2>1. g \in Key \X Device
      BY <1>3, EventFields
    <2>2. ChangedGrants(s, e) =
            [h \in DOMAIN s.grants \cup {g} |-> IF h = g THEN TRUE ELSE s.grants[h]]
      BY <1>3 DEF ChangedGrants, InsertGrant
    <2> HIDE DEF g
    <2> QED BY <2>1, <2>2 DEF IsAccess
  <1>4. CASE e.kind = "RestrictedKeyRevoked"
    BY <1>4, EventFields DEF IsAccess, ChangedGrants, Acceptable, has_active_key_grant
  <1> QED BY <1>1, <1>2, <1>3, <1>4, EventFields

\* An accepted event makes an access state of an access state.
LEMMA ChangedIsAccess ==
    ASSUME NEW s, IsAccess(s), NEW e \in AccessEvent, NEW actor, Acceptable(s, actor, e)
    PROVE  IsAccess(Changed(s, e))
  BY MembersTyped, GrantsTyped DEF IsAccess, Changed

\* An accepted event leaves an active owner: validate counts them.
LEMMA OwnerAfterEvent ==
    ASSUME NEW s, IsAccess(s), NEW signature, accepts_event(s, signature)
    PROVE  ActiveOwners(Changed(s, signature.event)) # {}
  <1>1. Changed(s, signature.event).revision # 0
    BY DEF Changed, IsAccess
  <1>2. Cardinality(ActiveOwners(Changed(s, signature.event))) # 0
    BY <1>1 DEF accepts_event, validate, active_owner_count
  <1> QED BY <1>2, FS_EmptySet

\* An accepted event leaves active grants only with active members, and with others that
\* had them before.
LEMMA GrantsAfterEvent ==
    ASSUME NEW s, IsAccess(s), NEW e \in AccessEvent, NEW actor, Acceptable(s, actor, e),
           NEW others,
           \A g \in DOMAIN s.grants : s.grants[g] => active_membership(s, g[2]) \/ g \in others
    PROVE  \A g \in DOMAIN Changed(s, e).grants :
                Changed(s, e).grants[g] =>
                    active_membership(Changed(s, e), g[2]) \/ g \in others
  <1>1. CASE e.kind = "DeviceJoined"
    BY <1>1 DEF IsAccess, Changed, ChangedMembers, ChangedGrants, InsertMembership,
                active_membership
  <1>2. CASE e.kind = "DeviceRoleChanged"
    BY <1>2 DEF IsAccess, Changed, ChangedMembers, ChangedGrants, active_membership
  <1>3. CASE e.kind = "DeviceRemoved"
    BY <1>3 DEF IsAccess, Changed, ChangedMembers, ChangedGrants, revoke_all_for_device,
                active_membership
  <1>4. CASE e.kind = "RestrictedKeyGranted"
    BY <1>4, EventFields DEF IsAccess, Changed, ChangedMembers, ChangedGrants, InsertGrant,
                Acceptable, active_membership
  <1>5. CASE e.kind = "RestrictedKeyRevoked"
    BY <1>5 DEF IsAccess, Changed, ChangedMembers, ChangedGrants, active_membership
  <1> QED BY <1>1, <1>2, <1>3, <1>4, <1>5, EventFields

\* No accepted event makes an inactive membership active again.
LEMMA RemovedAfterEvent ==
    ASSUME NEW s, IsAccess(s), NEW e \in AccessEvent, NEW actor, Acceptable(s, actor, e),
           NEW d \in DOMAIN s.members
    PROVE  /\ d \in DOMAIN Changed(s, e).members
           /\ ~active_membership(s, d) => ~active_membership(Changed(s, e), d)
  <1>1. d \in DOMAIN Changed(s, e).members
    BY MembersTyped DEF Changed
  <1>2. CASE e.kind = "DeviceJoined"
    BY <1>1, <1>2 DEF IsAccess, Changed, ChangedMembers, InsertMembership, Acceptable,
                may_join, active_membership
  <1>3. CASE e.kind = "DeviceRoleChanged"
    BY <1>1, <1>3 DEF IsAccess, Changed, ChangedMembers, active_membership
  <1>4. CASE e.kind = "DeviceRemoved"
    BY <1>1, <1>4 DEF IsAccess, Changed, ChangedMembers, active_membership
  <1>5. CASE e.kind \in {"RestrictedKeyGranted", "RestrictedKeyRevoked"}
    BY <1>1, <1>5 DEF Changed, ChangedMembers, active_membership
  <1> QED BY <1>1, <1>2, <1>3, <1>4, <1>5, EventFields

\* An event makes nobody a member but the device that joins.
LEMMA MembersAfterEvent ==
    ASSUME NEW s, IsAccess(s), NEW e \in AccessEvent
    PROVE  DOMAIN Changed(s, e).members \subseteq
                DOMAIN s.members \cup (IF e.kind = "DeviceJoined" THEN {e.device} ELSE {})
  <1>1. CASE e.kind = "DeviceJoined"
    BY <1>1 DEF Changed, ChangedMembers, InsertMembership
  <1>2. CASE e.kind = "DeviceRoleChanged"
    BY <1>2 DEF IsAccess, Changed, ChangedMembers
  <1>3. CASE e.kind = "DeviceRemoved"
    BY <1>3 DEF IsAccess, Changed, ChangedMembers
  <1>4. CASE e.kind \in {"RestrictedKeyGranted", "RestrictedKeyRevoked"}
    BY <1>4 DEF Changed, ChangedMembers
  <1> QED BY <1>1, <1>2, <1>3, <1>4, EventFields

-----------------------------------------------------------------------------
(* Type correctness.                                                       *)

LEMMA EmptyIsAccess == IsAccess(EmptyAccess)
  BY DEF IsAccess, EmptyAccess

LEMMA InitTyped == Init => TypeOK
  BY DEF Init, TypeOK, IsAccess, IsTask, EmptyAccess

\* The handlers other than h keep their task.
OthersKeep(h) == \A k \in Handler : k # h => task'[k] = task[k]

\* Handlers whose task changes.
LEMMA TaskTyped ==
    ASSUME TypeOK, NEW h \in Handler, NEW t, task' = [task EXCEPT ![h] = t],
           UNCHANGED signed, IsTask(t)
    PROVE  /\ task' = [k \in Handler |-> task'[k]]
           /\ \A k \in Handler : IsTask(task[k])'
           /\ task'[h] = t
           /\ OthersKeep(h)
  <1>1. task = [k \in Handler |-> task[k]]
    BY DEF TypeOK
  <1>2. task'[h] = t /\ OthersKeep(h) /\ task' = [k \in Handler |-> task'[k]]
    BY <1>1 DEF OthersKeep
  <1>3. ASSUME NEW k \in Handler PROVE IsTask(task[k])'
    BY <1>2 DEF TypeOK, OthersKeep, IsTask
  <1> QED BY <1>2, <1>3

LEMMA DoneTask ==
    ASSUME TypeOK, NEW h \in Handler, Done(h), UNCHANGED signed
    PROVE  /\ task' = [k \in Handler |-> task'[k]]
           /\ \A k \in Handler : IsTask(task[k])'
           /\ task'[h] = NoTask
           /\ OthersKeep(h)
  BY TaskTyped DEF Done, IsTask

\* A handler that goes on to another stage of the same submission.
LEMMA SubmitStage ==
    ASSUME TypeOK, NEW h \in Handler, NEW from, At(h, "submit", from), UNCHANGED signed,
           NEW stage \in {"find", "list", "insert", "stray"}, Continue(h, stage)
    PROVE  /\ task' = [k \in Handler |-> task'[k]]
           /\ \A k \in Handler : IsTask(task[k])'
           /\ task'[h].op = "submit" /\ task'[h].stage = stage
           /\ task'[h].id = task[h].id /\ task'[h].device = task[h].device
           /\ OthersKeep(h)
  <1>1. task[h] \in [op : {"submit"}, stage : {"find", "list", "insert", "stray"},
                     id : RequestId, device : Device]
    BY DEF TypeOK, IsTask, At
  <1> DEFINE t == [task[h] EXCEPT !.stage = stage]
  <1>2. t \in [op : {"submit"}, stage : {"find", "list", "insert", "stray"},
               id : RequestId, device : Device]
    BY <1>1
  <1>3. task' = [task EXCEPT ![h] = t]
    BY DEF Continue, TypeOK
  <1>4. t.op = "submit" /\ t.stage = stage /\ t.id = task[h].id /\ t.device = task[h].device
    BY <1>1
  <1>5. IsTask(t)
    BY <1>2 DEF IsTask
  <1> HIDE DEF t
  <1> QED BY <1>3, <1>4, <1>5, TaskTyped

\* What the task of an access event holds.
LEMMA EventTask ==
    ASSUME TypeOK, NEW h \in Handler, NEW from, At(h, "event", from)
    PROVE  /\ task[h] = Handling(task[h].signed, task[h].state, from)
           /\ task[h].signed \in signed /\ IsSigned(task[h].signed)
           /\ task[h].signed.event \in AccessEvent
           /\ IsAccess(task[h].state)
           /\ from \in {"request", "apply", "save", "remove", "stray"}
  BY DEF TypeOK, IsTask, At, IsSigned

\* A handler that goes on to another stage of the same event.
LEMMA EventStage ==
    ASSUME TypeOK, NEW h \in Handler, NEW from, At(h, "event", from), UNCHANGED signed,
           NEW stage \in {"request", "apply", "save", "remove", "stray"},
           NEW state, IsAccess(state),
           \/ Continue(h, stage) /\ state = task[h].state
           \/ task' = [task EXCEPT ![h] = Handling(task[h].signed, state, stage)]
    PROVE  /\ task' = [k \in Handler |-> task'[k]]
           /\ \A k \in Handler : IsTask(task[k])'
           /\ task'[h] = Handling(task[h].signed, state, stage)
           /\ OthersKeep(h)
  <1> DEFINE t == Handling(task[h].signed, state, stage)
  <1>1. IsTask(t)
    BY EventTask DEF IsTask
  <1>2. task[h] = [op |-> "event", signed |-> task[h].signed, state |-> task[h].state,
                   stage |-> from]
    BY EventTask
  <1>3. task = [k \in Handler |-> task[k]]
    BY DEF TypeOK
  <1>4. task' = [task EXCEPT ![h] = t]
    <2>1. ASSUME NEW r, NEW sg, NEW st,
                 r = [op |-> "event", signed |-> sg, state |-> st, stage |-> from]
          PROVE  [r EXCEPT !.stage = stage] =
                        [op |-> "event", signed |-> sg, state |-> st, stage |-> stage]
      BY <2>1
    <2>2. CASE task' = [task EXCEPT ![h].stage = stage] /\ state = task[h].state
      <3>1. [task[h] EXCEPT !.stage = stage] = t
        BY <1>2, <2>1, <2>2
      <3> HIDE DEF t
      <3> QED BY <1>3, <2>2, <3>1
    <2> QED BY <2>2 DEF Continue
  <1> HIDE DEF t
  <1>5. QED BY <1>1, <1>4, TaskTyped DEF t

\* Every step keeps the types.
LEMMA NextTyped == TypeOK /\ [Next]_vars => TypeOK'
  <1> SUFFICES ASSUME TypeOK, [Next]_vars PROVE TypeOK'
    OBVIOUS
  <1>1. CASE UNCHANGED vars
    BY <1>1 DEF vars, TypeOK, IsTask
  <1>2. CASE CreateWorkspace
    <2>1. IsAccess(access') /\ IsAccess(founding')
      BY <1>2, ServerAssumption DEF CreateWorkspace
    <2> QED BY <1>2, <2>1 DEF CreateWorkspace, TypeOK, IsTask
  <1>3. CASE SignEvent
    <2>1. PICK d \in Device, e \in AccessEvent : signed' = signed \cup
            {[actor |-> d, event |-> e, expected |-> access.revision, seen |-> access]}
      BY <1>3 DEF SignEvent
    <2>2. IsSigned([actor |-> d, event |-> e, expected |-> access.revision, seen |-> access])
      BY DEF IsSigned, TypeOK, IsAccess
    <2>3. \A s \in signed' : IsSigned(s)
      BY <2>1, <2>2 DEF TypeOK
    <2>4. \A k \in Handler : IsTask(task[k])'
      BY <1>3, <2>1 DEF SignEvent, IsTask, TypeOK
    <2> QED BY <1>3, <2>1, <2>3, <2>4 DEF SignEvent, TypeOK
  <1>4. ASSUME NEW h \in Handler, SubmitJoinRequest(h) PROVE TypeOK'
    <2>1. PICK id \in RequestId :
            /\ task' = [task EXCEPT ![h] = [op |-> "submit", stage |-> "find", id |-> id,
                                           device |-> Requester[id]]]
            /\ asked' = asked \cup {Requester[id]}
      BY <1>4 DEF SubmitJoinRequest
    <2>2. Requester[id] \in Device
      BY ServerAssumption
    <2>3. IsTask([op |-> "submit", stage |-> "find", id |-> id, device |-> Requester[id]])
      BY <2>2 DEF IsTask
    <2>4. /\ UNCHANGED <<access, pending, signed, accessLock, founding, strayed, stray>>
          /\ joinLock' = h
      BY <1>4 DEF SubmitJoinRequest, lock_join_requests
    <2> QED BY <2>1, <2>2, <2>3, <2>4, TaskTyped DEF TypeOK
  <1>5. ASSUME NEW h \in Handler, FindRequest(h) PROVE TypeOK'
    <2>1. PICK stage \in {"find", "list", "insert", "stray"} : Continue(h, stage)
      BY <1>5 DEF FindRequest
    <2> QED BY <1>5, <2>1, SubmitStage DEF FindRequest, TypeOK
  <1>6. ASSUME NEW h \in Handler, ListRequests(h) PROVE TypeOK'
    <2>1. CASE Done(h) /\ unlock(h)
      BY <1>6, <2>1, DoneTask DEF ListRequests, TypeOK, unlock
    <2>2. CASE Continue(h, "insert") /\ UNCHANGED joinLock
      BY <1>6, <2>2, SubmitStage DEF ListRequests, TypeOK
    <2> QED BY <1>6, <2>1, <2>2 DEF ListRequests
  <1>7. ASSUME NEW h \in Handler, InsertRequest(h) \/ StrayInsert(h) PROVE TypeOK'
    <2>1. task[h].id \in RequestId /\ task[h].device \in Device
      BY <1>7 DEF InsertRequest, StrayInsert, At, TypeOK, IsTask
    <2>2. /\ UNCHANGED <<access, signed, accessLock, asked, founding, stray>> /\ Done(h)
          /\ joinLock' \in {joinLock, NoTask}
          /\ strayed' \in {strayed, strayed \cup {task[h].id}}
          /\ insert_request(task[h].id, task[h].device)
      BY <1>7 DEF InsertRequest, StrayInsert, unlock
    <2>3. DOMAIN pending' \subseteq RequestId /\ pending' \in [DOMAIN pending' -> Device]
      BY <2>1, <2>2 DEF insert_request, TypeOK
    <2> QED BY <2>1, <2>2, <2>3, DoneTask DEF TypeOK
  <1>8. ASSUME NEW h \in Handler, PostEvent(h) PROVE TypeOK'
    <2>1. PICK s \in signed : task' = [task EXCEPT ![h] =
                Handling(s, EmptyAccess,
                         IF s.event.kind = "DeviceJoined" THEN "request" ELSE "apply")]
      BY <1>8 DEF PostEvent
    <2>2. IsTask(Handling(s, EmptyAccess,
                          IF s.event.kind = "DeviceJoined" THEN "request" ELSE "apply"))
      BY EmptyIsAccess DEF IsTask
    <2> QED BY <1>8, <2>1, <2>2, TaskTyped DEF PostEvent, TypeOK
  <1>9. ASSUME NEW h \in Handler, FindPending(h) PROVE TypeOK'
    <2>1. CASE Done(h)
      BY <1>9, <2>1, DoneTask DEF FindPending, TypeOK
    <2>2. CASE Continue(h, "apply")
      <3>1. IsAccess(task[h].state)
        BY <1>9, EventTask DEF FindPending
      <3> QED BY <1>9, <2>2, <3>1, EventStage DEF FindPending, TypeOK
    <2> QED BY <1>9, <2>1, <2>2 DEF FindPending
  <1>10. ASSUME NEW h \in Handler, ApplyEvent(h) PROVE TypeOK'
    <2>1. /\ At(h, "event", "apply")
          /\ UNCHANGED <<access, pending, signed, joinLock, asked, founding, strayed>>
          /\ stray' \in {"before", stray}
      BY <1>10 DEF ApplyEvent
    <2>2. CASE Done(h) /\ UNCHANGED accessLock
      BY <2>1, <2>2, DoneTask DEF TypeOK
    <2>3. CASE /\ accepts_event(access, task[h].signed)
               /\ task' = [task EXCEPT ![h] =
                    Handling(task[h].signed, Changed(access, task[h].signed.event), "save")]
               /\ accessLock' = h
      <3>1. IsAccess(Changed(access, task[h].signed.event))
        BY <2>1, <2>3, EventTask, ChangedIsAccess DEF accepts_event, TypeOK
      <3> QED BY <2>1, <2>3, <3>1, EventStage DEF TypeOK
    <2> QED BY <1>10, <2>2, <2>3 DEF ApplyEvent
  <1>11. ASSUME NEW h \in Handler, SaveState(h) PROVE TypeOK'
    <2>1. At(h, "event", "save") /\ IsAccess(task[h].state)
      BY <1>11, EventTask DEF SaveState
    <2>2. /\ access' = task[h].state /\ accessLock' \in {accessLock, NoTask}
          /\ UNCHANGED <<pending, signed, joinLock, asked, founding, strayed, stray>>
      BY <1>11 DEF SaveState, unlock_events
    <2>3. CASE Done(h)
      BY <2>1, <2>2, <2>3, DoneTask DEF TypeOK
    <2>4. CASE task' = [task EXCEPT ![h] = Handling(task[h].signed, EmptyAccess, "remove")]
      BY <2>1, <2>2, <2>4, EmptyIsAccess, EventStage DEF TypeOK
    <2> QED BY <1>11, <2>3, <2>4 DEF SaveState
  <1>12. ASSUME NEW h \in Handler, RemoveRequest(h) PROVE TypeOK'
    <2>1. DOMAIN pending' \subseteq RequestId /\ pending' \in [DOMAIN pending' -> Device]
      BY <1>12 DEF RemoveRequest, TypeOK
    <2> QED BY <1>12, <2>1, DoneTask DEF RemoveRequest, TypeOK
  <1>13. ASSUME NEW h \in Handler, Abort(h) PROVE TypeOK'
    BY <1>13, DoneTask DEF Abort, TypeOK, unlock, unlock_events
  <1>14. ASSUME NEW h \in Handler, Abandon(h) PROVE TypeOK'
    <2>1. /\ UNCHANGED <<access, pending, signed, asked, founding, strayed, stray>>
          /\ joinLock' \in {joinLock, NoTask} /\ accessLock' \in {accessLock, NoTask}
      BY <1>14 DEF Abandon, unlock, unlock_events
    <2>2. CASE At(h, "submit", "insert")
      BY <1>14, <2>1, <2>2, SubmitStage DEF Abandon, TypeOK
    <2>3. CASE At(h, "event", "save")
      <3>1. IsAccess(task[h].state)
        BY <2>3, EventTask
      <3> QED BY <1>14, <2>1, <2>3, <3>1, EventStage DEF Abandon, TypeOK
    <2> QED BY <1>14, <2>2, <2>3 DEF Abandon
  <1>15. ASSUME NEW h \in Handler, StraySave(h) PROVE TypeOK'
    <2>1. IsAccess(task[h].state)
      BY <1>15, EventTask DEF StraySave
    <2> QED BY <1>15, <2>1, DoneTask DEF StraySave, TypeOK
  <1> QED BY <1>1, <1>2, <1>3, <1>4, <1>5, <1>6, <1>7, <1>8, <1>9, <1>10, <1>11, <1>12,
             <1>13, <1>14, <1>15
          DEF Next

\* Every reachable state has the types of TypeOK.
THEOREM TypeCorrect == Spec => []TypeOK
  BY InitTyped, NextTyped, PTL DEF Spec

-----------------------------------------------------------------------------
(* Who asked.                                                              *)

\* A request that is pending, or about to be, was submitted by its device, and a join
\* that is about to apply was found among those.
AskedFirst ==
    /\ \A i \in DOMAIN pending : pending[i] \in asked
    /\ \A h \in Handler :
        (task[h] # NoTask /\ task[h].op = "submit") => task[h].device \in asked
    /\ \A h \in Handler :
        (At(h, "event", "apply") /\ task[h].signed.event.kind = "DeviceJoined") =>
            task[h].signed.event.device \in asked

\* A step of h after which whoever is in progress still asked first.
LEMMA StillAsked ==
    ASSUME AskedFirst, NEW h \in Handler, OthersKeep(h), asked \subseteq asked',
           \A i \in DOMAIN pending' : pending'[i] \in asked',
           (task'[h] # NoTask /\ task'[h].op = "submit") => task'[h].device \in asked',
           (At(h, "event", "apply")' /\ task'[h].signed.event.kind = "DeviceJoined") =>
                task'[h].signed.event.device \in asked'
    PROVE  AskedFirst'
  BY DEF AskedFirst, OthersKeep, At

LEMMA NextAskedFirst == TypeOK /\ AskedFirst /\ [Next]_vars => AskedFirst'
  <1> SUFFICES ASSUME TypeOK, AskedFirst, [Next]_vars PROVE AskedFirst'
    OBVIOUS
  <1>1. CASE UNCHANGED <<pending, task, asked>>
    BY <1>1 DEF AskedFirst, At
  <1>2. ASSUME NEW h \in Handler, SubmitJoinRequest(h) PROVE AskedFirst'
    <2>1. PICK id \in RequestId :
            /\ task' = [task EXCEPT ![h] = [op |-> "submit", stage |-> "find", id |-> id,
                                           device |-> Requester[id]]]
            /\ asked' = asked \cup {Requester[id]}
      BY <1>2 DEF SubmitJoinRequest
    <2>2. /\ task'[h] = [op |-> "submit", stage |-> "find", id |-> id,
                         device |-> Requester[id]]
          /\ OthersKeep(h)
      BY <2>1 DEF TypeOK, OthersKeep
    <2>3. \A i \in DOMAIN pending' : pending'[i] \in asked'
      BY <1>2, <2>1 DEF SubmitJoinRequest, AskedFirst
    <2> QED BY <2>1, <2>2, <2>3, StillAsked DEF At
  <1>3. ASSUME NEW h \in Handler, NEW from, At(h, "submit", from),
               NEW stage \in {"find", "list", "insert", "stray"}, Continue(h, stage),
               UNCHANGED <<pending, signed, asked>>
        PROVE  AskedFirst'
    BY <1>3, SubmitStage, StillAsked DEF AskedFirst, At
  <1>4. ASSUME NEW h \in Handler, Done(h), UNCHANGED <<signed, asked>>,
               \A i \in DOMAIN pending' : pending'[i] \in asked'
        PROVE  AskedFirst'
    BY <1>4, DoneTask, StillAsked DEF At
  <1>5. ASSUME NEW h \in Handler, InsertRequest(h) \/ StrayInsert(h) PROVE AskedFirst'
    <2>1. task[h].device \in asked
      BY <1>5 DEF InsertRequest, StrayInsert, AskedFirst, At
    <2>2. \A i \in DOMAIN pending' : pending'[i] \in asked'
      BY <1>5, <2>1 DEF InsertRequest, StrayInsert, insert_request, AskedFirst
    <2> QED BY <1>4, <1>5, <2>2 DEF InsertRequest, StrayInsert
  <1>6. ASSUME NEW h \in Handler, PostEvent(h) PROVE AskedFirst'
    <2>1. PICK s \in signed : task' = [task EXCEPT ![h] =
                Handling(s, EmptyAccess,
                         IF s.event.kind = "DeviceJoined" THEN "request" ELSE "apply")]
      BY <1>6 DEF PostEvent
    <2>2. /\ task'[h] = Handling(s, EmptyAccess,
                         IF s.event.kind = "DeviceJoined" THEN "request" ELSE "apply")
          /\ OthersKeep(h)
      BY <2>1 DEF TypeOK, OthersKeep
    <2> QED BY <1>6, <2>2, StillAsked DEF PostEvent, AskedFirst, At
  <1>7. ASSUME NEW h \in Handler, FindPending(h) PROVE AskedFirst'
    <2>1. CASE Done(h)
      BY <1>4, <1>7, <2>1 DEF FindPending, AskedFirst
    <2>2. CASE /\ verify_join_request(task[h].signed.event.id, task[h].signed.event.device)
               /\ Continue(h, "apply")
      <3>1. task[h].signed.event.device \in asked
        BY <2>2 DEF verify_join_request, AskedFirst
      <3>2. IsAccess(task[h].state)
        BY <1>7, EventTask DEF FindPending
      <3>3. task'[h] = Handling(task[h].signed, task[h].state, "apply") /\ OthersKeep(h)
        BY <1>7, <2>2, <3>2, EventStage DEF FindPending
      <3> QED BY <1>7, <3>1, <3>3, StillAsked DEF FindPending, AskedFirst
    <2> QED BY <1>7, <2>1, <2>2 DEF FindPending
  <1>8. ASSUME NEW h \in Handler, NEW state, NEW stage, stage # "apply",
               task'[h] = Handling(task[h].signed, state, stage), OthersKeep(h),
               UNCHANGED <<pending, asked>>
        PROVE  AskedFirst'
    BY <1>8, StillAsked DEF AskedFirst, At
  <1>9. ASSUME NEW h \in Handler, ApplyEvent(h) PROVE AskedFirst'
    <2>1. CASE Done(h)
      BY <1>4, <1>9, <2>1 DEF ApplyEvent, AskedFirst
    <2>2. CASE task' = [task EXCEPT ![h] =
                    Handling(task[h].signed, Changed(access, task[h].signed.event), "save")]
      BY <1>8, <1>9, <2>2 DEF ApplyEvent, TypeOK, OthersKeep
    <2> QED BY <1>9, <2>1, <2>2 DEF ApplyEvent
  <1>10. ASSUME NEW h \in Handler, SaveState(h) PROVE AskedFirst'
    <2>1. CASE Done(h)
      BY <1>4, <1>10, <2>1 DEF SaveState, AskedFirst
    <2>2. CASE task' = [task EXCEPT ![h] = Handling(task[h].signed, EmptyAccess, "remove")]
      BY <1>8, <1>10, <2>2 DEF SaveState, TypeOK, OthersKeep
    <2> QED BY <1>10, <2>1, <2>2 DEF SaveState
  <1>11. ASSUME NEW h \in Handler, RemoveRequest(h) PROVE AskedFirst'
    <2>1. \A i \in DOMAIN pending' : pending'[i] \in asked'
      BY <1>11 DEF RemoveRequest, AskedFirst
    <2> QED BY <1>4, <1>11, <2>1 DEF RemoveRequest
  <1>12. ASSUME NEW h \in Handler, Abort(h) \/ StraySave(h) PROVE AskedFirst'
    BY <1>4, <1>12 DEF Abort, StraySave, AskedFirst
  <1>13. ASSUME NEW h \in Handler, Abandon(h) PROVE AskedFirst'
    <2>1. CASE At(h, "submit", "insert")
      BY <1>3, <1>13, <2>1 DEF Abandon
    <2>2. CASE At(h, "event", "save")
      <3>1. IsAccess(task[h].state)
        BY <2>2, EventTask
      <3>2. task'[h] = Handling(task[h].signed, task[h].state, "stray") /\ OthersKeep(h)
        BY <1>13, <2>2, <3>1, EventStage DEF Abandon
      <3> QED BY <1>8, <1>13, <3>2 DEF Abandon
    <2> QED BY <1>13, <2>1, <2>2 DEF Abandon
  <1>14. ASSUME NEW h \in Handler, FindRequest(h) \/ ListRequests(h) PROVE AskedFirst'
    <2>1. CASE Done(h)
      BY <1>4, <1>14, <2>1 DEF FindRequest, ListRequests, AskedFirst
    <2>2. CASE \E stage \in {"list", "insert"} : Continue(h, stage)
      BY <1>3, <1>14, <2>2 DEF FindRequest, ListRequests
    <2> QED BY <1>14, <2>1, <2>2 DEF FindRequest, ListRequests
  <1> QED BY <1>1, <1>2, <1>5, <1>6, <1>7, <1>9, <1>10, <1>11, <1>12, <1>13, <1>14
          DEF Next, vars, CreateWorkspace, SignEvent

-----------------------------------------------------------------------------
(* The access state.                                                       *)

\* The grants to strangers that the workspace was created with.
Given(f) == {g \in DOMAIN f.grants :
                has_active_key_grant(f, g) /\ ~active_membership(f, g[2])}

\* What is true of an access state that was saved, or will be, in a workspace that was
\* created with f and where the devices a asked.
Sound(s, f, a) ==
    /\ s.revision # 0
    /\ ActiveOwners(s) # {}
    /\ \A g \in DOMAIN s.grants : s.grants[g] => active_membership(s, g[2]) \/ g \in Given(f)
    /\ DOMAIN s.members \ DOMAIN f.members \subseteq a

\* A handler, or its stray statement, has an access state to save.
Carries(h) == task[h] # NoTask /\ task[h].op = "event" /\ task[h].stage \in {"save", "stray"}

SoundStates ==
    /\ access.revision # 0 => Sound(access, founding, asked)
    /\ \A h \in Handler : Carries(h) => Sound(task[h].state, founding, asked)

\* Nobody is a member, and nothing signed, before the workspace is created.
BeforeCreation ==
    access.revision = 0 => DOMAIN access.members = {} /\ DOMAIN access.grants = {} /\ signed = {}

\* Who is about to save has the lock, and unless a stray statement came in between, what
\* it saves is the accepted change of the state that is there.
SaveLocked == \A h \in Handler : At(h, "event", "save") => accessLock = h

SaveReady ==
    \A h \in Handler : (At(h, "event", "save") /\ stray # "since") =>
        /\ accepts_event(access, task[h].signed)
        /\ task[h].state = Changed(access, task[h].signed.event)

\* An event that expects the present revision was signed in the present state, as long as
\* no stray statement used a revision again.
SignedIsSeen ==
    stray = "never" =>
        \A s \in signed :
            /\ s.expected <= access.revision
            /\ s.expected = access.revision => s.seen = access

\* What holds of the access state at all times.
AccessInv ==
    /\ TypeOK /\ AskedFirst
    /\ SoundStates /\ BeforeCreation /\ SaveLocked /\ SaveReady /\ SignedIsSeen

\* Accepted events come from owners.
LEMMA OwnerActs ==
    ASSUME NEW s, NEW signature, signature.event \in AccessEvent, accepts_event(s, signature)
    PROVE  signature.actor \in ActiveOwners(s) /\ Acceptable(s, signature.actor, signature.event)
  <1>1. required_permission(signature.event.kind) \in {"ManageDevices", "ManageRoles", "ManageKeys"}
    BY EventFields DEF required_permission
  <1> QED BY <1>1 DEF accepts_event, Acceptable, require_permission, allows,
                     MemberPermissions, ActiveOwners, active_membership

\* An accepted event makes a sound state of a sound state, if the device that joins asked.
LEMMA SoundAfterEvent ==
    ASSUME NEW s, NEW f, NEW a, IsAccess(s), Sound(s, f, a),
            NEW signature, signature.event \in AccessEvent,
           accepts_event(s, signature),
           signature.event.kind = "DeviceJoined" => signature.event.device \in a
    PROVE  Sound(Changed(s, signature.event), f, a)
  <1> DEFINE e == signature.event
  <1>1. Acceptable(s, signature.actor, e)
    BY OwnerActs
  <1>2. Changed(s, e).revision # 0
    BY DEF Changed, IsAccess
  <1>3. ActiveOwners(Changed(s, e)) # {}
    BY OwnerAfterEvent
  <1>4. \A g \in DOMAIN Changed(s, e).grants :
            Changed(s, e).grants[g] => active_membership(Changed(s, e), g[2]) \/ g \in Given(f)
    <2>1. \A g \in DOMAIN s.grants : s.grants[g] => active_membership(s, g[2]) \/ g \in Given(f)
      BY DEF Sound
    <2> QED BY <1>1, <2>1, GrantsAfterEvent
  <1>5. DOMAIN Changed(s, e).members \ DOMAIN f.members \subseteq a
    BY MembersAfterEvent DEF Sound
  <1> QED BY <1>2, <1>3, <1>4, <1>5 DEF Sound

\* A step of h that neither changes the access state nor prepares to.
LEMMA Quiet ==
    ASSUME AccessInv, NEW h \in Handler, OthersKeep(h),
           UNCHANGED <<access, signed, founding, stray>>, asked \subseteq asked',
           accessLock' = accessLock \/ (accessLock = h /\ accessLock' = NoTask),
           ~At(h, "event", "save")',
           Carries(h)' => Carries(h) /\ task'[h].state = task[h].state
    PROVE  SoundStates' /\ BeforeCreation' /\ SaveLocked' /\ SaveReady' /\ SignedIsSeen'
  <1>1. \A s : Sound(s, founding, asked) => Sound(s, founding', asked')
    BY DEF Sound
  <1>2. SoundStates'
    <2>1. access'.revision # 0 => Sound(access', founding', asked')
      BY <1>1 DEF AccessInv, SoundStates
    <2>2. ASSUME NEW k \in Handler, Carries(k)'
          PROVE  Sound(task'[k].state, founding', asked')
      <3>1. Carries(k) /\ task'[k].state = task[k].state
        BY <2>2 DEF OthersKeep, Carries
      <3> QED BY <1>1, <3>1 DEF AccessInv, SoundStates
    <2> QED BY <2>1, <2>2 DEF SoundStates
  <1>3. SaveLocked'
    BY DEF AccessInv, SaveLocked, OthersKeep, At
  <1>4. SaveReady'
    BY DEF AccessInv, SaveReady, OthersKeep, At
  <1> QED BY <1>2, <1>3, <1>4 DEF AccessInv, BeforeCreation, SignedIsSeen

LEMMA InitAccess == Init => AccessInv
  <1> SUFFICES ASSUME Init PROVE AccessInv
    OBVIOUS
  <1>1. \A h \in Handler : task[h] = NoTask
    BY DEF Init
  <1>2. /\ access.revision = 0 /\ DOMAIN access.members = {} /\ DOMAIN access.grants = {}
        /\ signed = {} /\ DOMAIN pending = {}
    BY DEF Init, EmptyAccess
  <1> QED BY <1>1, <1>2, InitTyped
          DEF AccessInv, AskedFirst, SoundStates, BeforeCreation, SaveLocked, SaveReady,
              SignedIsSeen, Carries, At

\* The steps that create the workspace and sign events.
LEMMA CreatingKeeps ==
    ASSUME AccessInv, CreateWorkspace
    PROVE  SoundStates' /\ BeforeCreation' /\ SaveLocked' /\ SaveReady' /\ SignedIsSeen'
  <1>1. PICK s \in Founding : /\ ActiveOwners(s) # {} /\ validate(s)
                              /\ access' = s /\ founding' = s
    BY DEF CreateWorkspace
  <1>2. access.revision = 0 /\ signed = {}
    BY DEF CreateWorkspace, AccessInv, BeforeCreation
  <1>3. \A h \in Handler : ~(task[h] # NoTask /\ task[h].op = "event")
    BY <1>2 DEF AccessInv, TypeOK, IsTask
  <1>4. UNCHANGED <<task, signed>>
    BY DEF CreateWorkspace
  <1>5. s.revision # 0
    BY <1>1 DEF validate, ActiveOwners
  <1>6. Sound(s, s, asked')
    BY <1>1, <1>5 DEF Sound, Given, has_active_key_grant
  <1> QED BY <1>1, <1>2, <1>3, <1>4, <1>5, <1>6
          DEF SoundStates, BeforeCreation, SaveLocked, SaveReady, SignedIsSeen, Carries, At

LEMMA SigningKeeps ==
    ASSUME AccessInv, SignEvent
    PROVE  SoundStates' /\ BeforeCreation' /\ SaveLocked' /\ SaveReady' /\ SignedIsSeen'
  <1>1. PICK d \in Device, e \in AccessEvent :
            active_membership(access, d) /\ signed' = signed \cup {SignedAccessEvent(d, e)}
    BY DEF SignEvent
  <1>2. UNCHANGED <<access, task, accessLock, asked, founding, stray>>
    BY DEF SignEvent
  <1>3. access.revision # 0 /\ access.revision \in Nat
    BY <1>1 DEF active_membership, AccessInv, BeforeCreation, TypeOK, IsAccess
  <1>4. SignedIsSeen'
    BY <1>1, <1>2, <1>3 DEF AccessInv, SignedIsSeen
  <1>5. SoundStates' /\ SaveLocked' /\ SaveReady'
    BY <1>2 DEF AccessInv, SoundStates, SaveLocked, SaveReady, Carries, At
  <1> QED BY <1>2, <1>3, <1>4, <1>5 DEF BeforeCreation

\* The step that reads and checks the access state.
LEMMA ApplyingKeeps ==
    ASSUME AccessInv, NEW h \in Handler, ApplyEvent(h)
    PROVE  SoundStates' /\ BeforeCreation' /\ SaveLocked' /\ SaveReady' /\ SignedIsSeen'
  <1> DEFINE s == task[h].signed
  <1>1. /\ At(h, "event", "apply") /\ accessLock = NoTask
        /\ UNCHANGED <<access, signed, asked, founding>>
        /\ stray' = IF stray = "since" THEN "before" ELSE stray
    BY DEF ApplyEvent, lock_access_events
  <1>2. TypeOK /\ s \in signed /\ s.event \in AccessEvent
    BY <1>1, EventTask DEF AccessInv
  <1>3. \A k \in Handler : ~At(k, "event", "save")
    BY <1>1, ServerAssumption DEF AccessInv, SaveLocked
  <1>4. SignedIsSeen' /\ BeforeCreation'
    BY <1>1 DEF AccessInv, SignedIsSeen, BeforeCreation
  <1>5. CASE Done(h) /\ UNCHANGED accessLock
    <2>1. task'[h] = NoTask /\ OthersKeep(h)
      BY <1>1, <1>2, <1>5, DoneTask
    <2>2. \A k \in Handler : ~At(k, "event", "save")'
      BY <1>3, <2>1 DEF OthersKeep, At
    <2>3. SoundStates'
      BY <1>1, <2>1 DEF AccessInv, SoundStates, Carries, OthersKeep
    <2> QED BY <1>4, <2>2, <2>3 DEF SaveLocked, SaveReady
  <1>6. CASE /\ accepts_event(access, s)
             /\ task' = [task EXCEPT ![h] = Handling(s, Changed(access, s.event), "save")]
             /\ accessLock' = h
    <2>1. task'[h] = Handling(s, Changed(access, s.event), "save") /\ OthersKeep(h)
      BY <1>2, <1>6 DEF TypeOK, OthersKeep
    <2>2. access.revision # 0 /\ IsAccess(access) /\ Sound(access, founding, asked)
      BY <1>2 DEF AccessInv, BeforeCreation, SoundStates, TypeOK
    <2>3. s.event.kind = "DeviceJoined" => s.event.device \in asked
      BY <1>1 DEF AccessInv, AskedFirst
    <2>4. Sound(Changed(access, s.event), founding, asked)
      BY <1>2, <1>6, <2>2, <2>3, SoundAfterEvent
    <2>5. SoundStates'
      BY <1>1, <2>1, <2>4 DEF AccessInv, SoundStates, Carries, OthersKeep
    <2>6. SaveLocked' /\ SaveReady'
      BY <1>1, <1>3, <1>6, <2>1 DEF SaveLocked, SaveReady, OthersKeep, At
    <2> QED BY <1>4, <2>5, <2>6
  <1> QED BY <1>5, <1>6 DEF ApplyEvent

\* The steps that save an access state.
LEMMA SavingKeeps ==
    ASSUME AccessInv, NEW h \in Handler, SaveState(h) \/ StraySave(h)
    PROVE  SoundStates' /\ BeforeCreation' /\ SaveLocked' /\ SaveReady' /\ SignedIsSeen'
  <1>1. /\ Carries(h) /\ access' = task[h].state
        /\ UNCHANGED <<signed, asked, founding>>
    BY DEF SaveState, StraySave, At, Carries
  <1>2. Sound(access', founding', asked') /\ access'.revision # 0
    BY <1>1 DEF AccessInv, SoundStates, Sound
  <1>3. OthersKeep(h) /\ ~Carries(h)' /\ ~At(h, "event", "save")'
    BY <1>1, DoneTask DEF SaveState, StraySave, AccessInv, TypeOK, OthersKeep, Carries, At
  <1>4. SoundStates'
    BY <1>1, <1>2, <1>3 DEF AccessInv, SoundStates, Carries, OthersKeep
  <1>5. BeforeCreation'
    BY <1>2 DEF BeforeCreation
  <1>6. CASE SaveState(h)
    <2>1. At(h, "event", "save") /\ UNCHANGED stray
      BY <1>6 DEF SaveState
    <2>2. \A k \in Handler : ~At(k, "event", "save")'
      BY <1>3, <2>1 DEF AccessInv, SaveLocked, OthersKeep, At
    <2>3. SignedIsSeen'
      <3> SUFFICES ASSUME stray = "never"
                   PROVE  \A s \in signed : /\ s.expected <= access'.revision
                                            /\ s.expected # access'.revision
        BY <1>1, <2>1 DEF SignedIsSeen
      <3>1. access' = Changed(access, task[h].signed.event)
        BY <1>1, <2>1 DEF AccessInv, SaveReady
      <3>2. access'.revision = access.revision + 1
        BY <3>1 DEF Changed
      <3>3. access.revision \in Nat /\ \A s \in signed : s.expected \in Nat
        BY DEF AccessInv, TypeOK, IsSigned, IsAccess
      <3> QED BY <3>2, <3>3 DEF AccessInv, SignedIsSeen
    <2> QED BY <1>4, <1>5, <2>2, <2>3 DEF SaveLocked, SaveReady
  <1>7. CASE StraySave(h)
    BY <1>3, <1>4, <1>5, <1>7
       DEF StraySave, AccessInv, SaveLocked, SaveReady, SignedIsSeen, OthersKeep, At
  <1> QED BY <1>6, <1>7

LEMMA AccessInvariant == Spec => []AccessInv
  <1>1. AccessInv /\ [Next]_vars => AccessInv'
    <2> SUFFICES ASSUME AccessInv, [Next]_vars
                 PROVE  SoundStates' /\ BeforeCreation' /\ SaveLocked' /\ SaveReady'
                        /\ SignedIsSeen'
      BY NextTyped, NextAskedFirst DEF AccessInv
    <2>0. TypeOK
      BY DEF AccessInv
    <2>1. CASE UNCHANGED vars
      BY <2>1 DEF vars, AccessInv, SoundStates, BeforeCreation, SaveLocked, SaveReady,
                  SignedIsSeen, Carries, At
    <2>2. ASSUME NEW h \in Handler,
                 \/ SubmitJoinRequest(h) \/ FindRequest(h) \/ ListRequests(h)
                 \/ InsertRequest(h) \/ StrayInsert(h) \/ RemoveRequest(h) \/ Abort(h)
          PROVE  SoundStates' /\ BeforeCreation' /\ SaveLocked' /\ SaveReady' /\ SignedIsSeen'
      <3>1. /\ UNCHANGED <<access, signed, founding, stray>> /\ asked \subseteq asked'
            /\ accessLock' = accessLock \/ (accessLock = h /\ accessLock' = NoTask)
        BY <2>2 DEF SubmitJoinRequest, FindRequest, ListRequests, InsertRequest, StrayInsert,
                    RemoveRequest, Abort, unlock_events
      <3>2. OthersKeep(h) /\ (task'[h] = NoTask \/ task'[h].op = "submit")
        <4>1. CASE Done(h)
          BY <2>0, <3>1, <4>1, DoneTask
        <4>2. CASE SubmitJoinRequest(h)
          BY <2>0, <4>2 DEF SubmitJoinRequest, TypeOK, OthersKeep
        <4>3. CASE /\ At(h, "submit", "find") \/ At(h, "submit", "list")
                   /\ \E stage \in {"list", "insert"} : Continue(h, stage)
          BY <2>0, <3>1, <4>3, SubmitStage
        <4> QED BY <2>2, <4>1, <4>2, <4>3
                DEF FindRequest, ListRequests, InsertRequest, StrayInsert, RemoveRequest, Abort
      <3> QED BY <3>1, <3>2, Quiet DEF At, Carries
    <2>3. ASSUME NEW h \in Handler, PostEvent(h) \/ FindPending(h)
          PROVE  SoundStates' /\ BeforeCreation' /\ SaveLocked' /\ SaveReady' /\ SignedIsSeen'
      <3>1. UNCHANGED <<access, signed, accessLock, asked, founding, stray>>
        BY <2>3 DEF PostEvent, FindPending
      <3>2. OthersKeep(h) /\ (task'[h] = NoTask \/ task'[h].stage \in {"request", "apply"})
        <4>1. CASE Done(h)
          BY <2>0, <3>1, <4>1, DoneTask
        <4>2. CASE PostEvent(h)
          <5>1. PICK s \in signed, stage \in {"request", "apply"} :
                    task' = [task EXCEPT ![h] = Handling(s, EmptyAccess, stage)]
            BY <4>2 DEF PostEvent
          <5>2. task'[h] = Handling(s, EmptyAccess, stage) /\ OthersKeep(h)
            BY <2>0, <5>1 DEF TypeOK, OthersKeep
          <5> QED BY <5>2
        <4>3. CASE At(h, "event", "request") /\ Continue(h, "apply")
          <5>1. IsAccess(task[h].state)
            BY <2>0, <4>3, EventTask
          <5>2. /\ task'[h] = Handling(task[h].signed, task[h].state, "apply")
                /\ OthersKeep(h)
            BY <2>0, <3>1, <4>3, <5>1, EventStage
          <5> QED BY <5>2
        <4> QED BY <2>3, <4>1, <4>2, <4>3 DEF FindPending
      <3> QED BY <3>1, <3>2, Quiet DEF At, Carries
    <2>4. ASSUME NEW h \in Handler, Abandon(h)
          PROVE  SoundStates' /\ BeforeCreation' /\ SaveLocked' /\ SaveReady' /\ SignedIsSeen'
      <3>1. /\ UNCHANGED <<access, signed, asked, founding, stray>>
            /\ accessLock' = accessLock \/ (accessLock = h /\ accessLock' = NoTask)
        BY <2>4 DEF Abandon, unlock_events
      <3>2. CASE At(h, "submit", "insert")
        <4>1. OthersKeep(h) /\ task'[h].op = "submit"
          BY <2>0, <2>4, <3>1, <3>2, SubmitStage DEF Abandon
        <4> QED BY <3>1, <4>1, Quiet DEF At, Carries
      <3>3. CASE At(h, "event", "save")
        <4>1. IsAccess(task[h].state)
          BY <2>0, <3>3, EventTask
        <4>2. OthersKeep(h) /\ task'[h] = Handling(task[h].signed, task[h].state, "stray")
          BY <2>0, <2>4, <3>1, <3>3, <4>1, EventStage DEF Abandon
        <4>3. Carries(h) /\ task'[h].state = task[h].state /\ ~At(h, "event", "save")'
          BY <3>3, <4>2 DEF At, Carries
        <4> QED BY <3>1, <4>2, <4>3, Quiet
      <3> QED BY <2>4, <3>2, <3>3 DEF Abandon
    <2> QED BY <2>1, <2>2, <2>3, <2>4, CreatingKeeps, SigningKeeps, ApplyingKeeps, SavingKeeps
            DEF Next
  <1> QED BY <1>1, InitAccess, PTL DEF Spec

\* A workspace never loses its last owner, whatever owners do to each other and to
\* themselves at the same time, and whatever stray statements bring back.
THEOREM AlwaysAnOwner == Spec => []OwnerRemains
  <1>1. AccessInv => OwnerRemains
    BY DEF AccessInv, SoundStates, Sound, OwnerRemains
  <1> QED BY <1>1, AccessInvariant, PTL

\* Only active members hold active key grants, apart from those the workspace was
\* created with.
THEOREM GrantsOnlyForMembers == Spec => []GrantsAreForMembers
  <1>1. AccessInv => GrantsAreForMembers
    BY DEF AccessInv, BeforeCreation, SoundStates, Sound, Given, GrantsAreForMembers
  <1> QED BY <1>1, AccessInvariant, PTL

\* Nobody becomes a member who did not ask: what verify_join_request found was put there
\* by submit_join_request for that very device.
THEOREM MembersHaveAsked == Spec => []MembersAsked
  <1>1. AccessInv => MembersAsked
    BY DEF AccessInv, BeforeCreation, SoundStates, Sound, MembersAsked
  <1> QED BY <1>1, AccessInvariant, PTL

\* The access state changes when the workspace is created, when a handler saves its
\* accepted change of it, and when a stray statement came in.
LEMMA AccessSteps ==
    ASSUME AccessInv, [Next]_vars
    PROVE  \/ UNCHANGED access
           \/ CreateWorkspace
           \/ stray' = "since"
           \/ \E s \in signed :
                /\ s.event \in AccessEvent
                /\ accepts_event(access, s)
                /\ access' = Changed(access, s.event)
                /\ UNCHANGED stray
  <1>1. ASSUME NEW h \in Handler, SaveState(h), stray' # "since"
        PROVE  \E s \in signed :
                /\ s.event \in AccessEvent
                /\ accepts_event(access, s)
                /\ access' = Changed(access, s.event)
                /\ UNCHANGED stray
    <2>1. At(h, "event", "save") /\ UNCHANGED stray /\ access' = task[h].state
      BY <1>1 DEF SaveState
    <2>2. task[h].signed \in signed /\ task[h].signed.event \in AccessEvent
      BY <2>1, EventTask DEF AccessInv
    <2>3. /\ accepts_event(access, task[h].signed)
          /\ task[h].state = Changed(access, task[h].signed.event)
      BY <1>1, <2>1 DEF AccessInv, SaveReady
    <2> QED BY <2>1, <2>2, <2>3
  <1> QED BY <1>1 DEF Next, vars, SignEvent, SubmitJoinRequest, FindRequest, ListRequests,
                     InsertRequest, PostEvent, FindPending, ApplyEvent, RemoveRequest, Abort,
                     Abandon, StrayInsert, StraySave

\* A removed device never becomes a member again by a handler whose state is current.
THEOREM RemovalIsFinal == Spec => RemovedStaysOut
  <1>1. AccessInv /\ [Next]_vars => [stray' # "since" => StaysOut]_vars
    <2> SUFFICES ASSUME AccessInv, [Next]_vars, stray' # "since", NEW d \in DOMAIN access.members
                 PROVE  /\ d \in DOMAIN access'.members
                        /\ ~active_membership(access, d) => ~active_membership(access', d)
      BY DEF StaysOut
    <2>1. CASE UNCHANGED access
      BY <2>1 DEF active_membership
    <2>2. CASE CreateWorkspace
      BY <2>2 DEF CreateWorkspace, AccessInv, BeforeCreation
    <2>3. ASSUME NEW s \in signed, s.event \in AccessEvent, accepts_event(access, s),
                 access' = Changed(access, s.event)
          PROVE  /\ d \in DOMAIN access'.members
                 /\ ~active_membership(access, d) => ~active_membership(access', d)
      BY <2>3, OwnerActs, RemovedAfterEvent DEF AccessInv, TypeOK
    <2> QED BY <2>1, <2>2, <2>3, AccessSteps
  <1> QED BY <1>1, AccessInvariant, PTL DEF Spec, RemovedStaysOut

\* Every change of an existing workspace's access state, stray ones aside, was decided by
\* an active owner for the revision it changes, and until a stray one came in for exactly
\* that state.
THEOREM OwnersDecide == Spec => DecidedOnCurrentState
  <1>1. AccessInv /\ [Next]_vars => [DecidedByOwner]_vars
    <2> SUFFICES ASSUME AccessInv, [Next]_vars, access' # access, access.revision # 0,
                        stray' # "since"
                 PROVE  DecidedByOwner
      BY DEF DecidedByOwner
    <2>1. PICK s \in signed : /\ s.event \in AccessEvent
                              /\ accepts_event(access, s)
                              /\ access' = Changed(access, s.event)
      BY AccessSteps DEF CreateWorkspace
    <2>2. s.expected = access.revision /\ (stray = "never" => s.seen = access)
      BY <2>1 DEF accepts_event, expects_revision, AccessInv, SignedIsSeen
    <2>3. s.actor \in ActiveOwners(access)
      BY <2>1, OwnerActs
    <2> QED BY <2>1, <2>2, <2>3 DEF DecidedByOwner
  <1> QED BY <1>1, AccessInvariant, PTL DEF Spec, DecidedOnCurrentState

-----------------------------------------------------------------------------
(* Join requests.                                                          *)

\* The handler is there and submits a request.
Submits(h) == task[h] # NoTask /\ task[h].op = "submit" /\ task[h].stage # "stray"

\* The requests whose handlers were there when they were inserted.
Regular == DOMAIN pending \ strayed

\* A submission holds the lock, so there is at most one.
SubmissionLocked == \A h \in Handler : Submits(h) => joinLock = h

OwnSubmissions ==
    \A h \in Handler :
        (task[h] # NoTask /\ task[h].op = "submit") => task[h].device = Requester[task[h].id]

\* What the checks of a submission established and removals do not disturb.
ReadyToInsert ==
    \A h \in Handler : (At(h, "submit", "insert") /\ task[h].id \notin strayed) =>
        /\ \A i \in Regular : pending[i] = task[h].device => i = task[h].id
        /\ Cardinality(Regular \cup {task[h].id}) <= MaxPending

OwnRequests ==
    IsFiniteSet(DOMAIN pending) /\ \A i \in DOMAIN pending : pending[i] = Requester[i]

JoinInv ==
    /\ TypeOK /\ SubmissionLocked /\ OwnSubmissions /\ ReadyToInsert /\ OwnRequests
    /\ OnePendingPerDevice /\ PendingBounded

\* A step of a handler that submits nothing and inserts nothing.
LEMMA NoSubmission ==
    ASSUME JoinInv, NEW h \in Handler, OthersKeep(h), ~Submits(h)', UNCHANGED <<pending, strayed>>,
           (task'[h] # NoTask /\ task'[h].op = "submit") =>
                task'[h].device = Requester[task'[h].id],
           joinLock' = joinLock \/ (joinLock = h /\ joinLock' = NoTask)
    PROVE  SubmissionLocked' /\ OwnSubmissions' /\ ReadyToInsert' /\ OwnRequests'
           /\ OnePendingPerDevice' /\ PendingBounded'
  <1>1. SubmissionLocked' /\ OwnSubmissions'
    BY DEF JoinInv, SubmissionLocked, OwnSubmissions, Submits, OthersKeep
  <1>2. ReadyToInsert'
    BY DEF JoinInv, ReadyToInsert, Regular, Submits, OthersKeep, At
  <1>3. OwnRequests' /\ OnePendingPerDevice' /\ PendingBounded'
    BY DEF JoinInv, OwnRequests, OnePendingPerDevice, PendingBounded
  <1> QED BY <1>1, <1>2, <1>3

\* A step of a submission that goes on under the lock and changes no request.
LEMMA GoesOn ==
    ASSUME JoinInv, NEW h \in Handler, OthersKeep(h), Submits(h), joinLock' = h,
           UNCHANGED <<pending, strayed>>,
           task'[h].id = task[h].id, task'[h].device = task[h].device,
           (task'[h].stage = "insert" /\ task[h].id \notin strayed) =>
                /\ \A i \in Regular : pending[i] = task[h].device => i = task[h].id
                /\ Cardinality(Regular \cup {task[h].id}) <= MaxPending
    PROVE  SubmissionLocked' /\ OwnSubmissions' /\ ReadyToInsert' /\ OwnRequests'
           /\ OnePendingPerDevice' /\ PendingBounded'
  <1>1. joinLock = h
    BY DEF JoinInv, SubmissionLocked
  <1>2. SubmissionLocked' /\ OwnSubmissions'
    BY <1>1 DEF JoinInv, SubmissionLocked, OwnSubmissions, Submits, OthersKeep
  <1>3. ReadyToInsert'
    BY DEF JoinInv, ReadyToInsert, Regular, OthersKeep, At
  <1>4. OwnRequests' /\ OnePendingPerDevice' /\ PendingBounded'
    BY DEF JoinInv, OwnRequests, OnePendingPerDevice, PendingBounded
  <1> QED BY <1>2, <1>3, <1>4

\* What is not stray of finitely many requests.
LEMMA RegularFinite ==
    ASSUME JoinInv
    PROVE  /\ IsFiniteSet(Regular) /\ Cardinality(Regular) \in Nat
           /\ Cardinality(Regular) <= Cardinality(DOMAIN pending)
           /\ Cardinality(DOMAIN pending) \in Nat
  BY FS_Subset, FS_CardinalityType DEF JoinInv, OwnRequests, Regular

LEMMA InitJoin == Init => JoinInv
  <1> SUFFICES ASSUME Init PROVE JoinInv
    OBVIOUS
  <1>1. DOMAIN pending = {} /\ \A h \in Handler : task[h] = NoTask
    BY DEF Init
  <1>2. IsFiniteSet(DOMAIN pending) /\ Cardinality(DOMAIN pending) <= MaxPending
    BY <1>1, FS_EmptySet, ServerAssumption
  <1>3. DOMAIN pending \ strayed = DOMAIN pending
    BY <1>1
  <1> QED BY <1>1, <1>2, <1>3, InitTyped DEF JoinInv, SubmissionLocked, OwnSubmissions, Submits,
              ReadyToInsert, At, OwnRequests, OnePendingPerDevice, PendingBounded

\* The steps of a submission.
LEMMA SubmittingKeeps ==
    ASSUME JoinInv, NEW h \in Handler, SubmitJoinRequest(h)
    PROVE  SubmissionLocked' /\ OwnSubmissions' /\ ReadyToInsert' /\ OwnRequests'
           /\ OnePendingPerDevice' /\ PendingBounded'
  <1>1. PICK id \in RequestId : task' = [task EXCEPT ![h] =
            [op |-> "submit", stage |-> "find", id |-> id, device |-> Requester[id]]]
    BY DEF SubmitJoinRequest
  <1>2. task'[h] = [op |-> "submit", stage |-> "find", id |-> id, device |-> Requester[id]]
        /\ OthersKeep(h)
    BY <1>1 DEF JoinInv, TypeOK, OthersKeep
  <1>3. joinLock = NoTask /\ joinLock' = h /\ UNCHANGED <<pending, strayed>>
    BY DEF SubmitJoinRequest, lock_join_requests
  <1>4. \A k \in Handler : ~Submits(k)
    BY <1>3, ServerAssumption DEF JoinInv, SubmissionLocked
  <1>5. SubmissionLocked' /\ OwnSubmissions'
    BY <1>2, <1>3, <1>4 DEF JoinInv, SubmissionLocked, OwnSubmissions, Submits, OthersKeep
  <1>6. ReadyToInsert'
    BY <1>2, <1>3, <1>4 DEF ReadyToInsert, Submits, OthersKeep, At
  <1> QED BY <1>3, <1>5, <1>6 DEF JoinInv, OwnRequests, OnePendingPerDevice, PendingBounded

LEMMA FindingKeeps ==
    ASSUME JoinInv, NEW h \in Handler, FindRequest(h)
    PROVE  SubmissionLocked' /\ OwnSubmissions' /\ ReadyToInsert' /\ OwnRequests'
           /\ OnePendingPerDevice' /\ PendingBounded'
  <1>1. At(h, "submit", "find") /\ UNCHANGED <<pending, signed, joinLock, strayed>>
    BY DEF FindRequest
  <1>2. PICK stage \in {"list", "insert"} :
            Continue(h, stage) /\ (stage = "insert" => task[h].id \in DOMAIN pending)
    BY DEF FindRequest
  <1>3. /\ task'[h].stage = stage
        /\ task'[h].id = task[h].id /\ task'[h].device = task[h].device
        /\ OthersKeep(h)
    BY <1>1, <1>2, SubmitStage DEF JoinInv
  <1>4. Submits(h) /\ joinLock = h /\ task[h].device = Requester[task[h].id]
    BY <1>1 DEF JoinInv, SubmissionLocked, OwnSubmissions, Submits, At
  <1>5. ASSUME stage = "insert", task[h].id \notin strayed
        PROVE  /\ \A i \in Regular : pending[i] = task[h].device => i = task[h].id
               /\ Cardinality(Regular \cup {task[h].id}) <= MaxPending
    <2>1. task[h].id \in Regular /\ pending[task[h].id] = task[h].device
      BY <1>2, <1>4, <1>5 DEF JoinInv, OwnRequests, Regular
    <2>2. Regular \cup {task[h].id} = Regular
      BY <2>1
    <2> QED BY <2>1, <2>2 DEF JoinInv, OnePendingPerDevice, PendingBounded, Regular
  <1> QED BY <1>1, <1>3, <1>4, <1>5, GoesOn

LEMMA ListingKeeps ==
    ASSUME JoinInv, NEW h \in Handler, ListRequests(h)
    PROVE  SubmissionLocked' /\ OwnSubmissions' /\ ReadyToInsert' /\ OwnRequests'
           /\ OnePendingPerDevice' /\ PendingBounded'
  <1>1. At(h, "submit", "list") /\ UNCHANGED <<pending, signed, strayed>>
    BY DEF ListRequests
  <1>2. Submits(h) /\ joinLock = h
    BY <1>1 DEF JoinInv, SubmissionLocked, Submits, At
  <1>3. CASE Done(h) /\ unlock(h)
    BY <1>1, <1>2, <1>3, DoneTask, NoSubmission DEF JoinInv, unlock, Submits
  <1>4. CASE /\ ~at_limit /\ ~\E id \in DOMAIN pending : pending[id] = task[h].device
             /\ Continue(h, "insert") /\ UNCHANGED joinLock
    <2>1. /\ task'[h].id = task[h].id /\ task'[h].device = task[h].device
          /\ OthersKeep(h)
      BY <1>1, <1>4, SubmitStage DEF JoinInv
    <2>2. Cardinality(Regular \cup {task[h].id}) <= MaxPending
      <3>1. /\ IsFiniteSet(Regular) /\ Cardinality(Regular) \in Nat
            /\ Cardinality(Regular) < MaxPending
        BY <1>4, RegularFinite, ServerAssumption DEF at_limit
      <3>2. \/ task[h].id \in Regular
            \/ Cardinality(Regular \cup {task[h].id}) = Cardinality(Regular) + 1
        BY <3>1, FS_AddElement
      <3>3. task[h].id \in Regular => Regular \cup {task[h].id} = Regular
        OBVIOUS
      <3> QED BY <3>1, <3>2, <3>3, ServerAssumption
    <2>3. \A i \in Regular : pending[i] # task[h].device
      BY <1>4 DEF Regular
    <2> QED BY <1>1, <1>2, <1>4, <2>1, <2>2, <2>3, GoesOn
  <1> QED BY <1>3, <1>4 DEF ListRequests

LEMMA InsertingKeeps ==
    ASSUME JoinInv, NEW h \in Handler, InsertRequest(h)
    PROVE  SubmissionLocked' /\ OwnSubmissions' /\ ReadyToInsert' /\ OwnRequests'
           /\ OnePendingPerDevice' /\ PendingBounded'
  <1>1. /\ At(h, "submit", "insert") /\ Done(h) /\ unlock(h) /\ UNCHANGED <<signed, strayed>>
        /\ pending' = [i \in DOMAIN pending \cup {task[h].id} |->
                        IF i \in DOMAIN pending THEN pending[i] ELSE task[h].device]
    BY DEF InsertRequest, insert_request
  <1>2. joinLock = h /\ task[h].device = Requester[task[h].id]
    BY <1>1 DEF JoinInv, SubmissionLocked, OwnSubmissions, Submits, At
  <1>3. task'[h] = NoTask /\ OthersKeep(h)
    BY <1>1, DoneTask DEF JoinInv
  <1>4. \A k \in Handler : ~Submits(k)'
    BY <1>2, <1>3 DEF JoinInv, SubmissionLocked, Submits, OthersKeep
  <1>5. DOMAIN pending' = DOMAIN pending \cup {task[h].id}
    BY <1>1
  <1>6. OwnRequests'
    BY <1>1, <1>2, <1>5, FS_AddElement DEF JoinInv, OwnRequests
  <1>7. OnePendingPerDevice' /\ PendingBounded'
    <2>1. CASE task[h].id \in strayed
      <3>1. Regular' = Regular
        BY <1>1, <1>5, <2>1 DEF Regular
      <3> QED BY <1>1, <3>1 DEF JoinInv, OnePendingPerDevice, PendingBounded, Regular
    <2>2. CASE task[h].id \notin strayed
      <3>1. Regular' = Regular \cup {task[h].id}
        BY <1>1, <1>5, <2>2 DEF Regular
      <3>2. /\ \A i \in Regular : pending[i] = task[h].device => i = task[h].id
            /\ Cardinality(Regular \cup {task[h].id}) <= MaxPending
        BY <1>1, <2>2 DEF JoinInv, ReadyToInsert
      <3> QED BY <1>1, <3>1, <3>2 DEF JoinInv, OnePendingPerDevice, PendingBounded, Regular
    <2> QED BY <2>1, <2>2
  <1>8. OwnSubmissions'
    BY <1>3 DEF JoinInv, OwnSubmissions, OthersKeep
  <1> QED BY <1>4, <1>6, <1>7, <1>8 DEF SubmissionLocked, Submits, ReadyToInsert, At

\* A stray statement adds no regular request.
LEMMA StrayInsertKeeps ==
    ASSUME JoinInv, NEW h \in Handler, StrayInsert(h)
    PROVE  SubmissionLocked' /\ OwnSubmissions' /\ ReadyToInsert' /\ OwnRequests'
           /\ OnePendingPerDevice' /\ PendingBounded'
  <1> DEFINE id == task[h].id
  <1>1. /\ At(h, "submit", "stray") /\ Done(h) /\ UNCHANGED <<joinLock, signed>>
        /\ pending' = [i \in DOMAIN pending \cup {id} |->
                        IF i \in DOMAIN pending THEN pending[i] ELSE task[h].device]
        /\ strayed' = IF id \in DOMAIN pending THEN strayed ELSE strayed \cup {id}
    BY DEF StrayInsert, insert_request
  <1>2. task[h].device = Requester[id]
    BY <1>1 DEF JoinInv, OwnSubmissions, At
  <1>3. task'[h] = NoTask /\ OthersKeep(h)
    BY <1>1, DoneTask DEF JoinInv
  <1> HIDE DEF id
  <1>4. DOMAIN pending' = DOMAIN pending \cup {id} /\ strayed \subseteq strayed'
    BY <1>1
  <1>5. Regular' = Regular /\ \A i \in Regular : pending'[i] = pending[i]
    BY <1>1, <1>4 DEF Regular
  <1>6. OwnRequests'
    BY <1>1, <1>2, <1>4, FS_AddElement DEF JoinInv, OwnRequests
  <1>7. SubmissionLocked' /\ OwnSubmissions'
    BY <1>1, <1>3 DEF JoinInv, SubmissionLocked, OwnSubmissions, Submits, OthersKeep
  <1>8. ReadyToInsert'
    BY <1>3, <1>4, <1>5 DEF JoinInv, ReadyToInsert, OthersKeep, At
  <1>9. OnePendingPerDevice' /\ PendingBounded'
    BY <1>5 DEF JoinInv, OnePendingPerDevice, PendingBounded, Regular
  <1> QED BY <1>6, <1>7, <1>8, <1>9

LEMMA RemovingKeeps ==
    ASSUME JoinInv, NEW h \in Handler, RemoveRequest(h)
    PROVE  SubmissionLocked' /\ OwnSubmissions' /\ ReadyToInsert' /\ OwnRequests'
           /\ OnePendingPerDevice' /\ PendingBounded'
  <1> DEFINE id == task[h].signed.event.id
  <1>1. /\ Done(h) /\ UNCHANGED <<joinLock, signed, strayed>>
        /\ pending' = [i \in DOMAIN pending \ {id} |-> pending[i]]
    BY DEF RemoveRequest
  <1> HIDE DEF id
  <1>2. /\ DOMAIN pending' \subseteq DOMAIN pending /\ Regular' \subseteq Regular
        /\ \A i \in DOMAIN pending' : pending'[i] = pending[i]
    BY <1>1 DEF Regular
  <1>3. task'[h] = NoTask /\ OthersKeep(h)
    BY <1>1, DoneTask DEF JoinInv
  <1>4. IsFiniteSet(DOMAIN pending') /\ Cardinality(Regular') <= MaxPending
    <2>1. IsFiniteSet(Regular) /\ Cardinality(Regular) <= MaxPending /\ Cardinality(Regular) \in Nat
      BY RegularFinite DEF JoinInv, PendingBounded, Regular
    <2>2. /\ IsFiniteSet(Regular') /\ Cardinality(Regular') <= Cardinality(Regular)
          /\ Cardinality(Regular') \in Nat
      BY <1>2, <2>1, FS_Subset, FS_CardinalityType
    <2>3. IsFiniteSet(DOMAIN pending')
      BY <1>2, FS_Subset DEF JoinInv, OwnRequests
    <2> QED BY <2>1, <2>2, <2>3, ServerAssumption
  <1>5. SubmissionLocked' /\ OwnSubmissions'
    BY <1>1, <1>3 DEF JoinInv, SubmissionLocked, OwnSubmissions, Submits, OthersKeep
  <1>6. ReadyToInsert'
    <2> SUFFICES ASSUME NEW k \in Handler, At(k, "submit", "insert")', task'[k].id \notin strayed'
                 PROVE  /\ \A i \in Regular' :
                                pending'[i] = task'[k].device => i = task'[k].id
                        /\ Cardinality(Regular' \cup {task'[k].id}) <= MaxPending
      BY DEF ReadyToInsert
    <2>1. task'[k] = task[k] /\ At(k, "submit", "insert") /\ task[k].id \notin strayed
      BY <1>1, <1>3 DEF OthersKeep, At
    <2>2. \A i \in Regular' : pending'[i] = task'[k].device => i = task'[k].id
      BY <1>2, <2>1 DEF JoinInv, ReadyToInsert, Regular
    <2> DEFINE more == Regular \cup {task[k].id}
               fewer == Regular' \cup {task[k].id}
    <2>3. IsFiniteSet(more) /\ Cardinality(more) <= MaxPending /\ fewer \subseteq more
      BY <1>2, <2>1, RegularFinite, FS_AddElement DEF JoinInv, ReadyToInsert
    <2>4. IsFiniteSet(fewer) /\ Cardinality(fewer) <= Cardinality(more)
      BY <2>3, FS_Subset
    <2>5. Cardinality(fewer) <= MaxPending
      BY <2>3, <2>4, FS_CardinalityType, ServerAssumption
    <2> QED BY <2>1, <2>2, <2>5
  <1>7. OwnRequests' /\ OnePendingPerDevice' /\ PendingBounded'
    BY <1>1, <1>2, <1>4 DEF JoinInv, OwnRequests, OnePendingPerDevice, PendingBounded, Regular
  <1> QED BY <1>5, <1>6, <1>7

\* The steps of access events, and handlers that stop.
LEMMA OthersKeepJoins ==
    ASSUME JoinInv, NEW h \in Handler,
           \/ PostEvent(h) \/ FindPending(h) \/ ApplyEvent(h) \/ SaveState(h)
           \/ Abort(h) \/ Abandon(h) \/ StraySave(h)
    PROVE  SubmissionLocked' /\ OwnSubmissions' /\ ReadyToInsert' /\ OwnRequests'
           /\ OnePendingPerDevice' /\ PendingBounded'
  <1>0. TypeOK
    BY DEF JoinInv
  <1>1. /\ UNCHANGED <<pending, signed, strayed>>
        /\ joinLock' = joinLock \/ (joinLock = h /\ joinLock' = NoTask)
    BY DEF PostEvent, FindPending, ApplyEvent, SaveState, Abort, Abandon, StraySave, unlock
  <1>2. /\ OthersKeep(h) /\ ~Submits(h)'
        /\ (task'[h] # NoTask /\ task'[h].op = "submit") =>
                task'[h].device = Requester[task'[h].id]
    <2>1. CASE Done(h)
      BY <1>0, <1>1, <2>1, DoneTask DEF Submits
    <2>2. CASE \E s, state, stage : task' = [task EXCEPT ![h] = Handling(s, state, stage)]
      <3>1. PICK s, state, stage : task' = [task EXCEPT ![h] = Handling(s, state, stage)]
        BY <2>2
      <3>2. task'[h] = Handling(s, state, stage) /\ OthersKeep(h)
        BY <1>0, <3>1 DEF TypeOK, OthersKeep
      <3> QED BY <3>2 DEF Submits
    <2>3. CASE /\ At(h, "event", "request") \/ At(h, "event", "save")
               /\ \E stage \in {"apply", "stray"} : Continue(h, stage)
      <3>1. IsAccess(task[h].state)
        BY <1>0, <2>3, EventTask
      <3>2. PICK stage \in {"apply", "stray"} : Continue(h, stage)
        BY <2>3
      <3>3. /\ task'[h] = Handling(task[h].signed, task[h].state, stage)
            /\ OthersKeep(h)
        BY <1>0, <1>1, <2>3, <3>1, <3>2, EventStage
      <3> QED BY <3>3 DEF Submits
    <2>4. CASE At(h, "submit", "insert") /\ Continue(h, "stray")
      BY <1>0, <1>1, <2>4, SubmitStage DEF Submits, JoinInv, OwnSubmissions, At
    <2>5. CASE PostEvent(h)
      BY <2>2, <2>5 DEF PostEvent
    <2>6. CASE ApplyEvent(h) \/ SaveState(h)
      BY <2>1, <2>2, <2>6 DEF ApplyEvent, SaveState
    <2>7. CASE FindPending(h) \/ Abandon(h) \/ Abort(h) \/ StraySave(h)
      BY <2>1, <2>3, <2>4, <2>7 DEF FindPending, Abandon, Abort, StraySave
    <2> QED BY <2>5, <2>6, <2>7
  <1> QED BY <1>1, <1>2, NoSubmission

LEMMA JoinInvariant == Spec => []JoinInv
  <1>1. JoinInv /\ [Next]_vars => JoinInv'
    <2> SUFFICES ASSUME JoinInv, [Next]_vars
                 PROVE  SubmissionLocked' /\ OwnSubmissions' /\ ReadyToInsert' /\ OwnRequests'
                        /\ OnePendingPerDevice' /\ PendingBounded'
      BY NextTyped DEF JoinInv
    <2>1. CASE UNCHANGED <<pending, task, joinLock, strayed>>
      BY <2>1 DEF JoinInv, SubmissionLocked, OwnSubmissions, Submits, ReadyToInsert, Regular, At,
                  OwnRequests, OnePendingPerDevice, PendingBounded
    <2> QED BY <2>1, SubmittingKeeps, FindingKeeps, ListingKeeps, InsertingKeeps,
               StrayInsertKeeps, RemovingKeeps, OthersKeepJoins
            DEF Next, vars, CreateWorkspace, SignEvent
  <1> QED BY <1>1, InitJoin, PTL DEF Spec

\* A device never has two pending join requests whose handlers were there to insert them.
THEOREM OneRequestEach == Spec => []OnePendingPerDevice
  <1>1. JoinInv => OnePendingPerDevice
    BY DEF JoinInv
  <1> QED BY <1>1, JoinInvariant, PTL

\* The limit holds for the pending join requests whose handlers were there to insert them.
THEOREM RequestsLimited == Spec => []PendingBounded
  <1>1. JoinInv => PendingBounded
    BY DEF JoinInv
  <1> QED BY <1>1, JoinInvariant, PTL
=============================================================================
