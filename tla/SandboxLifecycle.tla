-------------------------- MODULE SandboxLifecycle --------------------------
(***************************************************************************)
(* The life of a sandbox as the control plane drives it: the create and    *)
(* stop handlers of internal/api/sandboxes.go, the reconciler of           *)
(* internal/api/reconciler.go, the rows they keep in PostgreSQL and the    *)
(* SandboxClaims they keep in Kubernetes.  The agent-sandbox controller    *)
(* and the warm pods are external: they do what the handlers rely on.      *)
(*                                                                         *)
(* A member of Sandboxes names one POST /v1/sandboxes, and with it the     *)
(* uuid, the row and the claim that request creates.  <<id, n>> is the     *)
(* n-th DELETE /v1/sandboxes/id.  Every call that leaves the control plane *)
(* may fail without effect, or take effect and fail to answer.             *)
(***************************************************************************)
EXTENDS Naturals, FiniteSets

CONSTANTS Sandboxes,    \* the create requests
          Pods,         \* the warm pool
          NoPod,        \* the binding of a claim that has none
          MaxStops,     \* stop requests for each sandbox
          MaxFaults,    \* bound on failed calls to Kubernetes, PostgreSQL, a pod
          MaxHangups,   \* bound on requests whose client disconnects
          MaxCrashes,   \* bound on restarts of the control plane
          MaxDeletions  \* bound on sandboxes whose user an administrator deletes

ASSUME NoPodAssumption == NoPod \notin Pods
ASSUME BoundsAssumption == /\ MaxStops \in Nat /\ MaxFaults \in Nat
                           /\ MaxHangups \in Nat /\ MaxCrashes \in Nat
                           /\ MaxDeletions \in Nat

VARIABLES
    create,    \* where each create handler stands
    stop,      \* where each stop handler stands
    refRead,   \* the stop handlers that have read their provider_ref
    hungUp,    \* the requests whose context is cancelled
    ownerless, \* the sandboxes whose user is deleted: user_id is NULL
    row,       \* sandboxes.status, or "absent"
    claim,     \* the SandboxClaim object of each sandbox
    boundTo,   \* claim.status.sandbox: the pod that serves it
    pod,       \* the pods
    served,    \* the sandboxes whose /claim each pod has accepted
    rec,       \* where the reconciler stands
    entries,   \* the reconciler's rows still to deal with
    faults, crashes

Stops == Sandboxes \X (1..MaxStops)

ASSUME RequestsAssumption == Sandboxes \cap Stops = {}

handlerVars == <<create, stop, refRead>>
podVars == <<boundTo, pod, served>>
recVars == <<rec, entries>>
vars == <<create, stop, refRead, hungUp, ownerless, row, claim, boundTo, pod,
          served, rec, entries, faults, crashes>>

CreateInFlight == {"creating", "polling", "adopted", "undoing", "inserting"}
CreateStages == {"new", "rejected", "failed", "answered", "crashed"} \cup CreateInFlight
StopInFlight == {"reading", "marking", "deleting"}
StopStages == {"new", "rejected", "done", "crashed"} \cup StopInFlight
ClaimStates == {"none", "pending", "bound", "deleted"}

TypeOK ==
    /\ create \in [Sandboxes -> CreateStages]
    /\ stop \in [Stops -> StopStages]
    /\ refRead \subseteq Stops
    /\ hungUp \subseteq Sandboxes \cup Stops
    /\ ownerless \subseteq Sandboxes
    /\ row \in [Sandboxes -> {"absent", "running", "gone"}]
    /\ claim \in [Sandboxes -> ClaimStates]
    /\ boundTo \in [Sandboxes -> Pods \cup {NoPod}]
    /\ pod \in [Pods -> {"warm", "launched", "exited", "removed"}]
    /\ served \in [Pods -> SUBSET Sandboxes]
    /\ rec \in {"idle", "read", "updating"}
    /\ entries \subseteq Sandboxes
    /\ faults \in Nat
    /\ crashes \in Nat

Init ==
    /\ create = [r \in Sandboxes |-> "new"]
    /\ stop = [s \in Stops |-> "new"]
    /\ refRead = {}
    /\ hungUp = {} /\ ownerless = {}
    /\ row = [r \in Sandboxes |-> "absent"]
    /\ claim = [r \in Sandboxes |-> "none"]
    /\ boundTo = [r \in Sandboxes |-> NoPod]
    /\ pod = [p \in Pods |-> "warm"]
    /\ served = [p \in Pods |-> {}]
    /\ rec = "idle"
    /\ entries = {}
    /\ faults = 0
    /\ crashes = 0

-----------------------------------------------------------------------------
(* Calls that leave the process.  With a cancelled context a call cannot   *)
(* succeed, yet one that was under way may have taken effect.              *)

Outcomes(cancelled) ==
    IF cancelled THEN {"failed", "unanswered"}
    ELSE {"ok"} \cup (IF faults < MaxFaults THEN {"failed", "unanswered"} ELSE {})

TookEffect(o) == o # "failed"

Charge(cancelled, o) ==
    faults' = IF o = "ok" \/ cancelled THEN faults ELSE faults + 1

Exists(r) == claim[r] \in {"pending", "bound"}

\* destroyClaim: delete the claim, ignore the error.
DestroyClaim(r, o) ==
    claim' = IF TookEffect(o) /\ Exists(r) THEN [claim EXCEPT ![r] = "deleted"] ELSE claim

\* UPDATE sandboxes SET status='gone' WHERE id=$1: matches whatever the status is.
MarkGone(r, o) ==
    row' = IF TookEffect(o) /\ row[r] # "absent" THEN [row EXCEPT ![r] = "gone"] ELSE row

-----------------------------------------------------------------------------
(* POST /v1/sandboxes.                                                     *)

\* The handler starts, or answers 400 to a body it cannot decode.
Arrive(r) ==
    /\ create[r] = "new"
    /\ \E to \in {"creating", "rejected"} : create' = [create EXCEPT ![r] = to]
    /\ UNCHANGED <<stop, refRead, hungUp, ownerless, row, claim, podVars, recVars, faults, crashes>>

\* k8s.Create: on an error the handler returns without deleting anything.
CreateClaim(r) ==
    /\ create[r] = "creating"
    /\ \E o \in Outcomes(r \in hungUp) :
         /\ claim' = IF TookEffect(o) THEN [claim EXCEPT ![r] = "pending"] ELSE claim
         /\ create' = [create EXCEPT ![r] = IF o = "ok" THEN "polling" ELSE "failed"]
         /\ Charge(r \in hungUp, o)
    /\ UNCHANGED <<stop, refRead, hungUp, ownerless, row, podVars, recVars, crashes>>

\* A tick that finds status.sandbox.name set; a Get that fails is another tick.
PollAdopted(r) ==
    /\ create[r] = "polling"
    /\ r \notin hungUp
    /\ claim[r] = "bound"
    /\ create' = [create EXCEPT ![r] = "adopted"]
    /\ UNCHANGED <<stop, refRead, hungUp, ownerless, row, claim, podVars, recVars, faults, crashes>>

MutPollGiveUp(r) ==  \* forgets the claim it has created
    /\ create[r] = "polling"
    /\ create' = [create EXCEPT ![r] = "failed"]
    /\ UNCHANGED <<stop, refRead, hungUp, ownerless, row, claim, podVars, recVars, faults, crashes>>

MutPollForever(r) ==  \* has no deadline, only the client's disconnection
    /\ create[r] = "polling" /\ r \in hungUp
    /\ \E o \in Outcomes(FALSE) : DestroyClaim(r, o) /\ Charge(FALSE, o)
    /\ create' = [create EXCEPT ![r] = "failed"]
    /\ UNCHANGED <<stop, refRead, hungUp, ownerless, row, podVars, recVars, crashes>>

\* ctx.Done or the 120 s deadline: delete the claim under a context of its own.
PollGiveUp(r) ==
    /\ create[r] = "polling"
    /\ \E o \in Outcomes(FALSE) : DestroyClaim(r, o) /\ Charge(FALSE, o)
    /\ create' = [create EXCEPT ![r] = "failed"]
    /\ UNCHANGED <<stop, refRead, hungUp, ownerless, row, podVars, recVars, crashes>>

\* The pod's supervisor takes a claim once; it answers 409 to any other.
Reachable(r) == boundTo[r] \in Pods /\ pod[boundTo[r]] = "warm"

Accept(r) ==
    /\ pod' = [pod EXCEPT ![boundTo[r]] = "launched"]
    /\ served' = [served EXCEPT ![boundTo[r]] = @ \cup {r}]

MutClaimForever(r) ==  \* tries again until the pod has answered 200
    /\ create[r] = "adopted"
    /\ \E o \in Outcomes(r \in hungUp) :
         /\ IF Reachable(r) /\ TookEffect(o) THEN Accept(r) ELSE UNCHANGED <<pod, served>>
         /\ create' = [create EXCEPT ![r] =
              IF Reachable(r) /\ o = "ok" THEN "inserting" ELSE "adopted"]
         /\ Charge(r \in hungUp, o)
    /\ UNCHANGED <<stop, refRead, hungUp, ownerless, row, claim, boundTo, recVars, crashes>>

MutClaimSupervisor(r) ==  \* reports success whatever the pod answered
    /\ create[r] = "adopted"
    /\ \E o \in Outcomes(r \in hungUp) :
         /\ IF Reachable(r) /\ TookEffect(o) THEN Accept(r) ELSE UNCHANGED <<pod, served>>
         /\ create' = [create EXCEPT ![r] = "inserting"]
         /\ Charge(r \in hungUp, o)
    /\ UNCHANGED <<stop, refRead, hungUp, ownerless, row, claim, boundTo, recVars, crashes>>

\* POST /claim to the adopted pod: anything but a 200 sends the handler to undo.
ClaimSupervisor(r) ==
    /\ create[r] = "adopted"
    /\ \E o \in Outcomes(r \in hungUp) :
         /\ IF Reachable(r) /\ TookEffect(o) THEN Accept(r) ELSE UNCHANGED <<pod, served>>
         /\ create' = [create EXCEPT ![r] =
              IF Reachable(r) /\ o = "ok" THEN "inserting" ELSE "undoing"]
         /\ Charge(r \in hungUp, o)
    /\ UNCHANGED <<stop, refRead, hungUp, ownerless, row, claim, boundTo, recVars, crashes>>

\* destroyClaim with the request's own context, then 502.
Undo(r) ==
    /\ create[r] = "undoing"
    /\ \E o \in Outcomes(r \in hungUp) : DestroyClaim(r, o) /\ Charge(r \in hungUp, o)
    /\ create' = [create EXCEPT ![r] = "failed"]
    /\ UNCHANGED <<stop, refRead, hungUp, ownerless, row, podVars, recVars, crashes>>

\* The INSERT, then 201; on an error, which a user who is deleted makes certain (the
\* row refers to the user), 500, and the claim is left as it is.
InsertRow(r) ==
    /\ create[r] = "inserting"
    /\ \E o \in Outcomes(r \in hungUp) :
         /\ row' = IF TookEffect(o) /\ r \notin ownerless
                   THEN [row EXCEPT ![r] = "running"] ELSE row
         /\ create' = [create EXCEPT ![r] =
              IF o = "ok" /\ r \notin ownerless THEN "answered" ELSE "failed"]
         /\ Charge(r \in hungUp, o)
    /\ UNCHANGED <<stop, refRead, hungUp, ownerless, claim, podVars, recVars, crashes>>

-----------------------------------------------------------------------------
(* DELETE /v1/sandboxes/{id}.                                              *)

\* lookupSandbox takes a row of the user in any state; a failed read is a 404.
StopLookup(s) ==
    /\ stop[s] = "new"
    /\ \E o \in Outcomes(s \in hungUp) :
         /\ stop' = [stop EXCEPT ![s] =
              IF row[s[1]] = "absent" \/ s[1] \in ownerless \/ o # "ok"
              THEN "rejected" ELSE "reading"]
         /\ Charge(s \in hungUp, o)
    /\ UNCHANGED <<create, refRead, hungUp, ownerless, row, claim, podVars, recVars, crashes>>

\* The second read, of provider_ref, asks for the user again and ignores the error:
\* the handler goes on without it.
StopRef(s) ==
    /\ stop[s] = "reading"
    /\ \E o \in Outcomes(s \in hungUp) :
         /\ refRead' = IF o = "ok" /\ s[1] \notin ownerless THEN refRead \cup {s} ELSE refRead
         /\ Charge(s \in hungUp, o)
    /\ stop' = [stop EXCEPT ![s] = "marking"]
    /\ UNCHANGED <<create, hungUp, ownerless, row, claim, podVars, recVars, crashes>>

\* UPDATE sandboxes SET status='gone'; the error is ignored.
StopMark(s) ==
    /\ stop[s] = "marking"
    /\ \E o \in Outcomes(s \in hungUp) : MarkGone(s[1], o) /\ Charge(s \in hungUp, o)
    /\ stop' = [stop EXCEPT ![s] = "deleting"]
    /\ UNCHANGED <<create, refRead, hungUp, ownerless, claim, podVars, recVars, crashes>>

MutStopDelete(s) ==  \* deletes the claim of a running row, after it has marked it gone
    /\ stop[s] = "deleting"
    /\ \E o \in Outcomes(s \in hungUp) :
         IF s \in refRead /\ row[s[1]] = "running"
         THEN DestroyClaim(s[1], o) /\ Charge(s \in hungUp, o)
         ELSE UNCHANGED <<claim, faults>>
    /\ stop' = [stop EXCEPT ![s] = "done"]
    /\ UNCHANGED <<create, refRead, hungUp, ownerless, row, podVars, recVars, crashes>>

\* destroyClaim with the request's context and whatever ref was read, then 204.
StopDelete(s) ==
    /\ stop[s] = "deleting"
    /\ \E o \in Outcomes(s \in hungUp) :
         IF s \in refRead
         THEN DestroyClaim(s[1], o) /\ Charge(s \in hungUp, o)
         ELSE UNCHANGED <<claim, faults>>
    /\ stop' = [stop EXCEPT ![s] = "done"]
    /\ UNCHANGED <<create, refRead, hungUp, ownerless, row, podVars, recVars, crashes>>

\* The client of a request in flight disconnects: its context is cancelled.
HangUp(h) ==
    /\ \/ h \in Sandboxes /\ create[h] \in CreateInFlight
       \/ h \in Stops /\ stop[h] \in StopInFlight
    /\ h \notin hungUp
    /\ Cardinality(hungUp) < MaxHangups
    /\ hungUp' = hungUp \cup {h}
    /\ UNCHANGED <<handlerVars, ownerless, row, claim, podVars, recVars, faults, crashes>>

\* An administrator deletes the user, whose sandboxes, one after the other here, stay
\* without an owner; requests of the user in flight go on.
DeleteOwner(r) ==
    /\ create[r] # "new" /\ r \notin ownerless
    /\ Cardinality(ownerless) < MaxDeletions
    /\ ownerless' = ownerless \cup {r}
    /\ UNCHANGED <<handlerVars, hungUp, row, claim, podVars, recVars, faults, crashes>>

-----------------------------------------------------------------------------
(* reconcileOnce: the rows first, then the claims, then one UPDATE a row.  *)

\* A query that fails, like no running row at all, leaves the next tick to try.
RecRead ==
    /\ rec = "idle"
    /\ \E r \in Sandboxes : row[r] = "running"
    /\ entries' = {r \in Sandboxes : row[r] = "running"}
    /\ rec' = "read"
    /\ UNCHANGED <<handlerVars, hungUp, ownerless, row, claim, podVars, faults, crashes>>

MutRecList ==  \* takes every claim for missing
    /\ rec = "read"
    /\ rec' = "updating" /\ entries' = entries
    /\ UNCHANGED <<handlerVars, hungUp, ownerless, row, claim, podVars, faults, crashes>>

\* Keep the rows whose claim is not in the list; give the round up if List fails.
RecList ==
    /\ rec = "read"
    /\ \E o \in Outcomes(FALSE) :
         LET missing == {e \in entries : ~Exists(e)} IN
         /\ entries' = IF o = "ok" THEN missing ELSE {}
         /\ rec' = IF o = "ok" /\ missing # {} THEN "updating" ELSE "idle"
         /\ Charge(FALSE, o)
    /\ UNCHANGED <<handlerVars, hungUp, ownerless, row, claim, podVars, crashes>>

MutRecUpdate(e) ==  \* leaves the loop before the UPDATE of the last row
    /\ rec = "updating"
    /\ e \in entries
    /\ entries' = entries \ {e}
    /\ IF entries' = {} THEN rec' = "idle" /\ UNCHANGED <<row, faults>>
       ELSE rec' = rec /\ \E o \in Outcomes(FALSE) : MarkGone(e, o) /\ Charge(FALSE, o)
    /\ UNCHANGED <<handlerVars, hungUp, ownerless, claim, podVars, crashes>>

\* One iteration of the last loop; a failed UPDATE waits for the next round.
RecUpdate(e) ==
    /\ rec = "updating"
    /\ e \in entries
    /\ \E o \in Outcomes(FALSE) : MarkGone(e, o) /\ Charge(FALSE, o)
    /\ entries' = entries \ {e}
    /\ rec' = IF entries' = {} THEN "idle" ELSE rec
    /\ UNCHANGED <<handlerVars, hungUp, ownerless, claim, podVars, crashes>>

\* The process dies and restarts: every handler and the round under way are lost.
Crash ==
    /\ crashes < MaxCrashes
    /\ crashes' = crashes + 1
    /\ create' = [r \in Sandboxes |->
                    IF create[r] \in CreateInFlight THEN "crashed" ELSE create[r]]
    /\ stop' = [s \in Stops |-> IF stop[s] \in StopInFlight THEN "crashed" ELSE stop[s]]
    /\ rec' = "idle"
    /\ entries' = {}
    /\ UNCHANGED <<refRead, hungUp, ownerless, row, claim, podVars, faults>>

-----------------------------------------------------------------------------
(* agent-sandbox, and what becomes of a pod.                               *)

\* The controller adopts a warm pod for a claim, each pod for one claim only.
Bind(r, p) ==
    /\ claim[r] = "pending"
    /\ pod[p] = "warm"
    /\ \A q \in Sandboxes : boundTo[q] # p
    /\ claim' = [claim EXCEPT ![r] = "bound"]
    /\ boundTo' = [boundTo EXCEPT ![r] = p]
    /\ UNCHANGED <<handlerVars, hungUp, ownerless, row, pod, served, recVars, faults, crashes>>

\* The harness returns and the supervisor exits; the pod has succeeded.
HarnessExit(p) ==
    /\ pod[p] = "launched"
    /\ pod' = [pod EXCEPT ![p] = "exited"]
    /\ UNCHANGED <<handlerVars, hungUp, ownerless, row, claim, boundTo, served, recVars, faults, crashes>>

\* TTLSecondsAfterFinished runs out, or an operator deletes the claim.
ClaimRemoved(r) ==
    /\ Exists(r)
    /\ claim' = [claim EXCEPT ![r] = "deleted"]
    /\ UNCHANGED <<handlerVars, hungUp, ownerless, row, podVars, recVars, faults, crashes>>

\* ShutdownPolicyDelete: the pod of a deleted claim goes too.
Cascade(r) ==
    /\ claim[r] = "deleted"
    /\ boundTo[r] \in Pods
    /\ pod[boundTo[r]] # "removed"
    /\ pod' = [pod EXCEPT ![boundTo[r]] = "removed"]
    /\ UNCHANGED <<handlerVars, hungUp, ownerless, row, claim, boundTo, served, recVars, faults, crashes>>

-----------------------------------------------------------------------------
CreateStep(r) ==
    \/ CreateClaim(r) \/ PollAdopted(r) \/ PollGiveUp(r)
    \/ ClaimSupervisor(r) \/ Undo(r) \/ InsertRow(r)

StopStep(s) == StopRef(s) \/ StopMark(s) \/ StopDelete(s)

Reconcile == RecRead \/ RecList \/ (\E e \in Sandboxes : RecUpdate(e))

Next ==
    \/ \E r \in Sandboxes :
         \/ Arrive(r) \/ CreateClaim(r) \/ PollAdopted(r) \/ PollGiveUp(r)
         \/ ClaimSupervisor(r) \/ Undo(r) \/ InsertRow(r)
    \/ \E s \in Stops : StopLookup(s) \/ StopRef(s) \/ StopMark(s) \/ StopDelete(s)
    \/ \E h \in Sandboxes \cup Stops : HangUp(h)
    \/ \E r \in Sandboxes : DeleteOwner(r)
    \/ RecRead \/ RecList \/ \E e \in Sandboxes : RecUpdate(e)
    \/ Crash
    \/ \E r \in Sandboxes, p \in Pods : Bind(r, p)
    \/ \E p \in Pods : HarnessExit(p)
    \/ \E r \in Sandboxes : ClaimRemoved(r) \/ Cascade(r)

\* A call returns once its context is cancelled, which that of a request is when the
\* client leaves; only the poll's last deletion has a context of its own.  No other
\* call has a deadline: what waits for one is fair under the hypotheses of the
\* properties only.  Nothing is assumed of clients, the controller or the harness.
Fairness ==
    /\ \A r \in Sandboxes : WF_vars(r \in hungUp /\ create[r] # "polling" /\ CreateStep(r))
    /\ \A s \in Stops : WF_vars(s \in hungUp /\ StopStep(s))

Safety == Init /\ [][Next]_vars
Spec == Safety /\ Fairness

-----------------------------------------------------------------------------
(* Properties.                                                             *)

\* A row is published only for a sandbox whose own pod, the one its provider_ref
\* leads to, has accepted its /claim: nobody attaches to a pod with no session
\* or with somebody else's.
RowHasItsPod ==
    \A r \in Sandboxes : row[r] # "absent" =>
        /\ boundTo[r] \in Pods
        /\ r \in served[boundTo[r]]
        /\ \A q \in Sandboxes \ {r} : q \notin served[boundTo[r]]

\* A claim that exists while no running row of a user names it and no handler that
\* knows of it is in flight: neither a user nor the reconciler will ever delete it.
Orphan(r) ==
    /\ Exists(r)
    /\ row[r] # "running" \/ r \in ownerless
    /\ create[r] \notin CreateInFlight
    /\ \A s \in Stops : s[1] = r => stop[s] \notin StopInFlight

\* Failed calls, clients that left, and sandboxes whose user is deleted.
Disturbances == faults + Cardinality(hungUp) + Cardinality(ownerless)

\* Every early return undoes what was done before it: as long as the process
\* lives, a claim is orphaned only by a call that failed, a client that left or a
\* user who was deleted, and each of those orphans one claim at most.
LeaksAreAccountedFor ==
    crashes = 0 => Cardinality({r \in Sandboxes : Orphan(r)}) <= Disturbances

\* A request whose calls all return, whatever they answer, ends: the poll has a
\* deadline, and no handler waits for another.
EveryRequestEnds ==
    /\ \A r \in Sandboxes : WF_vars(CreateStep(r)) =>
         (create[r] \in CreateInFlight ~> create[r] \notin CreateInFlight)
    /\ \A s \in Stops : WF_vars(StopStep(s)) =>
         (stop[s] \in StopInFlight ~> stop[s] \notin StopInFlight)

\* One whose client has left ends though the pod or a service may never answer: every
\* call that is left to make has the request's context.  Not so in the poll, which
\* deletes the claim under a context of its own.
AbandonedRequestsEnd ==
    /\ \A r \in Sandboxes : (create[r] \in CreateInFlight \ {"polling"} /\ r \in hungUp)
         ~> create[r] \notin CreateInFlight
    /\ \A s \in Stops : (stop[s] \in StopInFlight /\ s \in hungUp) ~> stop[s] \notin StopInFlight

\* Once its claim is gone a running row is marked gone, across failed rounds,
\* crashes and stops that did half their work, if the reconciler's calls return.
DeadRowsAreRetired ==
    WF_vars(Reconcile) =>
        \A r \in Sandboxes : (row[r] = "running" /\ claim[r] = "deleted") ~> row[r] = "gone"

\* docs/docs/api/sandboxes.md: DELETE deletes the SandboxClaim; so after a 204
\* the claim is gone.
StopDeletesTheClaim ==
    \A s \in Stops : stop[s] = "done" => ~Exists(s[1])

\* A stop whose client, still a user, has waited for its 204, and that has left the claim.
Missed(s) == s \notin hungUp /\ s[1] \notin ownerless /\ stop[s] = "done" /\ Exists(s[1])

\* Each failed call makes one stop at most leave its claim: a client that waits for
\* its 204 while no call fails and nobody deletes its user finds the claim deleted,
\* whichever creates, stops, rounds of the reconciler and restarts come between the
\* steps of its request.
StopsAreAccountedFor == Cardinality({s \in Stops : Missed(s)}) <= faults

-----------------------------------------------------------------------------
(* The inductive invariant behind RowHasItsPod, LeaksAreAccountedFor,        *)
(* StopsAreAccountedFor and ImplementsContract.                              *)

\* A claim has a pod from its binding on, and no two claims have the same.
BindingInv ==
    /\ \A r \in Sandboxes : claim[r] \in {"none", "pending"} => boundTo[r] = NoPod
    /\ \A r \in Sandboxes : claim[r] = "bound" => boundTo[r] \in Pods
    /\ \A r, q \in Sandboxes : boundTo[r] = boundTo[q] /\ boundTo[r] # NoPod => r = q
    /\ \A p \in Pods : \A r \in served[p] : boundTo[r] = p

\* What a create handler has done by the time it stands where it stands.
HandlerInv ==
    \A r \in Sandboxes :
        /\ create[r] \in {"new", "rejected", "creating"} => claim[r] = "none"
        /\ create[r] \in {"adopted", "undoing", "inserting"} => boundTo[r] \in Pods
        /\ create[r] \in CreateInFlight \cup {"new"} => row[r] = "absent"
        /\ create[r] = "inserting" \/ row[r] # "absent" =>
             boundTo[r] \in Pods /\ r \in served[boundTo[r]]

\* Rows are read before claims, so a claim missing from the list was deleted.
ReconcilerInv ==
    /\ \A e \in entries : row[e] # "absent"
    /\ rec = "updating" => \A e \in entries : claim[e] = "deleted"

\* Only a stop that found the row goes on.
StopInv == \A s \in Stops : stop[s] \notin {"new", "rejected"} => row[s[1]] # "absent"

\* The stops beyond their reading of the provider_ref.
PastRead == {"marking", "deleting"}

\* r has had its failed call, disconnect or deletion: its user is deleted, the client of
\* its create or of a stop has left, or with its claim still there the create has
\* failed or a stop has missed it, or is going to.
Owing(r) ==
    \/ r \in hungUp \/ r \in ownerless \/ \E s \in Stops : s[1] = r /\ s \in hungUp
    \/ Exists(r) /\ create[r] = "failed" /\ row[r] = "absent"
    \/ Exists(r) /\ \E s \in Stops :
         s[1] = r /\ (stop[s] = "done" \/ (stop[s] \in PastRead /\ s \notin refRead))

\* Without a restart no handler is lost, and only a stop has marked the row of a claim
\* that exists.
UndisturbedInv ==
    crashes = 0 =>
        /\ \A r \in Sandboxes :
             /\ create[r] # "crashed" /\ (create[r] = "answered" => row[r] # "absent")
             /\ row[r] = "gone" /\ Exists(r) =>
                  \E s \in Stops : s[1] = r /\ stop[s] \in {"deleting", "done"}
        /\ \A s \in Stops : stop[s] # "crashed"

\* Those who owe were charged, one disturbance each.
DebtInv ==
    /\ IsFiniteSet(hungUp) /\ IsFiniteSet(ownerless)
    /\ crashes = 0 =>
         /\ IsFiniteSet({r \in Sandboxes : Owing(r)})
         /\ Cardinality({r \in Sandboxes : Owing(r)}) <= Disturbances

\* s has missed its claim, or is going to because it has read no provider_ref.
Missing(s) ==
    /\ s \notin hungUp /\ s[1] \notin ownerless /\ Exists(s[1])
    /\ stop[s] = "done" \/ (stop[s] \in PastRead /\ s \notin refRead)

\* Each of those was charged a failed call.
MissedInv ==
    /\ IsFiniteSet({s \in Stops : Missing(s)})
    /\ Cardinality({s \in Stops : Missing(s)}) <= faults

IInv == /\ TypeOK /\ BindingInv /\ HandlerInv /\ ReconcilerInv /\ StopInv
        /\ UndisturbedInv /\ DebtInv /\ MissedInv

-----------------------------------------------------------------------------
(* What a client may rely on, and the state that realises it.              *)

Launched(r) == \E p \in Pods : r \in served[p]

listedAs == [r \in Sandboxes |-> IF row[r] = "absent" THEN "no" ELSE row[r]]
sessionOf == [r \in Sandboxes |->
    IF claim[r] = "deleted" THEN "over" ELSE IF Launched(r) THEN "live" ELSE "unborn"]
beingStopped == {r \in Sandboxes :
    \E s \in Stops : s[1] = r /\ stop[s] \notin {"new", "rejected"}}

Contract == INSTANCE SandboxContract
    WITH listed <- listedAs, session <- sessionOf, leaving <- beingStopped

\* The handlers, the reconciler and every failure between them implement the
\* contract: in particular a row goes from running to gone only if its claim is
\* deleted or a stop of it was accepted, and no row is listed before its launch.
ImplementsContract == Contract!Spec
=============================================================================
