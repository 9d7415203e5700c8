--------------------------- MODULE SandboxContract ---------------------------
(***************************************************************************)
(* What the control plane promises of a sandbox, whatever fails: it is     *)
(* listed only once its session has started, it stays listed while the     *)
(* session may live and nobody asked to stop it, and it never comes back.  *)
(* SandboxLifecycle implements this.                                       *)
(***************************************************************************)
CONSTANT Sandboxes

VARIABLES
    listed,    \* what GET /v1/sandboxes/{id} says: "no", "running", "gone"
    session,   \* "unborn", "live", "over" when the claim is deleted
    leaving    \* the sandboxes somebody asked to stop

vars == <<listed, session, leaving>>

Init ==
    /\ listed = [r \in Sandboxes |-> "no"]
    /\ session = [r \in Sandboxes |-> "unborn"]
    /\ leaving = {}

Start(r) ==
    /\ session[r] = "unborn"
    /\ session' = [session EXCEPT ![r] = "live"]
    /\ UNCHANGED <<listed, leaving>>

\* The claim goes, whether or not the session ever started under it.
Finish(r) ==
    /\ session[r] # "over"
    /\ session' = [session EXCEPT ![r] = "over"]
    /\ UNCHANGED <<listed, leaving>>

Publish(r) ==
    /\ listed[r] = "no"
    /\ session[r] # "unborn"
    /\ listed' = [listed EXCEPT ![r] = "running"]
    /\ UNCHANGED <<session, leaving>>

AskToStop(r) ==
    /\ listed[r] # "no"
    /\ leaving' = leaving \cup {r}
    /\ UNCHANGED <<listed, session>>

Retire(r) ==
    /\ listed[r] = "running"
    /\ session[r] = "over" \/ r \in leaving
    /\ listed' = [listed EXCEPT ![r] = "gone"]
    /\ UNCHANGED <<session, leaving>>

Next == \E r \in Sandboxes :
    Start(r) \/ Finish(r) \/ Publish(r) \/ AskToStop(r) \/ Retire(r)

Spec == Init /\ [][Next]_vars
=============================================================================
