----------------------------- MODULE PodContract -----------------------------
(***************************************************************************)
(* What a pod of the warm pool promises the control plane: it takes one    *)
(* claim in its life, takes none once it is over, and does not come back:  *)
(* the supervisor exits with 0, after which the pod is not restarted.      *)
(* Terminal, the supervisor in the pod, implements this, and it is what    *)
(* SandboxLifecycle takes a pod to do when it posts a claim to one.        *)
(***************************************************************************)
EXTENDS Naturals

CONSTANT Pods

VARIABLES
    phase,     \* "free", "taken", "over"
    accepted   \* how many claims each pod has taken

vars == <<phase, accepted>>

Init ==
    /\ phase = [p \in Pods |-> "free"]
    /\ accepted = [p \in Pods |-> 0]

Take(p) ==
    /\ phase[p] = "free"
    /\ phase' = [phase EXCEPT ![p] = "taken"]
    /\ accepted' = [accepted EXCEPT ![p] = @ + 1]

\* The session ends, or the pod goes before it has had one.
End(p) ==
    /\ phase[p] # "over"
    /\ phase' = [phase EXCEPT ![p] = "over"]
    /\ UNCHANGED accepted

Next == \E p \in Pods : Take(p) \/ End(p)

Spec == Init /\ [][Next]_vars
=============================================================================
