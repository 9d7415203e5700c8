------------------------------- MODULE CliRun -------------------------------
(***************************************************************************)
(* A run of the command from its flags: `sandlock create` with its         *)
(* repository, which --select-repo picks (RepoPicker) before the request   *)
(* of CliSession is sent, and the clone in the pod that the request leads  *)
(* to, while the command goes on.                                          *)
(***************************************************************************)
EXTENDS CliSession, RepoPicker

CONSTANT WithRepo  \* the commands whose repository is looked at

runVars == <<allVars, pickVars>>

RunInit ==
    /\ CliInit /\ PickInit
    /\ cmd \notin WithRepo => pick = "off" /\ ~repo /\ branch = "none" /\ listing = <<Default>>

\* The main goroutine is in --select-repo.
SelectRepo ==
    /\ exit = "no" /\ main = "start"
    /\ Picking
    /\ UNCHANGED allVars

\* The errors of --select-repo end the command before the request.
NothingPicked ==
    /\ exit = "no" /\ main = "start" /\ pick = "over"
    /\ exit' = "return"
    /\ UNCHANGED <<vars, cmd, main, rmSig, attachSig, tty, conn, asked, pickVars>>

\* The request carries what was picked; a pod is claimed with it.
Request ==
    /\ pick \in {"off", "picked"}
    /\ Create
    /\ IF main' = "created" THEN Order ELSE UNCHANGED pickVars

RunMain ==
    \/ NothingPicked \/ Request
    \/ AfterCreate /\ UNCHANGED pickVars

\* A picker takes the signals itself.
RunSignal == pick \notin Pickers /\ Signal

Elsewhere == (GitHub \/ Pod) /\ UNCHANGED allVars

RunNext ==
    \/ RunMain \/ SelectRepo \/ Elsewhere
    \/ (Keyboard \/ Lose \/ RunSignal \/ RmHandler \/ AttachHandler \/ Hangup) /\ UNCHANGED pickVars

\* As in CliSession; nothing is assumed of GitHub or of who picks.
RunSpec ==
    /\ RunInit /\ [][RunNext]_runVars
    /\ WF_runVars(RunMain)
    /\ WF_runVars(RmHandler /\ UNCHANGED pickVars)
    /\ WF_runVars(AttachHandler /\ UNCHANGED pickVars)

-----------------------------------------------------------------------------
(* Properties.                                                             *)

\* The inductive invariant of the whole: the pod works for a request that was sent,
\* so what it was asked for does not change any more.
RunInv == CliInv /\ PickInv /\ (main = "start" => work = "no")
=============================================================================
