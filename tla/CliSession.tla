----------------------------- MODULE CliSession -----------------------------
(***************************************************************************)
(* One run of `sandlock create` or `sandlock attach`, from the request to  *)
(* the end of the process (cmd/sandlock/cmd/create.go and attach.go).      *)
(* Besides the main goroutine there are the one that reads the connection, *)
(* the one that reads the keyboard (AttachInput), and one for each of the  *)
(* two places that ask for SIGINT and SIGTERM: attach, and create --rm.    *)
(* Go hands a signal to both, and either ends the process.                 *)
(***************************************************************************)
EXTENDS AttachInput

VARIABLES
    cmd,        \* the command; -d takes precedence over --rm
    main,       \* where the main goroutine stands
    rmSig,      \* the handler that create --rm installs
    attachSig,  \* the one that attach installs
    tty,        \* the local terminal: "cooked" or "raw"
    conn,       \* the WebSocket: "none", "open", "lost", "closed"
    asked,      \* DELETE /v1/sandboxes/{id} was sent
    exit        \* what ended the process; "no" while it runs

cliVars == <<cmd, main, rmSig, attachSig, tty, conn, asked, exit>>
allVars == <<vars, cliVars>>

Commands == {"create", "create -d", "create --rm", "attach"}
MainStages == {"start", "created", "dialing", "dialed", "raw", "select", "leaving", "removing", "removed"}
RmStages == {"off", "armed", "got", "asked"}
AttachStages == {"off", "armed", "got", "restored"}
Connections == {"none", "open", "lost", "closed"}
Ends == {"no", "return", "killed", "hangup", "attach handler", "rm handler"}

\* A detached create attaches nothing, and only --rm has a handler of its own.
CliTypeOK ==
    /\ cmd \in Commands /\ main \in MainStages
    /\ rmSig \in RmStages /\ attachSig \in AttachStages
    /\ tty \in {"cooked", "raw"} /\ conn \in Connections
    /\ asked \in BOOLEAN /\ exit \in Ends
    /\ cmd = "create -d" => main \in {"start", "created"}
    /\ rmSig # "off" => cmd = "create --rm"

CliInit ==
    /\ Init
    /\ cmd \in Commands
    /\ main = IF cmd = "attach" THEN "dialing" ELSE "start"
    /\ rmSig = "off" /\ attachSig = "off"
    /\ tty = "cooked" /\ conn = "none"
    /\ asked = FALSE /\ exit = "no"

-----------------------------------------------------------------------------
(* The main goroutine.                                                     *)

\* POST /v1/sandboxes; without a 201 the command is over.
Create ==
    /\ exit = "no" /\ main = "start"
    /\ \/ main' = "created" /\ UNCHANGED exit
       \/ exit' = "return" /\ UNCHANGED main
    /\ UNCHANGED <<vars, cmd, rmSig, attachSig, tty, conn, asked>>

\* -d prints the id and returns; --rm asks for the signals first.
Created ==
    /\ exit = "no" /\ main = "created"
    /\ IF cmd = "create -d"
       THEN exit' = "return" /\ UNCHANGED <<main, rmSig>>
       ELSE /\ main' = "dialing"
            /\ rmSig' = IF cmd = "create --rm" THEN "armed" ELSE rmSig
            /\ UNCHANGED exit
    /\ UNCHANGED <<vars, cmd, attachSig, tty, conn, asked>>

Dial ==
    /\ exit = "no" /\ main = "dialing"
    /\ \/ main' = "dialed" /\ conn' = "open"
       \/ main' = "leaving" /\ UNCHANGED conn
    /\ UNCHANGED <<vars, cmd, rmSig, attachSig, tty, asked, exit>>

MakeRaw ==
    /\ exit = "no" /\ main = "dialed"
    /\ \/ main' = "raw" /\ tty' = "raw"
       \/ main' = "leaving" /\ UNCHANGED tty
    /\ UNCHANGED <<vars, cmd, rmSig, attachSig, conn, asked, exit>>

\* signal.Notify and the three goroutines.
Listen ==
    /\ exit = "no" /\ main = "raw"
    /\ main' = "select"
    /\ attachSig' = "armed"
    /\ UNCHANGED <<vars, cmd, rmSig, tty, conn, asked, exit>>

MutSelect ==  \* waits for the connection only
    /\ exit = "no" /\ main = "select" /\ conn = "lost"
    /\ main' = "leaving" /\ tty' = "cooked"
    /\ UNCHANGED <<vars, cmd, rmSig, attachSig, conn, asked, exit>>

\* done or detach.
Select ==
    /\ exit = "no" /\ main = "select" /\ (conn = "lost" \/ mode = "detached")
    /\ main' = "leaving" /\ tty' = "cooked"
    /\ UNCHANGED <<vars, cmd, rmSig, attachSig, conn, asked, exit>>

MutLeave ==  \* an attach that failed ends the command
    /\ exit = "no" /\ main = "leaving"
    /\ tty' = "cooked" /\ conn' = "closed"
    /\ IF cmd = "create --rm" /\ conn # "none"
       THEN main' = "removing" /\ UNCHANGED exit
       ELSE exit' = "return" /\ UNCHANGED main
    /\ UNCHANGED <<vars, cmd, rmSig, attachSig, asked>>

\* The deferred calls of attach, whether it failed or not.
Leave ==
    /\ exit = "no" /\ main = "leaving"
    /\ tty' = "cooked" /\ conn' = "closed"
    /\ IF cmd = "create --rm"
       THEN main' = "removing" /\ UNCHANGED exit
       ELSE exit' = "return" /\ UNCHANGED main
    /\ UNCHANGED <<vars, cmd, rmSig, attachSig, asked>>

\* stopSandbox sends its request, and returns with any answer or none.
RemoveSandbox ==
    /\ exit = "no"
    /\ \/ /\ main = "removing"
          /\ main' = "removed" /\ asked' = TRUE
          /\ UNCHANGED exit
       \/ /\ main = "removed"
          /\ exit' = "return"
          /\ UNCHANGED <<main, asked>>
    /\ UNCHANGED <<vars, cmd, rmSig, attachSig, tty, conn>>

-----------------------------------------------------------------------------
(* The other goroutines.                                                   *)

\* The keyboard goroutine, which outlives the select.
Keyboard ==
    /\ exit = "no" /\ attachSig # "off"
    /\ Next
    /\ UNCHANGED cliVars

\* The harness exits, the pod is deleted, or the network fails.
Lose ==
    /\ exit = "no" /\ conn = "open"
    /\ conn' = "lost"
    /\ UNCHANGED <<vars, cmd, main, rmSig, attachSig, tty, asked, exit>>

\* SIGINT or SIGTERM: a handler takes one, and one more than that has no effect.
Signal ==
    /\ exit = "no"
    /\ IF rmSig = "off" /\ attachSig = "off"
       THEN exit' = "killed" /\ UNCHANGED <<rmSig, attachSig>>
       ELSE /\ rmSig' = IF rmSig = "armed" THEN "got" ELSE rmSig
            /\ attachSig' = IF attachSig = "armed" THEN "got" ELSE attachSig
            /\ UNCHANGED exit
    /\ UNCHANGED <<vars, cmd, main, tty, conn, asked>>

\* stopSandbox, then os.Exit: the terminal is left as it is.
RmHandler ==
    /\ exit = "no"
    /\ \/ /\ rmSig = "got"
          /\ rmSig' = "asked" /\ asked' = TRUE
          /\ UNCHANGED exit
       \/ /\ rmSig = "asked"
          /\ exit' = "rm handler"
          /\ UNCHANGED <<rmSig, asked>>
    /\ UNCHANGED <<vars, cmd, main, attachSig, tty, conn>>

MutAttachHandler ==  \* leaves the terminal to the deferred call
    /\ exit = "no" /\ attachSig = "got"
    /\ exit' = "attach handler"
    /\ UNCHANGED <<vars, cmd, main, rmSig, attachSig, tty, conn, asked>>

\* term.Restore, then os.Exit, which runs no deferred call.
AttachHandler ==
    /\ exit = "no"
    /\ \/ /\ attachSig = "got"
          /\ attachSig' = "restored" /\ tty' = "cooked"
          /\ UNCHANGED exit
       \/ /\ attachSig = "restored"
          /\ exit' = "attach handler"
          /\ UNCHANGED <<attachSig, tty>>
    /\ UNCHANGED <<vars, cmd, main, rmSig, conn, asked>>

\* The terminal window is closed: nobody asks for SIGHUP.
Hangup ==
    /\ exit = "no"
    /\ exit' = "hangup"
    /\ UNCHANGED <<vars, cmd, main, rmSig, attachSig, tty, conn, asked>>

AfterCreate == Created \/ Dial \/ MakeRaw \/ Listen \/ Select \/ Leave \/ RemoveSandbox
Main == Create \/ AfterCreate

CliNext == Main \/ Keyboard \/ Lose \/ Signal \/ RmHandler \/ AttachHandler \/ Hangup

\* The goroutines run and requests are answered, or fail; nothing is assumed of
\* the user, of signals or of the connection.
CliSpec ==
    /\ CliInit /\ [][CliNext]_allVars
    /\ WF_allVars(Main)
    /\ WF_allVars(RmHandler) /\ WF_allVars(AttachHandler)

-----------------------------------------------------------------------------
(* Properties.                                                             *)

\* A --rm that has its sandbox ends without asking for its removal in three ways
\* only: the terminal is closed, attach's signal handler is the first to exit, or a
\* signal comes before --rm asks for them.  A detach, a lost connection, an attach
\* that failed and a signal that --rm's handler answers all leave none behind.
RmCleansUp ==
    exit # "no" /\ cmd = "create --rm" /\ main # "start" /\ ~asked =>
        exit \in {"hangup", "attach handler"} \/ (exit = "killed" /\ main = "created")

\* docs/docs/cli/attach.md: a signal restores the terminal, and so does every
\* end of attach.  A process leaves it raw only in three ways: the terminal is
\* closed, --rm's handler is the first to exit, or a signal comes between
\* MakeRaw and Notify.
TerminalIsGivenBack ==
    exit # "no" /\ tty = "raw" =>
        exit \in {"hangup", "rm handler"} \/ (exit = "killed" /\ main = "raw")

\* A detach, a lost connection and a signal that was asked for end the command,
\* whatever the others do meanwhile.
SessionsEnd ==
    /\ (attachSig # "off" /\ (mode = "detached" \/ conn = "lost")) ~> exit # "no"
    /\ (rmSig = "got" \/ attachSig = "got") ~> exit # "no"

\* The terminal is raw from MakeRaw to the select, unless the handler restores it.
TtyInv ==
    /\ tty = "raw" => main \in {"raw", "select"}
    /\ main \notin {"select", "leaving", "removing", "removed"} => attachSig = "off"
    /\ main = "select" => attachSig # "off"
    /\ attachSig = "restored" => tty = "cooked"
    /\ cmd = "create --rm" /\ main \notin {"start", "created"} => rmSig # "off"

\* Who has passed the place where the request is sent has sent it, and each end
\* of the process is where its exit is.
ExitInv ==
    /\ main = "removed" \/ rmSig = "asked" => asked
    /\ exit = "attach handler" => attachSig = "restored"
    /\ exit = "killed" => attachSig = "off" /\ rmSig = "off"
    /\ exit = "rm handler" => rmSig = "asked"
    /\ exit = "return" => \/ main = "start" \/ main = "removed"
                          \/ main = "created" /\ cmd = "create -d"
                          \/ main = "leaving" /\ cmd # "create --rm"

\* The inductive invariant behind RmCleansUp and TerminalIsGivenBack.
CliInv == CliTypeOK /\ TtyInv /\ ExitInv

\* cmd/sandlock/cmd/create.go: "Ensure sandbox is deleted on SIGINT/SIGTERM
\* too": once --rm has asked for the signals, no signal ends the process before
\* the request is out.
RmSurvivesSignals == rmSig # "off" /\ exit # "no" /\ exit # "hangup" => asked
=============================================================================
