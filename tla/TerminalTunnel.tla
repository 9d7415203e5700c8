--------------------------- MODULE TerminalTunnel ---------------------------
(***************************************************************************)
(* The path of a terminal session from the client to the pod and back: the *)
(* control plane accepts the client's WebSocket, dials the pod's and       *)
(* copies messages between the two (internal/api/sandboxes.go,             *)
(* terminalProxy and proxyWebSocket), and the pod's handler reads what the *)
(* client types into the PTY (cmd/supervisor/main.go, handleTerminalWS).   *)
(*                                                                         *)
(* Either way a message waits in the connections' buffers: WireCap holds   *)
(* what the pod wrote and the client did not get, with the message that    *)
(* the goroutine of proxyWebSocket carries; KeysCap what the client wrote  *)
(* and the pod did not read, with the one that its main loop carries.      *)
(* The network may break the proxy's connection to the pod at any time,    *)
(* with the pod and the harness running on.                                *)
(***************************************************************************)
EXTENDS Terminal

CONSTANTS WireCap,  \* messages between the pod and the client
          KeysCap,  \* messages between the client and the pod
          PtyCap    \* messages that the PTY holds until the harness reads them

ASSUME WiresAssumption == {WireCap, KeysCap, PtyCap} \subseteq Nat \ {0}

VARIABLES
    link,     \* proxyWebSocket, for each client: "none", "dialing", "open", "broken" (no
              \* longer connected to the pod), "closing" (main loop returned), "closed"
    got,      \* how many of the pod's messages the client has
    told,     \* how its connection ended
    gone,     \* the clients that closed theirs, or lost it
    keys,     \* messages on their way to the pod
    writing,  \* the pod handlers that are in ptmx.Write
    typed     \* messages that the harness has not read

tunnelVars == <<link, got, told, gone, keys, writing, typed>>
allVars == <<vars, tunnelVars>>

TunnelTypeOK ==
    /\ link \in [Clients -> {"none", "dialing", "open", "broken", "closing", "closed"}]
    /\ got \in [Clients -> Nat]
    /\ told \in [Clients -> {"nothing", "unreachable", "ended", "dropped"}]
    /\ gone \subseteq Clients /\ writing \subseteq Clients
    /\ keys \in [Clients -> 0..KeysCap]
    /\ typed \in 0..PtyCap

TunnelInit ==
    /\ Init
    /\ link = [c \in Clients |-> "none"]
    /\ got = [c \in Clients |-> 0]
    /\ told = [c \in Clients |-> "nothing"]
    /\ gone = {} /\ writing = {}
    /\ keys = [c \in Clients |-> 0]
    /\ typed = 0

\* The messages that the pod wrote: an empty scrollback is not sent.
Written(c) == Len(tail[c]) + IF replay[c].last < replay[c].first THEN 0 ELSE 1

Room(c) == Written(c) - got[c] < WireCap

-----------------------------------------------------------------------------
(* proxyWebSocket.                                                         *)

\* The client is accepted, once its sandbox is found and has an address.
Accept(c) ==
    /\ link[c] = "none"
    /\ link' = [link EXCEPT ![c] = "dialing"]
    /\ UNCHANGED <<vars, got, told, gone, keys, writing, typed>>

Dial(c) ==
    /\ link[c] = "dialing"
    /\ \/ Connect(c) /\ link' = [link EXCEPT ![c] = "open"] /\ UNCHANGED told
       \/ /\ link' = [link EXCEPT ![c] = "closed"]
          /\ told' = [told EXCEPT ![c] = "unreachable"]
          /\ UNCHANGED vars
    /\ UNCHANGED <<got, gone, keys, writing, typed>>

\* The client's connection is closed, with a reason or without one.
Close(c, how) ==
    /\ link' = [link EXCEPT ![c] = "closed"]
    /\ told' = [told EXCEPT ![c] = IF c \in gone THEN "nothing" ELSE how]
    /\ UNCHANGED <<vars, got, gone, keys, writing, typed>>

\* The connection to the pod is reset or cut off, with some of what was on its way.
Reset(c) ==
    /\ link[c] = "open"
    /\ link' = [link EXCEPT ![c] = "broken"]
    /\ \E left \in 0..keys[c] : keys' = [keys EXCEPT ![c] = left]
    /\ UNCHANGED <<vars, got, told, gone, writing, typed>>

\* pod to client: one message, or one that was received before the reset.
Deliver(c) ==
    /\ link[c] \in {"open", "broken"} /\ got[c] < Written(c) /\ c \notin gone
    /\ got' = [got EXCEPT ![c] = @ + 1]
    /\ UNCHANGED <<vars, link, told, gone, keys, writing, typed>>

MutPodReadFails(c) ==  \* does not read on to the close frame
    /\ link[c] = "open" /\ (stage[c] \in {"ended", "refused", "left"} \/ ~alive)
    /\ Close(c, "ended")

\* pod.Read fails: at the pod's close frame, behind all that it wrote, or when
\* the pod, its handler or the connection is gone, and then with what was still
\* on its way.  Whatever the reason, the goroutine says that the session ended.
PodReadFails(c) ==
    /\ \/ /\ link[c] = "open"
          /\ \/ stage[c] \in {"ended", "refused"} /\ got[c] = Written(c)
             \/ stage[c] = "left" \/ ~alive
       \/ link[c] = "broken"
    /\ Close(c, "ended")

\* The main loop returns ...
Return(c) ==
    /\ link' = [link EXCEPT ![c] = "closing"]
    /\ UNCHANGED <<vars, got, told, gone, keys, writing, typed>>

\* ... when client.Read fails, once the message before was written to the pod, or
\* client.Write does and cancels the context ...
ClientFails(c) ==
    /\ link[c] \in {"open", "broken"} /\ c \in gone
    /\ keys[c] < KeysCap \/ got[c] < Written(c)
    /\ Return(c)

\* ... or when pod.Write fails, for the message that the loop carries or one that
\* the client still sends: what the pod wrote before it ended is lost.
PodWriteFails(c) ==
    /\ \/ link[c] = "open" /\ stage[c] \notin Attached
       \/ link[c] = "broken"
    /\ c \notin gone \/ keys[c] = KeysCap
    /\ Return(c)

\* The deferred calls close the pod's connection first: the goroutine's pod.Read
\* fails, and its last word races with the closing of the client's connection.
CloseBoth(c) ==
    /\ link[c] = "closing"
    /\ Close(c, "ended") \/ Close(c, "dropped")

\* The control plane restarts.
ProxyDies(c) ==
    /\ link[c] \in {"dialing", "open", "broken", "closing"}
    /\ Close(c, "dropped")

-----------------------------------------------------------------------------
(* The client.                                                             *)

\* A resize, which attach sends first, or a keystroke.
Type(c) ==
    /\ link[c] = "open" /\ c \notin gone
    /\ keys[c] < KeysCap
    /\ keys' = [keys EXCEPT ![c] = @ + 1]
    /\ UNCHANGED <<vars, link, got, told, gone, writing, typed>>

\* It detaches, or its connection is lost.
ClientLeaves(c) ==
    /\ link[c] \in {"dialing", "open", "broken"} /\ c \notin gone
    /\ gone' = gone \cup {c}
    /\ UNCHANGED <<vars, link, got, told, keys, writing, typed>>

-----------------------------------------------------------------------------
(* The pod's side of the connection.                                       *)

\* conn.Read: the first message is awaited before the replay ...
TunnelReplay(c) ==
    /\ keys[c] > 0
    /\ Replay(c)
    /\ keys' = [keys EXCEPT ![c] = @ - 1]
    /\ UNCHANGED <<link, got, told, gone, writing, typed>>

\* ... a later resize is applied at once, and keystrokes are written to the PTY,
\* which takes them as long as it has room, or refuses them when the harness is
\* gone.
ReadKeys(c) ==
    /\ alive /\ stage[c] = "live" /\ c \notin writing /\ keys[c] > 0
    /\ keys' = [keys EXCEPT ![c] = @ - 1]
    /\ writing' \in {writing, writing \cup {c}}
    /\ UNCHANGED <<vars, link, got, told, gone, typed>>

WriteKeys(c) ==
    /\ alive /\ c \in writing
    /\ IF harness = "running"
       THEN typed < PtyCap /\ typed' = typed + 1
       ELSE UNCHANGED typed
    /\ writing' = writing \ {c}
    /\ UNCHANGED <<vars, link, got, told, gone, keys>>

HarnessReads ==
    /\ alive /\ harness = "running" /\ typed > 0
    /\ typed' = typed - 1
    /\ UNCHANGED <<vars, link, got, told, gone, keys, writing>>

\* A message of more than 32 KB: the pod's side of the connection kept the limit
\* that both sides of the proxy raise, conn.Read fails and the handler returns.
ReadTooLong(c) ==
    /\ link[c] = "open" /\ c \notin writing /\ keys[c] > 0
    /\ keys' = [keys EXCEPT ![c] = @ - 1]
    /\ Leave(c)
    /\ UNCHANGED <<link, got, told, gone, writing, typed>>

\* conn.Write waits until there is room in the connection.
TunnelForward(c) ==
    /\ link[c] = "open" /\ Room(c)
    /\ Forward(c)
    /\ UNCHANGED tunnelVars

MutTunnelLeave(c) ==  \* a handler that only waits for output does not notice
    /\ link[c] \in {"broken", "closing", "closed"} /\ c \notin writing
    /\ queue[c] # <<>>
    /\ Leave(c)
    /\ UNCHANGED tunnelVars

\* conn.Read fails when all that came before is read, and so does it when
\* conn.Write has failed; a handler in ptmx.Write notices neither.
TunnelLeave(c) ==
    /\ link[c] \in {"broken", "closing", "closed"} /\ c \notin writing
    /\ keys[c] = 0 \/ queue[c] # <<>> \/ c \in shut
    /\ Leave(c)
    /\ UNCHANGED tunnelVars

-----------------------------------------------------------------------------
Supervisor ==
    /\ \/ Claim \/ Decode \/ Stop
       \/ StartHarness \/ Output \/ EndHarness \/ ReadPty \/ Exit
    /\ UNCHANGED tunnelVars

\* The goroutine of handleTerminalWS, once the pod has the connection.
Handler(c) == \/ (GiveUpWaiting(c) \/ Subscribe(c)) /\ UNCHANGED tunnelVars
              \/ TunnelReplay(c) \/ ReadKeys(c) \/ WriteKeys(c)
              \/ ReadTooLong(c) \/ TunnelLeave(c)

\* Those of proxyWebSocket, as far as they do not wait for the client: the
\* goroutine reads when it has written what it carries, and the loop writes when
\* it carries something.
Proxy(c) ==
    \/ Dial(c) \/ ClientFails(c) \/ CloseBoth(c)
    \/ got[c] = Written(c) /\ PodReadFails(c)
    \/ keys[c] = KeysCap /\ PodWriteFails(c)

TunnelNext ==
    \/ Supervisor \/ HarnessReads
    \/ \E c \in Clients :
         \/ Accept(c) \/ Dial(c) \/ Deliver(c) \/ Reset(c)
         \/ PodReadFails(c) \/ ClientFails(c) \/ PodWriteFails(c) \/ CloseBoth(c)
         \/ ProxyDies(c)
         \/ Handler(c) \/ TunnelForward(c)
         \/ Type(c) \/ ClientLeaves(c)

\* The goroutines of the supervisor and of the proxy run, as far as nobody holds
\* them up; both ends notice a connection that is gone (TCP's keep-alive, which Go
\* turns on).  No client is assumed to read, nor the harness to read its input.
TunnelSpec ==
    /\ TunnelInit /\ [][TunnelNext]_allVars
    /\ WF_allVars(ReadPty /\ UNCHANGED tunnelVars)
    /\ \A c \in Clients :
         /\ WF_allVars(Proxy(c)) /\ WF_allVars(Handler(c)) /\ WF_allVars(TunnelForward(c))

-----------------------------------------------------------------------------
(* Properties.                                                             *)

\* The chunks that the client has: of the replay, and of what came after it.
Seen(c) ==
    IF got[c] = 0 THEN {}
    ELSE LET first == replay[c].first..replay[c].last
         IN  first \cup {tail[c][i] : i \in 1..got[c] - (IF first = {} THEN 0 ELSE 1)}

\* "sandbox session ended" (sandboxes.go, proxyWebSocket) is what a client is told
\* whatever made pod.Read fail.  While the pod is there, who is told it has all that
\* the harness printed from its replay on, to the last chunk, but in five ways: the
\* connection to the pod was reset; the main loop had returned, for a client that
\* left or a message that the pod took no more, and pod.CloseNow came first; no
\* terminal came in time; a message was too long; or a full channel lost some.
TheEndComesLast ==
    [][\A c \in Clients :
         told[c] = "nothing" /\ told'[c] = "ended" /\ alive =>
             \/ link[c] \in {"broken", "closing"}
             \/ stage[c] \in {"refused", "left"} \/ c \in dropped
             \/ harness = "exited" /\ replay[c].first..produced \subseteq Seen(c)]_allVars

\* A client that waits for a terminal is let in or told that there is none,
\* though the launch may have failed, or no claim ever come.
EveryClientIsAnswered ==
    \A c \in Clients :
        link[c] = "dialing" ~> \/ stage[c] \in {"subscribed", "live"} \/ told[c] # "nothing"
                               \/ c \in gone

\* The clients read what they are sent.
ClientsRead == \A c \in Clients : WF_allVars(Deliver(c))

\* A chunk in a live client's channel reaches the client, and every live client is
\* told of the end of the session, unless its tunnel is closed before.
LiveClientsAreServed ==
    ClientsRead =>
        \A c \in Clients :
            /\ \A k \in 1..MaxChunks :
                 (stage[c] = "live" /\ k \in ToSet(queue[c])) ~> (link[c] = "closed" \/ k \in Seen(c))
            /\ (stage[c] = "live" /\ reader = "done") ~> link[c] = "closed"

\* The harness reads its input, and each handler gets its turn to write it.
HarnessListens == WF_allVars(HarnessReads) /\ \A c \in Clients : SF_allVars(WriteKeys(c))

\* A client that left leaves no tunnel and no channel behind, in whatever state it
\* has left them; a harness that does not read its input may keep both.
TunnelsEnd ==
    HarnessListens =>
        \A c \in Clients : c \in gone ~> link[c] = "closed" /\ (c \notin clients \/ ~alive)

\* A tunnel is open from the pod's accept on; who is told has none any more; a
\* client has no more than the pod wrote for it.
LinkInv ==
    \A c \in Clients :
        /\ link[c] \in {"none", "dialing"} => stage[c] = "new"
        /\ link[c] \in {"open", "broken", "closing"} => stage[c] # "new"
        /\ told[c] # "nothing" => link[c] = "closed"
        /\ got[c] <= Written(c)
        /\ c \in writing => stage[c] \notin {"new", "waiting", "refused", "subscribed", "left"}

\* The inductive invariant behind TheEndComesLast.
TunnelInv == IInv /\ TunnelTypeOK /\ LinkInv
=============================================================================
