------------------------------ MODULE Terminal ------------------------------
(***************************************************************************)
(* The supervisor of one pod: the claim that launches the harness behind a *)
(* PTY, the single goroutine that reads the PTY into the scrollback and    *)
(* out to the broadcaster, and one WebSocket handler for each attached     *)
(* client (cmd/supervisor/main.go).                                        *)
(*                                                                         *)
(* Output is a stream of chunks numbered from 1; a read takes one chunk.   *)
(* The scrollback keeps the last ScrollCap of them (ScrollbackRing says    *)
(* how), a subscriber's channel holds QueueCap.  How a client's messages   *)
(* come and go is the business of TerminalTunnel.                          *)
(***************************************************************************)
EXTENDS Naturals, SequencesExt

CONSTANTS Clients,     \* WebSocket connections; a reconnection is another one
          ScrollCap,   \* 256 KB in the code
          QueueCap,    \* 256 chunks in the code
          MaxChunks,   \* bound on what the harness prints
          MaxClaims    \* bound on the claims that are not refused at once

ASSUME CapsAssumption ==
    /\ ScrollCap \in Nat \ {0} /\ QueueCap \in Nat \ {0}
    /\ MaxChunks \in Nat /\ MaxClaims \in Nat

VARIABLES
    claimed,    \* supervisor.claimed
    decoding,   \* claims whose body is being decoded
    launches,   \* calls of launch
    harness,    \* "none", "failed", "running", "exited"
    produced,   \* chunks the harness has printed
    reader,     \* the PTY goroutine: "off", "reading", "sending", "done"
    n,          \* chunks written to the scrollback
    clients,    \* broadcaster.clients: the registered channels
    closed,     \* broadcaster.closed
    queue,      \* the content of each client's channel
    shut,       \* the channels that are closed
    dropped,    \* the clients that lost a chunk to a full channel
    stage,      \* where each handler stands
    replay,     \* the chunks each client was replayed: first and last
    tail,       \* the chunks each client was forwarded, in order
    alive       \* the supervisor process runs

vars == <<claimed, decoding, launches, harness, produced, reader, n, clients,
          closed, queue, shut, dropped, stage, replay, tail, alive>>
claimVars == <<claimed, decoding, launches>>
ptyVars == <<harness, produced, reader, n>>
bcastVars == <<clients, closed, queue, shut, dropped>>
clientVars == <<stage, replay, tail>>

NoReplay == [first |-> 1, last |-> 0]
Stages == {"new", "waiting", "subscribed", "live",   \* in handleTerminalWS
           "ended",     \* got the close frame "sandbox session ended"
           "refused",   \* got the close frame "not yet claimed"
           "left",      \* closed the connection itself
           "cut"}       \* lost the connection when the process exited
Attached == {"waiting", "subscribed", "live"}

TypeOK ==
    /\ claimed \in BOOLEAN /\ decoding \in 0..MaxClaims /\ launches \in 0..MaxClaims
    /\ harness \in {"none", "failed", "running", "exited"}
    /\ produced \in 0..MaxChunks
    /\ reader \in {"off", "reading", "sending", "done"}
    /\ n \in 0..produced
    /\ clients \subseteq Clients /\ shut \subseteq Clients /\ dropped \subseteq Clients
    /\ closed \in BOOLEAN /\ alive \in BOOLEAN
    /\ queue \in [Clients -> Seq(1..MaxChunks)]
    /\ \A c \in Clients : Len(queue[c]) <= QueueCap
    /\ stage \in [Clients -> Stages]
    /\ replay \in [Clients -> [first : 1..MaxChunks + 1, last : 0..MaxChunks]]
    /\ tail \in [Clients -> Seq(1..MaxChunks)]

Init ==
    /\ claimed = FALSE /\ decoding = 0 /\ launches = 0
    /\ harness = "none" /\ produced = 0 /\ reader = "off" /\ n = 0
    /\ clients = {} /\ closed = FALSE /\ shut = {} /\ dropped = {}
    /\ queue = [c \in Clients |-> <<>>]
    /\ stage = [c \in Clients |-> "new"]
    /\ replay = [c \in Clients |-> NoReplay]
    /\ tail = [c \in Clients |-> <<>>]
    /\ alive = TRUE

-----------------------------------------------------------------------------
(* The control channel.                                                    *)

MutClaim ==  \* looks at claimed and sets it only once the body is decoded
    /\ alive /\ launches = 0 /\ decoding + launches < MaxClaims
    /\ claimed' = TRUE
    /\ decoding' = decoding + 1
    /\ UNCHANGED <<launches, ptyVars, bcastVars, clientVars, alive>>

\* POST /claim: claimed.Swap(true); a claim that finds it set is refused.
Claim ==
    /\ alive /\ ~claimed /\ decoding + launches < MaxClaims
    /\ claimed' = TRUE
    /\ decoding' = decoding + 1
    /\ UNCHANGED <<launches, ptyVars, bcastVars, clientVars, alive>>

MutDecode ==  \* a body that cannot be decoded leaves the pod claimed
    /\ alive /\ decoding > 0
    /\ decoding' = decoding - 1
    /\ launches' \in {launches, launches + 1}
    /\ UNCHANGED <<claimed, ptyVars, bcastVars, clientVars, alive>>

\* The body is decoded and launch called, or claimed is reset.
Decode ==
    /\ alive /\ decoding > 0
    /\ decoding' = decoding - 1
    /\ \/ launches' = launches + 1 /\ UNCHANGED claimed
       \/ claimed' = FALSE /\ UNCHANGED launches
    /\ UNCHANGED <<ptyVars, bcastVars, clientVars, alive>>

-----------------------------------------------------------------------------
(* The harness and the goroutine that reads its PTY.                       *)

\* pty.Start succeeds, ptmx is published and the reader starts; or it fails,
\* and launch returns: the pod stays claimed without a terminal.
StartHarness ==
    /\ alive /\ harness = "none" /\ launches > 0
    /\ \/ harness' = "running" /\ reader' = "reading"
       \/ harness' = "failed" /\ UNCHANGED reader
    /\ UNCHANGED <<claimVars, produced, n, bcastVars, clientVars, alive>>

Output ==
    /\ alive /\ harness = "running" /\ produced < MaxChunks
    /\ produced' = produced + 1
    /\ UNCHANGED <<claimVars, harness, reader, n, bcastVars, clientVars, alive>>

\* The harness ends, on its own or not; what it printed is still in the PTY.
EndHarness ==
    /\ alive /\ harness = "running"
    /\ harness' = "exited"
    /\ UNCHANGED <<claimVars, produced, reader, n, bcastVars, clientVars, alive>>

MutSendChunk(k) ==  \* waits for the slowest client instead of dropping
    /\ \A c \in clients : Len(queue[c]) < QueueCap
    /\ queue' = [c \in Clients |-> IF c \in clients THEN Append(queue[c], k) ELSE queue[c]]
    /\ UNCHANGED dropped

MutSendUnbounded(k) ==  \* never looks at the room a channel has
    /\ queue' = [c \in Clients |-> IF c \in clients THEN Append(queue[c], k) ELSE queue[c]]
    /\ UNCHANGED dropped

\* broadcaster.send: a full channel loses the chunk, the reader never waits.
SendChunk(k) ==
    LET room == {c \in clients : Len(queue[c]) < QueueCap} IN
    /\ queue' = [c \in Clients |-> IF c \in room THEN Append(queue[c], k) ELSE queue[c]]
    /\ dropped' = dropped \cup (clients \ room)

\* broadcaster.closeAll.
CloseAll ==
    /\ closed' = TRUE
    /\ shut' = shut \cup clients
    /\ clients' = {}

MutReadPty ==  \* broadcasts a chunk before it writes it to the scrollback
    /\ alive
    /\ \/ /\ reader = "reading" /\ n < produced
          /\ SendChunk(n + 1) /\ reader' = "sending"
          /\ UNCHANGED <<n, clients, closed, shut>>
       \/ /\ reader = "sending"
          /\ n' = n + 1 /\ reader' = "reading"
          /\ UNCHANGED bcastVars
       \/ /\ reader = "reading" /\ n = produced /\ harness = "exited"
          /\ CloseAll /\ reader' = "done"
          /\ UNCHANGED <<n, queue, dropped>>
    /\ UNCHANGED <<claimVars, harness, produced, clientVars, alive>>

\* scroll.write, then bcast.send, each under its own lock; a read error, once
\* the harness is gone and the PTY is drained, closes every channel.
ReadPty ==
    /\ alive
    /\ \/ /\ reader = "reading" /\ n < produced
          /\ n' = n + 1 /\ reader' = "sending"
          /\ UNCHANGED bcastVars
       \/ /\ reader = "sending"
          /\ SendChunk(n) /\ reader' = "reading"
          /\ UNCHANGED <<n, clients, closed, shut>>
       \/ /\ reader = "reading" /\ n = produced /\ harness = "exited"
          /\ CloseAll /\ reader' = "done"
          /\ UNCHANGED <<n, queue, dropped>>
    /\ UNCHANGED <<claimVars, harness, produced, clientVars, alive>>

\* os.Exit: every connection is lost with the process.
Die ==
    /\ alive' = FALSE
    /\ stage' = [c \in Clients |-> IF stage[c] \in Attached THEN "cut" ELSE stage[c]]

\* launch returns from harness.Wait and exits; it does not wait for the reader.
Exit ==
    /\ alive /\ harness = "exited"
    /\ Die
    /\ UNCHANGED <<claimVars, ptyVars, bcastVars, replay, tail>>

\* POST /stop, or the pod is deleted.
Stop ==
    /\ alive
    /\ Die
    /\ UNCHANGED <<claimVars, ptyVars, bcastVars, replay, tail>>

-----------------------------------------------------------------------------
(* handleTerminalWS.                                                       *)

Started == harness \in {"running", "exited"}  \* ptmx is not nil

Connect(c) ==
    /\ alive /\ stage[c] = "new"
    /\ stage' = [stage EXCEPT ![c] = "waiting"]
    /\ UNCHANGED <<claimVars, ptyVars, bcastVars, replay, tail, alive>>

MutGiveUpWaiting(c) ==  \* waits as long as the pod is claimed
    /\ alive /\ stage[c] = "waiting" /\ ~claimed
    /\ stage' = [stage EXCEPT ![c] = "refused"]
    /\ UNCHANGED <<claimVars, ptyVars, bcastVars, replay, tail, alive>>

\* 600 looks at ptmx, 100 ms apart, and it is still nil.
GiveUpWaiting(c) ==
    /\ alive /\ stage[c] = "waiting" /\ ~Started
    /\ stage' = [stage EXCEPT ![c] = "refused"]
    /\ UNCHANGED <<claimVars, ptyVars, bcastVars, replay, tail, alive>>

MutSubscribe(c) ==  \* does not look at broadcaster.closed
    /\ alive /\ stage[c] = "waiting" /\ Started
    /\ stage' = [stage EXCEPT ![c] = "subscribed"]
    /\ clients' = clients \cup {c}
    /\ UNCHANGED <<claimVars, ptyVars, closed, queue, shut, dropped, replay, tail, alive>>

\* broadcaster.subscribe, then wait for the client's first message.
Subscribe(c) ==
    /\ alive /\ stage[c] = "waiting" /\ Started
    /\ stage' = [stage EXCEPT ![c] = "subscribed"]
    /\ IF closed THEN shut' = shut \cup {c} /\ UNCHANGED clients
                 ELSE clients' = clients \cup {c} /\ UNCHANGED shut
    /\ UNCHANGED <<claimVars, ptyVars, closed, queue, dropped, replay, tail, alive>>

\* scrollback.snapshot: the last ScrollCap chunks written.
Scrollback == [first |-> IF n > ScrollCap THEN n - ScrollCap + 1 ELSE 1, last |-> n]

\* The first message is in: replay the scrollback, then start forwarding.
Replay(c) ==
    /\ alive /\ stage[c] = "subscribed"
    /\ replay' = [replay EXCEPT ![c] = Scrollback]
    /\ stage' = [stage EXCEPT ![c] = "live"]
    /\ UNCHANGED <<claimVars, ptyVars, bcastVars, tail, alive>>

\* The forwarding goroutine: a chunk to the client, or a close frame when the
\* channel is closed and empty.
Forward(c) ==
    /\ alive /\ stage[c] = "live"
    /\ \/ /\ queue[c] # <<>>
          /\ tail' = [tail EXCEPT ![c] = Append(@, Head(queue[c]))]
          /\ queue' = [queue EXCEPT ![c] = Tail(@)]
          /\ UNCHANGED stage
       \/ /\ queue[c] = <<>> /\ c \in shut
          /\ stage' = [stage EXCEPT ![c] = "ended"]
          /\ UNCHANGED <<queue, tail>>
    /\ UNCHANGED <<claimVars, ptyVars, clients, closed, shut, dropped, replay, alive>>

\* The connection fails or the client closes it: the handler returns and the
\* deferred unsubscribe runs.  While it waits for ptmx it does not notice.
Leave(c) ==
    /\ alive /\ stage[c] \in {"subscribed", "live"}
    /\ stage' = [stage EXCEPT ![c] = "left"]
    /\ clients' = clients \ {c}
    /\ UNCHANGED <<claimVars, ptyVars, closed, queue, shut, dropped, replay, tail, alive>>

-----------------------------------------------------------------------------
Next ==
    \/ Claim \/ Decode \/ Stop
    \/ StartHarness \/ Output \/ EndHarness \/ ReadPty \/ Exit
    \/ \E c \in Clients :
         Connect(c) \/ GiveUpWaiting(c) \/ Subscribe(c) \/ Replay(c) \/ Forward(c) \/ Leave(c)

\* The PTY goroutine runs.  No client is assumed to read anything.
Spec == Init /\ [][Next]_vars /\ WF_vars(ReadPty)

-----------------------------------------------------------------------------
(* Properties.                                                             *)

\* The last chunk handed to the broadcaster.
Sent == IF reader = "sending" THEN n - 1 ELSE n

\* c has, or will find in its channel, a run of chunks without a hole that
\* meets its replay and reaches the last chunk sent; once it got the close
\* frame it has it all.
UpToDate(c) ==
    LET s == IF stage[c] = "ended" THEN tail[c] ELSE tail[c] \o queue[c]
    IN  /\ \A i \in 1..Len(s) - 1 : s[i + 1] = s[i] + 1
        /\ IF s = <<>> THEN replay[c].last >= Sent
                       ELSE s[1] <= replay[c].last + 1 /\ s[Len(s)] = Sent

\* "Subscribe before replaying so we don't miss live output between the two":
\* a client that keeps up misses nothing from its replay to the end of the
\* session, wherever the reader stood when it subscribed.
NothingIsMissed ==
    \A c \in Clients \ dropped : stage[c] \in {"live", "ended"} => UpToDate(c)

\* Whatever the order of the claims, of which some cannot be decoded, the pod
\* launches one session at most, and is claimed by a launch or by one that still
\* may come: no claim is refused for good by one that failed.
OneLaunch ==
    /\ launches <= 1
    /\ IF claimed THEN decoding + launches = 1 ELSE decoding + launches = 0

\* The reader never sends on a closed channel and closes none twice: a
\* registered channel is open, and none is registered after closeAll.
RegisteredChannelsAreOpen ==
    /\ clients \cap shut = {}
    /\ closed => clients = {}

\* Whatever its clients do, all that the harness prints gets into the
\* scrollback and is sent, unless the process exits first.
SlowClientsDoNotBlock ==
    \A k \in 1..MaxChunks : produced >= k ~> Sent >= k \/ ~alive

\* The chunks of a replay.
Span(r) == [i \in 1..r.last + 1 - r.first |-> r.first - 1 + i]

\* The scrollback as the handler of c sees it.
ToReader(c) == INSTANCE LastBytes
    WITH Size <- ScrollCap, Byte <- 1..MaxChunks, MaxWrite <- 1,
         kept <- Span(Scrollback), count <- n, out <- Span(replay[c])

\* What each client is replayed, while the reader writes between any two steps of its
\* handler, is what LastBytes promises, and what ScrollbackRing gives: no more is asked
\* of the scrollback than the ring does.
RepliesComeFromTheRing ==
    /\ \A c \in Clients : ToReader(c)!Init
    /\ [][\A c \in Clients : [ToReader(c)!Next]_(ToReader(c)!vars)]_vars

phaseOf == [p \in {"this"} |->
    IF ~alive THEN "over" ELSE IF launches = 0 THEN "free" ELSE "taken"]
accepts == [p \in {"this"} |-> launches]

Promised == INSTANCE PodContract WITH Pods <- {"this"}, phase <- phaseOf, accepted <- accepts

\* The supervisor is the pod that the control plane counts on: of claims that race
\* and of those that cannot be decoded, whatever the harness and the terminals do
\* meanwhile, it takes one, and none after its end.
IsAPod == Promised!Spec

\* s is a run of consecutive chunks that ends with last.
Run(s, last) == \A i \in 1..Len(s) : s[i] = last - Len(s) + i

\* Where the reader stands says what was printed, read and closed.
ReaderInv ==
    /\ reader = "off" <=> ~Started
    /\ reader = "off" => produced = 0 /\ n = 0
    /\ reader = "sending" => n > 0
    /\ closed <=> reader = "done"
    /\ reader = "done" => n = produced /\ harness = "exited"
    /\ launches = 0 => harness = "none"

\* A handler that subscribed has a registered channel, or a closed one; one that
\* did not yet has none.
ChannelInv ==
    \A c \in Clients :
        /\ c \in shut => closed
        /\ stage[c] \in {"subscribed", "live"} => IF closed THEN c \in shut ELSE c \in clients
        /\ stage[c] \in {"new", "waiting", "refused"} => c \notin clients /\ queue[c] = <<>>
        /\ stage[c] \in {"new", "waiting", "refused", "subscribed"} => tail[c] = <<>> /\ replay[c] = NoReplay
        /\ stage[c] = "ended" => closed /\ queue[c] = <<>>

\* What a client that lost nothing got, and what its channel holds, are runs that
\* reach the last chunk sent, and meet its replay.
StreamInv ==
    \A c \in Clients \ dropped : stage[c] \in {"subscribed", "live", "ended"} =>
        /\ Run(queue[c], Sent)
        /\ Run(tail[c], Sent - Len(queue[c]))
        /\ stage[c] # "subscribed" => replay[c].last + Len(tail[c]) + Len(queue[c]) >= Sent

\* The inductive invariant behind the invariants above.
IInv ==
    /\ TypeOK /\ OneLaunch /\ RegisteredChannelsAreOpen
    /\ ReaderInv /\ ChannelInv /\ StreamInv
=============================================================================
