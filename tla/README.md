# Verification of the Sandlock agent platform

This directory holds TLA+ models of the platform's own logic, the TLC
configurations that check them on small instances, and TLAPS proofs of what
matters most for every size. Paths below are relative to the repository's root.

## 1. The system

A developer asks for a coding agent in a sandbox. The CLI (`cmd/sandlock`) or
the web page sends `POST /v1/sandboxes` to the control plane
(`cmd/controlplane`, `internal/api`). That creates a `SandboxClaim` in
Kubernetes; agent-sandbox's controller, which is not part of this repository,
binds it to a warm pod. The control plane then hands the pod's supervisor
(`cmd/supervisor`) a `ClaimRequest` with keys, skills, MCP servers and an older
session to resume, and writes a row to PostgreSQL. A client attaches to the
harness's terminal through a WebSocket that the control plane tunnels to the pod.

| component | state | operations | speaks with |
|---|---|---|---|
| sandbox handlers, `internal/api/sandboxes.go` | rows of `sandboxes`; SandboxClaims | create, stop, get, list, terminal | PostgreSQL, Kubernetes, supervisor |
| reconciler, `internal/api/reconciler.go` | none of its own | every 30 s: rows that run, claims that exist, UPDATE | PostgreSQL, Kubernetes |
| snapshots, `sandboxes.go`, `cmd/supervisor/main.go` | rows of `agent_snapshots`; `~/.claude` | look up, restore, fetch on stop, push on exit, upsert | supervisor and handlers, both ways |
| keys, skills, MCP servers, `keys.go`, `skills.go`, `mcp.go` | `api_keys`, `user_skills`, `user_mcp_servers` | put, delete, list; read by create | PostgreSQL |
| accounts, `auth.go`, `users.go`, `middleware.go`, `seedAdmin` | `users`, `sessions` | login, logout, password, create and delete a user, the two guards, seed | PostgreSQL |
| supervisor's control channel | `claimed` | `/claim`, `/snapshot`, `/stop`, heartbeat | control plane |
| supervisor's launch | the home directory | restore, write servers and skills, clone, start the harness | harness |
| pod terminal | scrollback, broadcaster, PTY | read the PTY, send, subscribe, replay, forward, close, exit | clients |
| tunnel, `terminalProxy`, `proxyWebSocket` | two WebSockets | accept, dial, copy both ways, close | CLI, supervisor |
| CLI `create`, `attach` | the local terminal, the connection, signals | create, dial, raw mode, forward, detach, remove | control plane |
| pickers of `create --select-repo`, `cmd/sandlock/cmd/github.go` | lists read page by page | read, pick, type a name, cancel | GitHub |
| other CLI commands, web page, chart, migrations | – | one request and its answer, or configuration | – |

### What is hard in it, and what makes each part correct

* **Sandbox handlers and reconciler.** No transaction spans PostgreSQL,
  Kubernetes and a pod. Each call can fail, or take effect without an answer;
  a client's disconnect cancels the context of what follows, the undo included;
  the process restarts between two calls. Correct means: a row leads to the pod
  that accepted *its* claim; a live sandbox is not retired; a dead one is, in the
  end; what leaks is paid for by a failure.
* **Snapshots.** Two writers that know nothing of each other end in one upsert;
  users are deleted while archives are on their way; archives can be cut. Correct
  means: sessions of different users, repositories or branches never mix, the
  deleted leave nothing, and what is stored is a session.
* **Session set-up.** Four tables are read by separate statements while the user
  edits them, and are written over an older snapshot. Correct means: what a
  session starts with is what is stored.
* **Accounts.** The guards read before the handlers act. Correct means: an
  administrator stays, no login outlives its account, a password change reaches
  its own account, a checked password is the one in force, replicas seed once.
* **Pod terminal and tunnel.** Claims that fail give the pod back while others
  come; one reader, many clients of any speed, an `os.Exit` that waits for nobody,
  and a proxy whose two loops end each other. Correct means: one session is
  launched, who keeps up misses nothing and, as long as its connection holds, is told
  of the end last, who is slow blocks nobody, no channel is used after its close, who left leaves nothing.
* **Scrollback.** A ring with two cuts. Correct means: the last bytes, in order.
* **CLI.** Ctrl+B D may be cut by a read; two goroutines wait for one signal and
  either ends the process. Correct means: nothing typed is lost, the detach is
  never sent, `--rm` removes, the terminal is given back.
* **Pickers and clone.** GitHub's lists move between two pages; the branch may
  come or go before the pod clones it; a failed clone falls back without telling.
  Correct means: what stands still is offered, the session is on the branch asked
  for.

`PROJECT.json` lists each hazard with its line and the properties that watch it.

## 2. Modules

In this order they were planned and written: first the life of a sandbox, then
what a user would lose (output, sessions, keystrokes), then the tables behind it.

| module | models | proofs |
|---|---|---|
| `SandboxLifecycle` | create, stop, reconciler, restarts, and the controller as the handlers see it | `SandboxLifecycleProofs` |
| `SandboxContract` | what a user is promised of a sandbox; `SandboxLifecycle` implements it | |
| `PodContract` | what the control plane counts on of a pod: one claim in its life, and none after its end; `Terminal` implements it | |
| `ScrollbackRing` | `scrollback.write` and `snapshot`, byte by byte | `ScrollbackRingProofs` |
| `LastBytes` | what a reader is promised; `ScrollbackRing` implements it, `Terminal` relies on no more | |
| `Terminal` | `/claim`, `/stop`, start of the harness, PTY goroutine, `broadcaster`, `handleTerminalWS`, exit | `TerminalProofs` |
| `TerminalTunnel` | `proxyWebSocket`, the client, and the pod's input side; extends `Terminal`, whose steps the pod takes | `TerminalProofs` |
| `SessionSnapshots` | look-up, restore, fetch, push, upsert, deletion of users | `SessionSnapshotsProofs` |
| `AttachInput` | the keyboard loop of `attach` | `AttachInputProofs` |
| `DetachKeys` | what the keyboard is promised, byte by byte; `AttachInput` implements it | |
| `CliSession` | one run of `create` or `attach`; extends `AttachInput`, and its keyboard goroutine takes `AttachInput`'s steps | `CliSessionProofs` |
| `RepoPicker` | the pages from GitHub, both pickers, and the clone in the pod | `CliSessionProofs` |
| `CliRun` | a run from its flags: `RepoPicker` before `CliSession`'s request, the clone after it | `CliSessionProofs` |
| `Accounts` | login, guards, users, passwords, `seedAdmin` | `AccountsProofs` |
| `SessionSetup` | keys, skills, servers, their reads by create, `launch` | `SessionSetupProofs` |

`MC…` modules give small instances and symmetry sets. An operator `Mut…` is a
wrong form of the definition that follows it, as a slip in the code would make
it; no specification uses it. `PROJECT.json` pairs each with a property that it
breaks, which is how we know that the property depends on the code.

### State and steps

**SandboxLifecycle.** `create[r]` and `stop[s]` say where a handler stands, by
the call it makes next; `row`, `claim`, `boundTo`, `pod`, `served` are the row,
the SandboxClaim, its binding, the pod and the claims the pod's supervisor
answered with 200. `hungUp` holds the requests whose context is cancelled, `ownerless`
the sandboxes whose user was deleted (`DeleteOwner`: the row stays, with no `user_id`).
`CreateClaim`, `PollAdopted`, `PollGiveUp`, `ClaimSupervisor`, `Undo`,
`InsertRow` are the calls of `createSandbox`; `StopLookup`, `StopRef`, `StopMark`,
`StopDelete` those of `stopSandbox`, which asks for the row and then once more for its
`provider_ref`; `RecRead`, `RecList`, `RecUpdate` those of
`reconcile`, with any other step in between. `Crash` drops every handler and the
round. A call fails in three ways: refused, done but not answered, or cancelled,
and each failure but the last is charged to `faults`. `Bind`, `HarnessExit`,
`ClaimRemoved` and `Cascade` are Kubernetes and the harness. What the request
carries is left to the other modules. For `SandboxContract` a row is what is
`listed`, and a session is live when a pod has accepted its claim and over when the
claim is deleted. That a pod takes one claim is an assumption about pods here
(`Reachable`); it is shown of the supervisor in `Terminal`.

**ScrollbackRing.** `buf`, `pos`, `n` are the struct's fields, `pending` what the
holder of the mutex has yet to store. `Contents` is `snapshot`, with its two
copies. Refinement: a write takes effect when it takes the mutex, so the promise
shows what the ring holds followed by `pending`, and each byte stored is a stutter.
`count` in the promise keeps a stored byte from passing for another write.

**Terminal.** `claimed` is the flag that `/claim` swaps, `decoding` the claims whose
body is being read: `Decode` launches, or sets the flag back. `StartHarness` may
fail, and then there never is a terminal. Output is chunks 1, 2, 3, …; `reader` is the PTY goroutine,
which writes to the scrollback (`ReadPty`) and to the channels in two steps.
`queue[c]` is a subscriber's channel, `dropped` the clients a full channel cost
something. `Connect`, `Subscribe`, `Replay`, `Forward`, `Leave`, `GiveUpWaiting`
are the stages of `handleTerminalWS`; `Exit` is `os.Exit`, which can come at any
point after the harness's end. For `PodContract` the pod is free until `launches` is 1 and over when the process
is not `alive`. What `SandboxLifecycle` takes for granted of `/claim` is thus what
the supervisor's code does.

**TerminalTunnel.** `link[c]` is where `proxyWebSocket` stands for client `c`, `got`
how many of the pod's messages the client has, `keys` what it typed and the pod has
not read, `told` how its connection ended. `Deliver` is the loop from the pod to the
client, one message a step; `PodReadFails`, `ClientFails`, `PodWriteFails` are the
errors that end one loop, and with it the other and both connections. What the
pod wrote arrives in order and only as long as both connections stand, which is what
TCP gives: a close frame is behind the data, but a write that fails, a reset or a
restart loses what is on its way. `Reset` breaks the connection to the pod at any time,
with the pod and the harness running on; any error of `pod.Read` makes the goroutine
say "sandbox session ended". When the main loop returns (`Return`) its deferred calls
close the pod's connection, then the client's, and the goroutine may say so in between:
`CloseBoth` is that race. `Room` and the capacity `KeysCap` are the
connections' buffers: a pod's handler waits in `conn.Write`, and one in `ptmx.Write`
(`writing`) waits until the harness reads. `ReadTooLong` is a message over the 32 KB
that the pod's `conn.Read` takes by default; the proxy raises its own limits only.

**SessionSnapshots.** `~/.claude` is the number of notes it holds of each
sandbox: a session adds to its own and carries over those it resumed from, so a
mixed, old or cut archive shows. `write[w]` is where a store stands: the push at the
exit is `<<s, 0>>`, the stops are `<<s, 1>>` and on. Both end in `Upsert`.
`Fits` cuts at 15 MB, `Readings` may read a directory that changes, and a restore may
fail on the way, which `launch` ignores and goes on with the files it has; what any of
them loses is counted in `torn`.

**AttachInput, CliSession.** `typed`, `sent`, `out`, `i`, `sawCtrlB` are the
loop's variables and its history. For `DetachKeys`, what passed is what was sent
and what waits in `out` (`Passed`), and the place of the filter is `LookedAt`: a read
is somebody's typing to it, and a write is nothing at all. `main` is the main goroutine, `rmSig` and
`attachSig` the two that wait for a signal, `tty` the local terminal, `asked`
whether the DELETE went out, `exit` what ended the process.

**RepoPicker, CliRun.** `pick` is where `--select-repo` stands, `listing` what GitHub
lists at this moment, `offered` what was read of it. `Push` moves an entry to the
front, `Delete` moves up what stood behind; `steady` are the entries that neither
happened to. `FetchRepos` reads by page number and stops at the fifth; `FetchBranches`
follows a cursor, modelled as a place in the list, which is the weaker of what a cursor can
be. q, esc and ctrl+c in the repository's picker end the command, in the branch's
they leave the branch open, and so do a blank name and SIGTERM; SIGINT is an error
(bubbletea 1.3.10). `work` is the clone in `launch`, `head` the branch it ends on
(`name`) and the one it was taken from (`of`). In `CliRun` a picker takes the signals
(`RunSignal`), and `Request` hands the choice to the pod, whose `Clone`, `Fallback`,
`NameBranch` and `Confirm` then interleave with the session and with GitHub.

**Accounts.** One action per statement. `who[h]` and `rank[h]` are what
`requireAuth` put into the context of request `h`; they may be out of date when
the handler acts. `fresh` holds the accounts with the password they were given;
`password[u]` is the hash; `given[h]`, the password that was right at the check, is kept for
the property; `changed`, `seeded`, `late`, `overtaken` are history.

**SessionSetup.** A text, secret or key is named by the edit that brought it.
`order[s]` is the `ClaimRequest` as it fills, `home[s]` the pod's home,
`snapshot` the row an earlier session left. `clean` are the sessions to which
nothing failed and during which nothing was edited, `alone` the keys stored
without an overlap, `sound` the edits of a server that nobody disturbed between
SELECT and upsert. `Save` may come at any point between the restore and the end of the
pod: the code asks only whether `~/.claude` is there, and a snapshot with neither skills
nor servers may have brought it.

## 3. What the runs check

Every run takes `X.cfg` with its `MC` module, for example
`tlc -config LifecycleSafety.cfg MCSandboxLifecycle`. The four runs that end in a
violation are findings (section 6). `CHECK_DEADLOCK FALSE` stands where requests
are finitely many or the process ends: there the system really stops.

| run | shows | bounds, and why they are enough |
|---|---|---|
| `lifecycle_safety` | `RowHasItsPod`; `LeaksAreAccountedFor`: each orphaned claim is paid for by a failure, a disconnect or the deletion of a user; `StopsAreAccountedFor`: each claim that a stop leaves, whose client waited and whose user stayed, is paid for by a failed call; `ImplementsContract` | two sandboxes (a row may lead to the wrong pod), two pods (both may be bound at once), a stop each, one failed call, one disconnect, one restart and one deleted user, all of which can meet in one behaviour |
| `lifecycle_liveness` | `EveryRequestEnds`, `AbandonedRequestsEnd`, `DeadRowsAreRetired`, under the hypotheses of section 4 | two sandboxes that compete for one pod, so that one polls in vain; one disconnect, one failed call and one restart, which fall into a request or a round of the reconciler. No user is deleted: `lifecycle_safety` has that |
| `lifecycle_stop_leak` | violation of `StopDeletesTheClaim` | one disconnect |
| `ring` | `ImplementsLastBytes` | three bytes, writes of up to a whole ring, nine bytes: three wraps, every cut, n = size included |
| `terminal` | `TunnelInv`, `NothingIsMissed`, `RegisteredChannelsAreOpen`, `OneLaunch`, `IsAPod`; `TheEndComesLast` with the five ways round it; `SlowClientsDoNotBlock`, `LiveClientsAreServed`, `EveryClientIsAnswered`, `TunnelsEnd` | one client, two claims (one of which may fail while the other comes), scrollback, channels and connections of two messages and three chunks: each overflows; one message of the client fills the way to the pod, so that its loop is held up at once. Clients meet only in the reader, which waits for none of them, and in the PTY's input; two in their tunnels make more than eleven million states. The safety properties are proved for any number of clients (section 5) |
| `snapshots` | `KeysDoNotMix`, `DeletedUsersLeaveNothing`, `SnapshotsAreSessions`; `OnlyOvertakenWritesLower`: which writes may take notes back | two sandboxes with every choice of two users and two repositories, two notes each with room for three: a resumed session may be cut, a stop and an exit of one pod race, one torn reading or restore |
| `snapshot_recency` | violation of `MostRecentWins` | one sandbox, nothing cut |
| `cli` | `NothingIsLost`, `DetachIsNeverSent`, `ReadsDoNotMatter` (the refinement of `DetachKeys`), `RmCleansUp` with the three ways round it, `TerminalIsGivenBack`, `SessionsEnd`, `NoneIsMissed`, `BranchIsCheckedOut` | the four commands; texts of up to four of Ctrl+B, D and another byte, in reads of up to three: Ctrl+B twice, then D, in every cut. Five repositories in pages of two, of which two are read; three branches and a name that is none; two changes on GitHub, two git commands that fail by themselves: the list shrinks and grows across a page's edge, a branch goes after it was picked and a fallback fails too. `WithRepo`: a repository is asked for by `create -d` only, since what follows the request never looks at what was picked; this keeps the product with the keyboard small, and the proofs hold for any `WithRepo` |
| `cli_signals` | violation of `RmSurvivesSignals` | one signal |
| `accounts` | `AnAdminStays`, `SessionsHaveUsers`, `ChangesStayHome`, `ChecksHold`, `OneSeed`, `OnlyAdminsChangeAccounts` | three ids for two names, so that a name is given again; two passwords, two logins, two requests at a time (two changes may have checked the same password), two replicas |
| `session_setup` | `SessionsAreCurrent`: what a session starts with, to the last skill and server; `LoneKeysReplace`, `SecretsAreKept`; `TextsKeepTheirNames`: no text or secret turns up under another name | two names (a secret may land at the wrong server), two edits that overlap, two sessions of which one resumes the other |
| `deleted_skills` | violation of `DeletedSkillsStayOut` | one skill |

Bounds in the guards: `MaxStops`, `MaxFaults`, `MaxHangups`, `MaxCrashes`,
`MaxDeletions` (lifecycle), `MaxBytes` (ring), `MaxChunks`, `MaxClaims` (terminal), `MaxNotes`,
`MaxStops`, `MaxTorn` (snapshots), `MaxTyped` (keyboard), `MaxChanges`, `MaxFailures`
(pickers and clone). `MaxWrite`, `MaxRead`, `Size`, `ScrollCap`, `QueueCap`, `Limit`,
`PageSize` and `MaxPages` are the code's own limits, made small; `WireCap`, `KeysCap`
and `PtyCap` stand for buffers of the network and the kernel.
Symmetry is used in `lifecycle_safety`, `snapshots`, `accounts` and `session_setup`, which check no
liveness and whose members are interchangeable; never in `Names` of `Accounts`,
one of which is seeded.

## 4. Fairness

* `SandboxLifecycle`: the calls of a request have no deadline of their own.
  `claimSupervisor` uses `http.DefaultClient`, and the calls to Kubernetes and PostgreSQL
  have the request's context only: a pod that accepts a connection and never answers
  holds the request as long as its client stays. What the code does give is that a call
  returns once its context is cancelled, so the specification's fairness is that of the
  requests whose client has left, outside the poll, whose last deletion has a context
  of its own: `AbandonedRequestsEnd` rests on no more. That the calls of a create, of
  a stop or of the reconciler return or fail is the hypothesis of `EveryRequestEnds` and
  `DeadRowsAreRetired`, in the formula itself (`WF_vars(CreateStep(r)) => ...`). Nothing
  is assumed of clients, of the controller (it may never bind a claim) or of the harness.
* `TerminalTunnel`: weak fairness of the PTY goroutine, and for each client of the
  proxy's loops, of the pod's handler and of its forwarder, each as far as nothing
  holds it up: `TunnelForward` waits for room in the connection, `WriteKeys` for
  room in the PTY. The 600 looks at `ptmx` end, so `GiveUpWaiting` is among them.
  A connection that is cut off is noticed at either end: Go turns TCP's keep-alive on,
  for what it dials and what it accepts.
  No claim, restart or exit is assumed. That clients read is the hypothesis
  `ClientsRead` of `LiveClientsAreServed`, that the harness reads its input the
  hypothesis `HarnessListens` of `TunnelsEnd`, with strong fairness of `WriteKeys`,
  since several handlers may want the same room. `SlowClientsDoNotBlock` and
  `EveryClientIsAnswered` need neither.
* `CliSession`: weak fairness of the main goroutine and of the two signal
  handlers: requests are answered or fail. Nothing is assumed of the user, of
  signals or of the connection; the keyboard goroutine may stay in its read
  for ever, and the command ends all the same. `CliRun` assumes the same of the
  main goroutine from the request on, and nothing of the pickers or of GitHub:
  `http.DefaultClient` has no timeout, and a picker waits for its user. The same
  client sends the DELETE of `--rm`, which fairness takes to be answered or to fail:
  `SessionsEnd` says that the command waits for nothing else.
* The other modules claim no liveness.

## 5. What is proved

`tlapm` checks every proof. The constants are arbitrary but for the named
assumptions of the modules: `NoPod`, `NoOne` and `None` are not members of what
they mark the absence in, bounds and sizes are natural numbers, the ring has at
least one byte, Ctrl+B, D and the other bytes differ, the seeded name is a name,
a create request is not a stop (`RequestsAssumption`).

| theorems | argument |
|---|---|
| `SandboxLifecycleProofs`: `Invariance`, `TypeCorrect`, `RowsHaveTheirPods` | `RowHasItsPod` alone is not inductive. `BindingInv` says that no two claims have one pod and that a pod served only claims bound to it; `HandlerInv` that whoever inserts a row got its 200; with them every action keeps it |
| `Refinement` | each step is one of the contract's or a stutter. The reconciler is the hard one: `ReconcilerInv` says that what it is about to retire has lost its claim, since rows are read before claims; `StopInv` says that a stop that goes on was asked for |
| `LeaksArePaidFor` | `Owing(r)` charges an orphan's handler to one failed call, disconnect or deleted user. `DebtInv` keeps the number of such handlers within those: each step adds one at most, and pays for it in that step. `UndisturbedInv` says that without a restart only a stop marks the row of a claim that exists |
| `StopsArePaidFor`, `UndisturbedStopsDelete` | `MissedInv` counts the stops that left the claim or are going to, having read no `provider_ref`: each step adds one at most, and pays for it (`PaidFor`). Restarts need no exception, since they end a stop without a 204. With no failed call there is none: after its 204 a client that waited, and is still a user, finds the claim deleted |
| `RowsMoveForAReason` | an action property of the rows, transferred from `SandboxContract` through the refinement: it says which steps a row takes, and what stands behind each |
| `TerminalProofs`: `SupervisorIsAPod` | only the claim that set the flag can launch (`OneLaunch`), whatever bodies and exits come between; `TunnelsAreTerminals` carries it over to the pod behind its proxy |
| `TerminalProofs`: `RepliesAreLastBytes` | the same between the terminal and the ring: what a client is replayed is what `LastBytes` promises (`RepliesComeFromTheRing`), chunks for bytes, so that the terminal asks no more of its scrollback than `ScrollbackRing` gives. `OneMoreChunk` says that one chunk more pushes the oldest out |
| `ScrollbackRingProofs`: `RingIsSound`, `Refinement` | `FilledFromStart` says where the position is before the first wrap; with it, one byte stored keeps the unrolled ring followed by `pending` the same to a reader |
| `SessionSnapshotsProofs`: `Invariance`, `KeysStayApart`, `DeletionIsComplete`, `SnapshotsAreWhole` | `ArchivesDoNotMix` extends `KeysDoNotMix` to the archives in flight, `CopiesAreSessions` does the same for `SnapshotsAreSessions`; a session stays a witness because its home only grows and no create looks up twice (`PodInv`, `HomesGrow`). What a cut restore leaves is still of one key, and still went through the table |
| `OvertakenWritesLower` | `NotesAreStored` says that a session's own notes are stored by its own writes only, and that what is read is no older than what those had: where an upsert lowers the row, another write of the session, with more notes, was through before |
| `TerminalProofs`: `TerminalInvariance`, `TerminalTypes`, `ChannelsStayOpen`, `LaunchesOnce`, `MissesNothing` | what a client got and what its channel holds are runs of chunks that end with the last one sent (`StreamInv`), whatever was dropped for others; `ChannelInv` says that a handler that subscribed has a registered channel or a closed one, `ReaderInv` what closing says of the PTY |
| `TunnelInvariance`, `TunnelsAreTerminals`, `EndComesLast` | the pod takes `Terminal`'s steps, so its invariant carries over; with `LinkInv`, a client that was told of the end by the pod's close frame has `Written` messages, which are the replay and a run up to the last chunk. A broken connection and a main loop that has returned are outside: there the words say nothing (section 6) |
| `AttachInputProofs`: `Invariance`, `InputIsKept`, `DetachStaysHere` | `ReadInv` says that a Ctrl+B is held back until the next byte only and that the bytes ahead of it hold none, `SentInv` the same of what was sent, across reads |
| `Refinement` | `AttachInput` implements `DetachKeys` step by step: a look at a byte is the filter's, whatever read it came by; a read and a write change neither `Passed` nor `LookedAt`. For reads of any size and texts of any length |
| `CliSessionProofs`: `RunInvariance`, `BranchesAreCheckedOut`, `PagesMissNone`, `RunsAreSessions` | `HeadInv` says what each step of `launch` has behind it; `PageInv` that what stands steady before the page to be read was offered, which a push keeps because it moves the others down only, and a deletion because what it moves up is steady no more. A run is a run of `CliSession` to whoever looks at the session only |
| `CliInvariance`, `RemovalIsAskedFor`, `TerminalIsRestored`, `SessionInputIsKept` | `TtyInv` and `ExitInv` say where the process stands when the terminal is raw and where each exit is; the keyboard steps are `AttachInput`'s, so its invariant and its refinement carry over. `RmCleansUp` names three ways only: `ExitInv` says of every other exit that the request is out or that there is no sandbox |
| `AccountsProofs`: `Invariance`, `AdminsStay`, `SessionsAreOfUsers`, `ChangesReachTheirOwn`, `ChecksAreCurrent`, `SeedIsOne`, `OnlyAdmins` | `ContextsAreTrue` ties what a request has read to the account, which keeps its rank; `NamesAreUnique` makes the second replica's INSERT fail |
| `SessionSetupProofs`: `Invariance`, `SessionsStartCurrent`, `LoneStoresReplace`, `SecretsStay` | `OrdersAreCurrent` says that what an undisturbed create has read, and launch has written of it, is what is stored over what the snapshot held, to the last file; `EditsAreInOrder` says what an edit that stands between its two statements may rely on |
| `NamesAreKept` | `Named` of every table, order, home and snapshot at once: each is filled from one of the others under the same name (`NamedMix`), and an edit's text enters a table only when the edit is over |

Every invariant and every action property that a passing run checks is the statement
of a theorem, and so are the refinements. The inductive
invariants were checked by TLC before they were proved; of those the runs keep
`TunnelInv`, and of the others their consequences. `UndisturbedStopsDelete`,
`RowsMoveForAReason` and `RepliesAreLastBytes` state what no run lists: the first two
follow from properties that runs check, the last puts two modules together.

Checked by TLC only: liveness (`EveryRequestEnds`, `AbandonedRequestsEnd`, `DeadRowsAreRetired`,
`SlowClientsDoNotBlock`, `LiveClientsAreServed`, `EveryClientIsAnswered`, `TunnelsEnd`,
`SessionsEnd`), which is out of the prover's reach under fairness. No module
declares a recursive operator.

## 6. Findings

Four runs end in a violation of what the repository says of itself. What holds in
its place is a property of a passing run, and proved: `StopsAreAccountedFor`,
`OnlyOvertakenWritesLower`, `RmCleansUp` and `SessionsAreCurrent`, in the order of the
list.

1. `StopDeletesTheClaim`. `docs/docs/api/sandboxes.md:134` says that a DELETE
   deletes the SandboxClaim. `stopSandbox` marks the row gone first, then deletes
   with the request's context and drops the error. If the client leaves in
   between, the claim and its pod stay and nothing looks at them again: the
   reconciler reads running rows only.
2. `MostRecentWins`. `docs/docs/architecture/lifecycle.md:92` says that the most
   recent snapshot stays. A stop that fetched its archive before the harness
   exited may store it after the exit's push.
3. `RmSurvivesSignals`. The comment at `cmd/sandlock/cmd/create.go:118` wants the
   sandbox deleted on SIGINT and SIGTERM. Both handlers get the signal, and
   `attach`'s may exit before the other's DELETE is out.
4. `DeletedSkillsStayOut`. `docs/docs/cli/skills.md:80` says that a deleted skill is
   removed from all future sessions. It comes back with the snapshot of an older
   one. The last MCP server comes back likewise, since `writeMCPConfig` is not
   called for none.
Seen while modelling, without a run of their own:

* Three hazards are the exceptions of the properties next to them, and nothing in the
  repository says what should happen, so that there is no claim to refute: two
  administrators who delete each other at once leave none (`late` in
  `AnAdminStays`); two changes of one password that both know the old one both succeed,
  and the later one stays (`overtaken` in `ChecksHold`); a create that is overtaken by
  edits has the tables of different moments (`clean` in `SessionsAreCurrent`).
* "sandbox session ended" is what the proxy says of any error of `pod.Read`. After a
  reset of its connection to the pod it says so of a session that goes on. And a
  keystroke that is written to the pod after the harness's end makes the main loop
  return; `pod.CloseNow`, deferred last, runs first, and the goroutine says that the
  session ended with the last output unread. These are the first two of the five ways
  that `TheEndComesLast` names.
* A file of `~/.claude` that changes while it is copied ends the archive behind a 200
  that is out, and what there is of it replaces the snapshot that was whole
  (`torn` in `SessionSnapshots`). Past 15 MB it is cut in the same way.
* `docs/docs/cli/keys.md:15` says that a user has one stored key at most. Stores that
  overlap, or a failed DELETE, leave two (outside `alone` in `LoneKeysReplace`).
* The comment at `internal/api/mcp.go:122` wants secrets kept that are not sent again.
  A SELECT that fails drops them, and an edit between it and the upsert is undone
  (outside `sound` in `SecretsAreKept`).
* `docs/docs/cli/create.md:65` says that a session starts on the correct branch, which
  is created locally if it is not on the remote. A clone that fails for a passing
  reason is taken for that, and a fresh branch of this name starts from the default
  one; only the pod's log says so (`failed` in `BranchIsCheckedOut`).
* A user who is deleted while a stop is between its two SELECTs leaves the claim
  behind a 204, with no failed call.
* `create --rm`: SIGHUP keeps the sandbox, though `docs/docs/cli/create.md:90` says
  it is deleted "when you close the terminal"; its handler exits without
  restoring the terminal (`docs/docs/cli/attach.md:48`). The message "[sandbox
  exited]" in `attach.go` cannot be reached: a read that ends always has a reason.
* A slow client loses output for good, and is not told; `os.Exit` may cut off the close frames that the comment
  over the PTY goroutine promises.
* `internal/supervisorproto/proto.go:22` forbids to persist MCP secrets in the
  pod; `writeMCPConfig` writes them to `~/.claude.json`, which snapshots include.
* When `pty.Start` fails, the pod stays claimed without a terminal; clients are
  told so after a minute (`EveryClientIsAnswered`), in the words of the proxy:
  "sandbox session ended". The same words follow a message over 32 KB, which ends
  the session's connection though both sides of the proxy take 4 MB; `TheEndComesLast`
  names both ways.
* A harness that does not read its input keeps the handler, the channel and the
  pod's connection of a client that has left (hypothesis of `TunnelsEnd`).
* The row keeps a branch whether or
  not a repository was cloned (`docs/docs/api/sandboxes.md:102`: "omitted if no repo
  was cloned").
* Logins and sessions outlive a change of the password.
* `docs/docs/api/users.md` has 404, 403 and a status `gone` for the sandboxes of a
  deleted user; the code answers 204 and 400 and sets `user_id` to NULL.
  `docs/docs/api/keys.md:55` has 400 where a missing stored key is ignored.
  `mustChangePassword` of `docs/docs/api/authentication.md:40` is not enforced; the route
  that `sandlock register` calls is not there; logout answers 204 when its
  DELETE failed.

## 7. What is not modelled

* `memStore`, which replaces the database in development, and the listings.
* The supervisor's `/health` and `/heartbeat`, which change nothing; resizes beyond
  the first message, which changes what is awaited but not what is printed.
* `sandlock github token` and `repos`; filtering in the lists; the terminal while a
  picker holds it; a repository without a default branch, a tag or a commit as
  `--branch`. An empty list of repositories can only be cancelled, as in the code.
* Cryptography and routing: pure; a failed decryption is a failed read, the
  guards stand in the handlers' actions.
* A snapshot that is taken in the middle of a restore or of the writing of a skill, in
  `SessionSetup`: those are steps there (`SessionSnapshots` has torn archives).
* The harness command line; what a harness writes to the home
  directory in `SessionSetup` (`SessionSnapshots` models it, and torn archives).
* A supervisor that panics or is killed for its memory: the chart's
  `restartPolicy: OnFailure` would start it again, unclaimed, in a pod whose claim is
  bound. But for a port that cannot be opened, every exit that the code asks for is an
  `os.Exit(0)`, after which the pod is not restarted, and `RegisteredChannelsAreOpen` excludes the panics of the broadcaster.
* Web page, chart, images, and agent-sandbox's controller, of which
  `SandboxLifecycle` has what the handlers rely on.

## 8. What is left

The modules, runs and theorems of the plan are all there. What could still be added:
`memStore`, for development, which would be `SandboxLifecycle` without the reconciler
and with rows that a restart forgets; the order of a `ClaimRequest` in `SessionSetup`
tied to the key that `SessionSnapshots` looks up, which today are two modules that
meet in the code only; and more than one client at a time in the runs of
`TerminalTunnel`, whose theorems hold for any number.
