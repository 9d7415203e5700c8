-------------------------- MODULE SessionSnapshots --------------------------
(***************************************************************************)
(* How a Claude Code session outlives its pod: a create hands the stored   *)
(* snapshot of its user, repository and branch to the pod, and the pod's   *)
(* ~/.claude comes back in two ways that know nothing of each other, the   *)
(* stop handler's GET /snapshot and the supervisor's POST when the harness *)
(* exits (internal/api/sandboxes.go, cmd/supervisor/main.go).  Both end in *)
(* the same upsert of agent_snapshots.                                     *)
(*                                                                         *)
(* The content of ~/.claude is how many notes it holds of each sandbox:    *)
(* a session adds its own to what it resumed from.                         *)
(***************************************************************************)
EXTENDS Naturals, FiniteSets, FiniteSetsExt

CONSTANTS Sandboxes, Users,
          Repos,       \* a repository and a branch of it
          MaxNotes,    \* bound on the notes a session adds
          MaxStops,    \* bound on the stops of a sandbox
          Limit,       \* the notes that fit into 15 MB
          MaxTorn      \* bound on readings and restores that end on the way

ASSUME BoundsAssumption == /\ MaxNotes \in Nat /\ MaxStops \in Nat
                           /\ Limit \in Nat /\ MaxTorn \in Nat

VARIABLES
    key,      \* what each create asks for, with the user who asks
    users,    \* the rows of users
    stored,   \* agent_snapshots; Nothing is no row
    rows,     \* the sandboxes that have a row
    create,   \* where each create handler stands
    carry,    \* the snapshot it found
    pod,      \* the sandbox's pod
    home,     \* ~/.claude in the pod
    write,    \* where each write of a snapshot stands
    got,      \* the archive it carries
    torn      \* readings and restores that did not get all of ~/.claude

vars == <<key, users, stored, rows, create, carry, pod, home, write, got, torn>>
createVars == <<create, carry, rows>>
podVars == <<pod, home>>
writeVars == <<write, got, torn>>

Keys == Users \X Repos
Archives == [Sandboxes -> 0..MaxNotes]
Nothing == [s \in Sandboxes |-> 0]

\* <<s, 0>> is the push when the harness of s exits, <<s, i>> the i-th stop of s.
Stops == Sandboxes \X (1..MaxStops)
Writers == Sandboxes \X (0..MaxStops)

Owner(s) == key[s][1]
Within(a, b) == \A s \in Sandboxes : a[s] <= b[s]

TypeOK ==
    /\ key \in [Sandboxes -> Keys]
    /\ users \subseteq Users
    /\ stored \in [Keys -> Archives]
    /\ rows \subseteq Sandboxes
    /\ create \in [Sandboxes -> {"new", "looked", "claimed", "done"}]
    /\ carry \in [Sandboxes -> Archives]
    /\ pod \in [Sandboxes -> {"none", "launching", "running", "exited", "over"}]
    /\ home \in [Sandboxes -> Archives]
    /\ write \in [Writers -> {"idle", "received", "keyed", "done"}]
    /\ got \in [Writers -> Archives]
    /\ torn \in Nat

Init ==
    /\ key \in [Sandboxes -> Keys]
    /\ users = Users
    /\ stored = [k \in Keys |-> Nothing]
    /\ rows = {}
    /\ create = [s \in Sandboxes |-> "new"]
    /\ carry = [s \in Sandboxes |-> Nothing]
    /\ pod = [s \in Sandboxes |-> "none"]
    /\ home = [s \in Sandboxes |-> Nothing]
    /\ write = [w \in Writers |-> "idle"]
    /\ got = [w \in Writers |-> Nothing]
    /\ torn = 0

-----------------------------------------------------------------------------
(* POST /v1/sandboxes, as far as the snapshot goes.                        *)

MutLookup(s) ==  \* forgets the repository and the branch
    /\ create[s] = "new" /\ Owner(s) \in users
    /\ \E k \in Keys : k[1] = Owner(s) /\ carry' = [carry EXCEPT ![s] = stored[k]]
    /\ create' = [create EXCEPT ![s] = "looked"]
    /\ UNCHANGED <<key, users, stored, rows, podVars, writeVars>>

\* The SELECT; with noResume, or when it or the decryption fails, nothing.
Lookup(s) ==
    /\ create[s] = "new" /\ Owner(s) \in users
    /\ \E a \in {stored[key[s]], Nothing} : carry' = [carry EXCEPT ![s] = a]
    /\ create' = [create EXCEPT ![s] = "looked"]
    /\ UNCHANGED <<key, users, stored, rows, podVars, writeVars>>

\* POST /claim: a failed one may have launched the session all the same.
Claim(s) ==
    /\ create[s] = "looked"
    /\ \E launched, ok \in BOOLEAN :
         /\ ok => launched
         /\ pod' = IF launched THEN [pod EXCEPT ![s] = "launching"] ELSE pod
         /\ create' = [create EXCEPT ![s] = IF ok THEN "claimed" ELSE "done"]
    /\ UNCHANGED <<key, users, stored, rows, carry, home, writeVars>>

\* The INSERT; its user_id references users.
InsertRow(s) ==
    /\ create[s] = "claimed"
    /\ \E ok \in BOOLEAN : rows' = IF ok /\ Owner(s) \in users THEN rows \cup {s} ELSE rows
    /\ create' = [create EXCEPT ![s] = "done"]
    /\ UNCHANGED <<key, users, stored, carry, podVars, writeVars>>

-----------------------------------------------------------------------------
(* The pod.                                                                *)

\* tar in either direction ends at the first error, and keeps what it has copied:
\* a file that grows ends an archive whose status is already 200, and a restore
\* that fails on the way leaves the files that it has written.
Readings(a) == IF torn < MaxTorn THEN {b \in Archives : Within(b, a)} ELSE {a}

CountTorn(a, b) == torn' = IF b = a THEN torn ELSE torn + 1

\* restoreSnapshot has returned; launch ignores its error, and starts the harness.
Restore(s) ==
    /\ pod[s] = "launching"
    /\ \E a \in Readings(carry[s]) :
         /\ home' = [home EXCEPT ![s] = a]
         /\ CountTorn(carry[s], a)
    /\ pod' = [pod EXCEPT ![s] = "running"]
    /\ UNCHANGED <<key, users, stored, createVars, write, got>>

Work(s) ==
    /\ pod[s] = "running" /\ home[s][s] < MaxNotes
    /\ home' = [home EXCEPT ![s][s] = @ + 1]
    /\ UNCHANGED <<key, users, stored, createVars, pod, writeVars>>

\* harness.Wait returns; the process stays until the push is through.
HarnessExit(s) ==
    /\ pod[s] = "running"
    /\ pod' = [pod EXCEPT ![s] = "exited"]
    /\ UNCHANGED <<key, users, stored, createVars, home, writeVars>>

\* os.Exit, with or without an answer to the push; or the pod is deleted.
PodEnds(s) ==
    /\ pod[s] \in {"launching", "running", "exited"}
    /\ pod' = [pod EXCEPT ![s] = "over"]
    /\ UNCHANGED <<key, users, stored, createVars, home, writeVars>>

-----------------------------------------------------------------------------
(* The two ways back.                                                      *)

Size(a) == MapThenSumSet(LAMBDA s : a[s], Sandboxes)

\* io.LimitReader cuts what does not fit, and nobody notices.
Fits(a) == IF Size(a) <= Limit THEN {a} ELSE {b \in Archives : Within(b, a) /\ Size(b) <= Limit}

MutExitPush(s) ==  \* does not wait for the harness
    /\ pod[s] \in {"running", "exited"} /\ write[<<s, 0>>] = "idle"
    /\ \E a \in {b \in Archives : Within(b, home[s])} : got' = [got EXCEPT ![<<s, 0>>] = a]
    /\ write' = [write EXCEPT ![<<s, 0>>] = "received"]
    /\ UNCHANGED <<key, users, stored, createVars, podVars, torn>>

\* pushSnapshotCallback, up to the body's arrival in the handler; without the
\* directory there is no push.
ExitPush(s) ==
    /\ pod[s] = "exited" /\ write[<<s, 0>>] = "idle"
    /\ \E a \in Fits(home[s]) :
         /\ got' = [got EXCEPT ![<<s, 0>>] = a]
         /\ CountTorn(home[s], a)
    /\ write' = [write EXCEPT ![<<s, 0>>] = "received"]
    /\ UNCHANGED <<key, users, stored, createVars, podVars>>

\* pushSnapshot reads the key from the row; no row, or no user in it: dropped.
PushKey(s) ==
    /\ write[<<s, 0>>] = "received"
    /\ write' = [write EXCEPT ![<<s, 0>>] =
                    IF s \in rows /\ Owner(s) \in users THEN "keyed" ELSE "done"]
    /\ UNCHANGED <<key, users, stored, createVars, podVars, got, torn>>

MutStopFetch(w) ==  \* takes a failure for an empty directory
    /\ write[w] = "idle" /\ w[1] \in rows /\ Owner(w[1]) \in users
    /\ pod[w[1]] \in {"launching", "running", "exited"}
    /\ \E a \in {home[w[1]], Nothing} : got' = [got EXCEPT ![w] = a]
    /\ write' = [write EXCEPT ![w] = "keyed"]
    /\ UNCHANGED <<key, users, stored, createVars, podVars, torn>>

\* stopSandbox and snapshotSession: GET /snapshot, while the harness runs or
\* even before.  A 404, for want of the directory, or any other failure leaves
\* what is stored as it is.
StopFetch(w) ==
    LET s == w[1]
        now == IF pod[s] = "launching" THEN carry[s] ELSE home[s]
    IN
    /\ write[w] = "idle" /\ s \in rows /\ Owner(s) \in users
    /\ pod[s] \in {"launching", "running", "exited"}
    /\ \E r \in Readings(now) : \E a \in Fits(r) :
         /\ got' = [got EXCEPT ![w] = a]
         /\ CountTorn(now, a)
    /\ write' = [write EXCEPT ![w] = "keyed"]
    /\ UNCHANGED <<key, users, stored, createVars, podVars>>

MutUpsert(w) ==  \* the table does not reference users
    /\ write[w] = "keyed"
    /\ stored' = [stored EXCEPT ![key[w[1]]] = got[w]]
    /\ write' = [write EXCEPT ![w] = "done"]
    /\ UNCHANGED <<key, users, createVars, podVars, got, torn>>

\* INSERT ... ON CONFLICT DO UPDATE: the last to arrive stays.
Upsert(w) ==
    /\ write[w] = "keyed"
    /\ \E ok \in BOOLEAN :
         stored' = IF ok /\ Owner(w[1]) \in users
                   THEN [stored EXCEPT ![key[w[1]]] = got[w]] ELSE stored
    /\ write' = [write EXCEPT ![w] = "done"]
    /\ UNCHANGED <<key, users, createVars, podVars, got, torn>>

\* DELETE FROM users, and its cascade.
DeleteUser(u) ==
    /\ u \in users
    /\ users' = users \ {u}
    /\ stored' = [k \in Keys |-> IF k[1] = u THEN Nothing ELSE stored[k]]
    /\ UNCHANGED <<key, createVars, podVars, writeVars>>

Next ==
    \/ \E s \in Sandboxes :
         \/ Lookup(s) \/ Claim(s) \/ InsertRow(s)
         \/ Restore(s) \/ Work(s) \/ HarnessExit(s) \/ PodEnds(s)
         \/ ExitPush(s) \/ PushKey(s)
    \/ \E w \in Stops : StopFetch(w)
    \/ \E w \in Writers : Upsert(w)
    \/ \E u \in Users : DeleteUser(u)

Spec == Init /\ [][Next]_vars

-----------------------------------------------------------------------------
(* Properties.                                                             *)

\* Whatever is stored under a key, or restored into a pod, was written in a
\* sandbox of that user, repository and branch, across any chain of resumptions.
KeysDoNotMix ==
    \A q \in Sandboxes :
        /\ \A k \in Keys : stored[k][q] > 0 => key[q] = k
        /\ \A s \in Sandboxes : home[s][q] > 0 \/ carry[s][q] > 0 => key[q] = key[s]

\* A deleted user leaves no snapshot, though writes of theirs may be in flight.
DeletedUsersLeaveNothing ==
    \A k \in Keys : stored[k] # Nothing => k[1] \in users

\* a is ~/.claude as one session of key k had it: all of what it resumed from, and
\* its own notes up to some moment.
IsASession(k, a) ==
    \E s \in Sandboxes : key[s] = k /\ Within(carry[s], a) /\ Within(a, home[s])

\* Short of a reading or a restore that was cut, every stored snapshot is a whole session: a
\* stop may even come between the launch and the harness.
SnapshotsAreSessions ==
    torn = 0 => \A k \in Keys : stored[k] # Nothing => IsASession(k, stored[k])

\* Nor does an archive on its way to the table mix keys.
ArchivesDoNotMix ==
    \A w \in Writers, q \in Sandboxes : got[w][q] > 0 => key[q] = key[w[1]]

\* A pod is there from the claim on, its directory filled by a restore that got
\* through, and the session only adds to it.
PodInv ==
    \A s \in Sandboxes :
        /\ create[s] \in {"new", "looked"} => pod[s] = "none"
        /\ pod[s] \in {"none", "launching"} => home[s] = Nothing
        /\ torn = 0 /\ pod[s] \in {"running", "exited"} => Within(carry[s], home[s])

\* What is carried to a pod, and what is on its way to the table, is a session too.
CopiesAreSessions ==
    torn = 0 =>
        /\ \A s \in Sandboxes : carry[s] # Nothing => IsASession(key[s], carry[s])
        /\ \A w \in Writers : got[w] # Nothing => IsASession(key[w[1]], got[w])

\* n notes of session q were stored by a write of its own that is through.
Stored(n, q) == \E v \in Writers : v[1] = q /\ write[v] = "done" /\ got[v][q] >= n

\* Every note found outside its own session went through the table, and no archive
\* has more of its session's notes than the session.
NotesAreStored ==
    /\ \A k \in Keys, q \in Sandboxes : stored[k][q] > 0 => Stored(stored[k][q], q)
    /\ \A s, q \in Sandboxes : carry[s][q] > 0 => Stored(carry[s][q], q) /\ q # s
    /\ \A s, q \in Sandboxes : home[s][q] > 0 => Stored(home[s][q], q) \/ q = s
    /\ \A w \in Writers :
         /\ \A q \in Sandboxes : got[w][q] > 0 => Stored(got[w][q], q) \/ q = w[1]
         /\ got[w][w[1]] <= home[w[1]][w[1]]
         /\ write[w] = "idle" => got[w] = Nothing
         /\ pod[w[1]] = "none" => write[w] = "idle"

\* The inductive invariant behind the three invariants above.
IInv == /\ TypeOK /\ KeysDoNotMix /\ ArchivesDoNotMix /\ DeletedUsersLeaveNothing
        /\ PodInv /\ SnapshotsAreSessions /\ CopiesAreSessions /\ NotesAreStored

\* Where the upsert takes notes back, it is for two reasons only.  An archive that
\* was not cut has all that its session has stored when it is read; and a write
\* lowers what is stored of a session q only if one of q's own writes, with more of
\* them, was through before: it was overtaken, or was cut.
OnlyOvertakenWritesLower ==
    [][/\ \A w \in Writers :
            write[w] = "idle" /\ write'[w] # "idle" /\ torn' = torn =>
                \A v \in Writers : v[1] = w[1] => got[v][w[1]] <= got'[w][w[1]]
       /\ \A w \in Writers, k \in Keys, q \in Sandboxes :
            write[w] = "keyed" /\ write'[w] = "done" /\ stored'[k][q] < stored[k][q] =>
                key[w[1]] = k /\ Stored(got[w][q] + 1, q)]_vars

\* docs/docs/architecture/lifecycle.md: "the most recent overwrites the
\* previous": no write takes back notes that its own session has stored.
MostRecentWins ==
    [][\A w \in Writers : write[w] = "keyed" /\ write'[w] = "done" /\ users' = users
         => stored'[key[w[1]]][w[1]] >= stored[key[w[1]]][w[1]]]_vars
=============================================================================
