---------------------------- MODULE SessionSetup ----------------------------
(***************************************************************************)
(* What a user stores for future sessions (the API key, skills and MCP     *)
(* servers: internal/api/keys.go, skills.go and mcp.go), how createSandbox *)
(* reads it, one statement after the other, and how the supervisor's       *)
(* launch sets up the home directory of the pod from it and from the       *)
(* snapshot of an earlier session of the same repository and branch.       *)
(* One user: every statement has that user's id.  A text, a definition, a  *)
(* secret or a key is named by the edit request that brought it.  What the *)
(* harness itself writes to the home directory is left out.                *)
(***************************************************************************)
CONSTANTS Names,     \* of skills, and of MCP servers
          Edits,     \* requests to store something
          Sessions,  \* requests to create a sandbox, with the pod they get
          None       \* nothing is stored

ASSUME NoneAssumption == None \notin Edits

VARIABLES
    skills,    \* user_skills: the text of each name
    servers,   \* user_mcp_servers: definition and secret of each name
    keys,      \* the rows of api_keys
    snapshot,  \* the row of agent_snapshots
    step,      \* where each edit stands
    name,      \* the name in its path
    kept,      \* the secret it is about to store
    session,   \* where each session stands
    order,     \* what its request has read, then its ClaimRequest
    home,      \* ~/.claude/commands and ~/.claude.json of its pod
    alone,     \* edits that store a key while no other one does
    sound,     \* edits whose server is as they have read it
    clean      \* sessions without a failure, and with no edit since their request

tables == <<skills, servers, keys>>
editVars == <<step, name, kept>>
sessionVars == <<session, order, home, snapshot>>
vars == <<tables, editVars, sessionVars, alone, sound, clean>>

Value == Edits \cup {None}
Server == [def : Value, secret : Value]
Home == [skills : [Names -> Value], servers : [Names -> Server]]

NoServer == [def |-> None, secret |-> None]
NoSkills == [n \in Names |-> None]
NoServers == [n \in Names |-> NoServer]
EmptyHome == [skills |-> NoSkills, servers |-> NoServers]
NoOrder == [key |-> None, resume |-> EmptyHome, skills |-> NoSkills, servers |-> NoServers]

Stages == {"none", "key", "snapshot", "skills", "servers",
           "claimed", "restored", "configured", "ready", "over"}
ReadSkillsBefore == Stages \ {"none", "key", "snapshot", "over"}
ReadServersBefore == ReadSkillsBefore \ {"skills"}

TypeOK ==
    /\ skills \in [Names -> Value] /\ servers \in [Names -> Server]
    /\ keys \subseteq Edits /\ snapshot \in Home
    /\ step \in [Edits -> {"new", "read", "cleared", "done"}]
    /\ name \in [Edits -> Names] /\ kept \in [Edits -> Value]
    /\ session \in [Sessions -> Stages]
    /\ order \in [Sessions -> [key : Value, resume : Home, skills : [Names -> Value],
                               servers : [Names -> Server]]]
    /\ home \in [Sessions -> Home]
    /\ alone \subseteq Edits /\ sound \subseteq Edits /\ clean \subseteq Sessions

Init ==
    /\ skills = NoSkills /\ servers = NoServers /\ keys = {} /\ snapshot = EmptyHome
    /\ step = [e \in Edits |-> "new"] /\ kept = [e \in Edits |-> None]
    /\ name \in [Edits -> Names]
    /\ session = [s \in Sessions |-> "none"]
    /\ order = [s \in Sessions |-> NoOrder]
    /\ home = [s \in Sessions |-> EmptyHome]
    /\ alone = {} /\ sound = {} /\ clean = {}

-----------------------------------------------------------------------------
(* Edits.  One whose first statement fails changes nothing and is no edit.  *)

Move(e, from, to) == step[e] = from /\ step' = [step EXCEPT ![e] = to]

\* PUT /v1/skills/{name}: an upsert.
PutSkill(e) ==
    /\ Move(e, "new", "done")
    /\ skills' = [skills EXCEPT ![name[e]] = e]
    /\ clean' = {}
    /\ UNCHANGED <<servers, keys, name, kept, sessionVars, alone, sound>>

DeleteSkill(n) ==
    /\ skills[n] # None
    /\ skills' = [skills EXCEPT ![n] = None]
    /\ clean' = {}
    /\ UNCHANGED <<servers, keys, editVars, sessionVars, alone, sound>>

MutPutServerRead(e) ==  \* the SELECT does not ask for the name
    /\ Move(e, "new", "read")
    /\ \/ kept' = [kept EXCEPT ![e] = e] /\ UNCHANGED sound
       \/ \E n \in Names : kept' = [kept EXCEPT ![e] = servers[n].secret] /\ sound' = sound \cup {e}
    /\ UNCHANGED <<tables, name, sessionVars, alone, clean>>

\* PUT /v1/mcp/{name}: a request that brings no secret reads the stored one; a
\* SELECT that fails is taken for a server without one.
PutServerRead(e) ==
    /\ Move(e, "new", "read")
    /\ \/ kept' = [kept EXCEPT ![e] = e] /\ UNCHANGED sound
       \/ kept' = [kept EXCEPT ![e] = servers[name[e]].secret] /\ sound' = sound \cup {e}
       \/ UNCHANGED <<kept, sound>>
    /\ UNCHANGED <<tables, name, sessionVars, alone, clean>>

\* The edits of other servers, whose reading is not disturbed by one of n.
Elsewhere(n) == {e \in sound : name[e] # n}

\* The upsert.
PutServerWrite(e) ==
    /\ Move(e, "read", "done")
    /\ servers' = [servers EXCEPT ![name[e]] = [def |-> e, secret |-> kept[e]]]
    /\ sound' = Elsewhere(name[e])
    /\ kept' = [kept EXCEPT ![e] = None]
    /\ clean' = {}
    /\ UNCHANGED <<skills, keys, name, sessionVars, alone>>

DeleteServer(n) ==
    /\ servers[n] # NoServer
    /\ servers' = [servers EXCEPT ![n] = NoServer]
    /\ sound' = Elsewhere(n)
    /\ clean' = {}
    /\ UNCHANGED <<skills, keys, editVars, sessionVars, alone>>

Storing == {e \in Edits : step[e] = "cleared"}

MutStoreKeyDelete(e) ==  \* the old key is not deleted
    /\ Move(e, "new", "cleared")
    /\ alone' = IF Storing = {} THEN alone \cup {e} ELSE alone \ Storing
    /\ clean' = {}
    /\ UNCHANGED <<tables, name, kept, sessionVars, sound>>

\* POST /v1/keys: the DELETE, whose error is ignored.
StoreKeyDelete(e) ==
    /\ Move(e, "new", "cleared")
    /\ \/ /\ keys' = {}
          /\ alone' = IF Storing = {} THEN alone \cup {e} ELSE alone \ Storing
       \/ keys' = keys /\ alone' = {}
    /\ clean' = {}
    /\ UNCHANGED <<skills, servers, name, kept, sessionVars, sound>>

\* The INSERT: nothing makes user_id unique in api_keys.
StoreKeyInsert(e) ==
    /\ Move(e, "cleared", "done")
    /\ keys' = keys \cup {e}
    /\ clean' = {}
    /\ UNCHANGED <<skills, servers, name, kept, sessionVars, alone, sound>>

DeleteKey ==
    /\ keys # {} /\ keys' = {}
    /\ clean' = {}
    /\ UNCHANGED <<skills, servers, editVars, sessionVars, alone, sound>>

\* The second statement fails, or the request is abandoned before it.
DropEdit(e) ==
    /\ step[e] \in {"read", "cleared"}
    /\ step' = [step EXCEPT ![e] = "done"]
    /\ kept' = [kept EXCEPT ![e] = None]
    /\ sound' = sound \ {e}
    /\ UNCHANGED <<tables, name, sessionVars, alone, clean>>

-----------------------------------------------------------------------------
(* createSandbox.  A read that fails is taken for one that found nothing,  *)
(* and a row that cannot be read, or decrypted, is skipped.                *)

Advance(s, from, to) == session[s] = from /\ session' = [session EXCEPT ![s] = to]

\* The stored key is the first step of the request.
ReadKey(s) ==
    /\ Advance(s, "none", "key")
    /\ \E k \in Value :
         /\ IF keys = {} THEN k = None ELSE k \in keys \cup {None}
         /\ order' = [order EXCEPT ![s].key = k]
         /\ clean' = IF keys # {} /\ k = None THEN clean ELSE clean \cup {s}
    /\ UNCHANGED <<tables, editVars, home, snapshot, alone, sound>>

\* After the wait for a pod, which may take two minutes.  A request may ask not
\* to resume, and may fail to.
ReadSnapshot(s) ==
    /\ Advance(s, "key", "snapshot")
    /\ \E old \in {snapshot, EmptyHome} : order' = [order EXCEPT ![s].resume = old]
    /\ UNCHANGED <<tables, editVars, home, snapshot, alone, sound, clean>>

ReadSkills(s) ==
    /\ Advance(s, "snapshot", "skills")
    /\ \E lost \in SUBSET {n \in Names : skills[n] # None} :
         /\ order' = [order EXCEPT ![s].skills =
                         [n \in Names |-> IF n \in lost THEN None ELSE skills[n]]]
         /\ clean' = IF lost = {} THEN clean ELSE clean \ {s}
    /\ UNCHANGED <<tables, editVars, home, snapshot, alone, sound>>

MutReadServers(s) ==  \* a secret that cannot be decrypted leaves the one of another row
    /\ Advance(s, "skills", "servers")
    /\ \E bare \in Names, last \in Names :
         order' = [order EXCEPT ![s].servers = [servers EXCEPT ![bare].secret = servers[last].secret]]
    /\ clean' = clean \ {s}
    /\ UNCHANGED <<tables, editVars, home, snapshot, alone, sound>>

\* A secret that cannot be decrypted is left out of its server.
ReadServers(s) ==
    /\ Advance(s, "skills", "servers")
    /\ \E lost \in SUBSET {n \in Names : servers[n] # NoServer},
          bare \in SUBSET {n \in Names : servers[n].secret # None} :
         /\ order' = [order EXCEPT ![s].servers =
                         [n \in Names |-> IF n \in lost THEN NoServer
                                          ELSE IF n \in bare THEN [servers[n] EXCEPT !.secret = None]
                                          ELSE servers[n]]]
         /\ clean' = IF lost \cup bare = {} THEN clean ELSE clean \ {s}
    /\ UNCHANGED <<tables, editVars, home, snapshot, alone, sound>>

\* The ClaimRequest reaches the supervisor, which launches on its own.
Claim(s) ==
    /\ Advance(s, "servers", "claimed")
    /\ UNCHANGED <<tables, editVars, order, home, snapshot, alone, sound, clean>>

\* The request fails, or the pod ends.
End(s) ==
    /\ session[s] \notin {"none", "over"}
    /\ session' = [session EXCEPT ![s] = "over"]
    /\ order' = [order EXCEPT ![s] = NoOrder]
    /\ home' = [home EXCEPT ![s] = EmptyHome]
    /\ clean' = clean \ {s}
    /\ UNCHANGED <<tables, editVars, snapshot, alone, sound>>

-----------------------------------------------------------------------------
(* launch.  Each part warns of what fails and goes on.                     *)

\* restoreSnapshot: .claude.json first; a file that is cut short counts as none.
Restore(s) ==
    /\ Advance(s, "claimed", "restored")
    /\ \/ home' = [home EXCEPT ![s] = order[s].resume] /\ UNCHANGED clean
       \/ \E cut \in SUBSET Names :
            /\ order[s].resume # EmptyHome
            /\ home' = [home EXCEPT ![s] =
                           [order[s].resume EXCEPT !.skills =
                               [n \in Names |-> IF n \in cut THEN None ELSE @[n]]]]
            /\ clean' = clean \ {s}
       \/ order[s].resume # EmptyHome /\ clean' = clean \ {s} /\ UNCHANGED home
    /\ UNCHANGED <<tables, editVars, order, snapshot, alone, sound>>

MutWriteServers(s) ==  \* a server of the snapshot with the same name is kept
    /\ Advance(s, "restored", "configured")
    /\ home' = [home EXCEPT ![s].servers =
                   [n \in Names |-> IF @[n] # NoServer THEN @[n] ELSE order[s].servers[n]]]
    /\ UNCHANGED <<tables, editVars, order, snapshot, alone, sound, clean>>

\* writeMCPConfig replaces the servers in .claude.json, but is only called for some.
WriteServers(s) ==
    /\ Advance(s, "restored", "configured")
    /\ \/ /\ home' = IF order[s].servers = NoServers THEN home
                     ELSE [home EXCEPT ![s].servers = order[s].servers]
          /\ UNCHANGED clean
       \/ /\ order[s].servers # NoServers
          /\ \E left \in {home[s].servers, NoServers} :
               home' = [home EXCEPT ![s].servers = left]
          /\ clean' = clean \ {s}
    /\ UNCHANGED <<tables, editVars, order, snapshot, alone, sound>>

Wanted(s) == {n \in Names : order[s].skills[n] # None}

\* A file per skill, over the one that is there; then the harness starts.
WriteSkills(s) ==
    /\ Advance(s, "configured", "ready")
    /\ \E lost \in SUBSET Wanted(s) :
         /\ home' = [home EXCEPT ![s].skills =
                        [n \in Names |-> IF n \in Wanted(s) \ lost THEN order[s].skills[n]
                                         ELSE @[n]]]
         /\ clean' = IF lost = {} THEN clean ELSE clean \ {s}
    /\ UNCHANGED <<tables, editVars, order, snapshot, alone, sound>>

\* The home is saved, while it is set up or later.  That ~/.claude is there is all
\* that is asked: a snapshot with neither skills nor servers may have brought it.
Save(s) ==
    /\ session[s] \in {"restored", "configured", "ready"}
    /\ snapshot' = home[s]
    /\ UNCHANGED <<tables, editVars, session, order, home, alone, sound, clean>>

Next ==
    \/ \E e \in Edits : \/ PutSkill(e) \/ PutServerRead(e) \/ PutServerWrite(e)
                        \/ StoreKeyDelete(e) \/ StoreKeyInsert(e) \/ DropEdit(e)
    \/ \E n \in Names : DeleteSkill(n) \/ DeleteServer(n)
    \/ DeleteKey
    \/ \E s \in Sessions :
         \/ ReadKey(s) \/ ReadSnapshot(s) \/ ReadSkills(s) \/ ReadServers(s) \/ Claim(s)
         \/ End(s) \/ Restore(s) \/ WriteServers(s) \/ WriteSkills(s) \/ Save(s)

Spec == Init /\ [][Next]_vars

-----------------------------------------------------------------------------
(* Properties.                                                             *)

\* What the stored skills and servers make of the snapshot of session s.
StartSkills(s) == [n \in Names |-> IF skills[n] # None THEN skills[n] ELSE order[s].resume.skills[n]]
StartServers(s) == IF servers # NoServers THEN servers ELSE order[s].resume.servers

\* A session starts with the skills that are stored, in their stored text, and
\* with exactly the stored MCP servers when there are some; the snapshot that it
\* resumes adds nothing else, and one that resumes nothing has nothing else,
\* unless something failed or was edited since.
SessionsAreCurrent ==
    \A s \in clean : session[s] = "ready" =>
        home[s] = [skills |-> StartSkills(s), servers |-> StartServers(s)]

\* A key stored while no other one was being stored is the only one, short of a
\* DELETE that failed: only overlapping requests leave two.
LoneKeysReplace == \A e \in alone \cap keys : keys = {e}

\* A secret belongs to the server it was sent for, and an edit that brings none
\* stores the one that is there, unless the server changes or the SELECT fails.
SecretsAreKept ==
    /\ \A n \in Names : servers[n].secret \in Edits => name[servers[n].secret] = n
    /\ \A e \in sound : kept[e] = servers[name[e]].secret

\* Every text, definition and secret came, under its name, from an edit that is over.
Named(texts, defs) ==
    \A n \in Names : \A e \in {texts[n], defs[n].def, defs[n].secret} \cap Edits :
        name[e] = n /\ step[e] = "done"

\* What is stored, saved, on its way to a pod or in its home directory was sent
\* for the name it is found under, whichever sessions and snapshots it came by:
\* no server is given the secret of another one.
TextsKeepTheirNames ==
    /\ Named(skills, servers) /\ Named(snapshot.skills, snapshot.servers)
    /\ \A s \in Sessions : /\ Named(order[s].skills, order[s].servers)
                           /\ Named(order[s].resume.skills, order[s].resume.servers)
                           /\ Named(home[s].skills, home[s].servers)

\* "The skill is removed from all future sessions" (docs/docs/cli/skills.md): a
\* session requested after the deletion does not have it.
DeletedSkillsStayOut ==
    \A s \in clean : session[s] = "ready" =>
        \A n \in Names : skills[n] = None => home[s].skills[n] = None

\* What a session without a failure has read is what is stored, and launch turns
\* the snapshot into what the session starts with one part after the other.
OrdersAreCurrent ==
    \A s \in clean :
        /\ session[s] \in ReadSkillsBefore => order[s].skills = skills
        /\ session[s] \in ReadServersBefore => order[s].servers = servers
        /\ session[s] = "restored" => home[s] = order[s].resume
        /\ session[s] = "configured" =>
               home[s] = [skills |-> order[s].resume.skills, servers |-> StartServers(s)]

\* An edit that reads or stores has begun, and no secret comes from one that has not.
EditsAreInOrder ==
    /\ \A e \in sound : step[e] = "read"
    /\ \A e \in alone \cup keys : step[e] \in {"cleared", "done"}
    /\ \A e \in keys : step[e] = "done"
    /\ \A e \in alone : step[e] = "cleared" => Storing = {e} /\ keys = {}
    /\ Storing # {} => alone \cap keys = {}
    /\ \A e \in Edits : kept[e] \in Edits =>
           name[kept[e]] = name[e] /\ (kept[e] = e \/ step[kept[e]] = "done")

\* The inductive invariant behind the invariants above.
IInv ==
    /\ TypeOK /\ OrdersAreCurrent /\ EditsAreInOrder
    /\ SessionsAreCurrent /\ LoneKeysReplace /\ SecretsAreKept /\ TextsKeepTheirNames
=============================================================================
