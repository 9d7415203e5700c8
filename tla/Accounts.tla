------------------------------ MODULE Accounts ------------------------------
(***************************************************************************)
(* The accounts of the control plane and their login sessions              *)
(* (internal/api/auth.go, users.go and middleware.go, and seedAdmin of     *)
(* cmd/controlplane/main.go).  Every statement is a transaction of its     *)
(* own, and a request makes two or three: what requireAuth has read may be *)
(* over when the handler acts on it.                                       *)
(***************************************************************************)
EXTENDS FiniteSets

CONSTANTS Ids,        \* users.id: a new one for every row
          Names,      \* users.username
          AdminName,  \* "admin", which is seeded
          Passwords,  \* what users.password_hash is made of
          AdminPassword, \* ADMIN_PASSWORD
          Tokens,     \* session tokens: a new one for every login
          Handlers,   \* goroutines that serve requests, one at a time
          Replicas,   \* processes of the control plane
          NoOne       \* no account

ASSUME NoOneAssumption == NoOne \notin Ids
ASSUME AdminNameAssumption == AdminName \in Names
ASSUME AdminPasswordAssumption == AdminPassword \in Passwords

VARIABLES
    users,     \* the rows of users
    used,      \* the ids that were ever given
    name,      \* username of each
    admins,    \* is_admin of each, which no statement changes
    password,  \* password_hash of each
    fresh,     \* must_change_password
    sessions,  \* the rows of sessions
    owner,     \* user_id of each token that was issued
    expired,   \* the tokens whose expires_at is past
    stage,     \* where each handler stands
    who,       \* the user id in its context, or the one its login found
    rank,      \* the admin flag in its context
    given,     \* the password that its request gave and that was right
    boot,      \* where each replica stands
    seeded,    \* the accounts that a replica seeded
    changed,   \* the accounts from which a password change was asked
    overtaken, \* handlers whose account got another password since they checked it
    late       \* an account was deleted by one that was itself deleted

vars == <<users, used, name, admins, password, fresh, sessions, owner, expired, stage,
          who, rank, given, overtaken, boot, seeded, changed, late>>
userVars == <<users, used, name, admins, password, fresh>>
sessionVars == <<sessions, owner, expired>>
handlerVars == <<stage, who, rank, given, overtaken>>
history == <<seeded, changed, late>>

TypeOK ==
    /\ users \subseteq used /\ used \subseteq Ids
    /\ admins \subseteq Ids /\ fresh \subseteq Ids
    /\ name \in [Ids -> Names] /\ password \in [Ids -> Passwords]
    /\ sessions \subseteq Tokens /\ expired \subseteq Tokens
    /\ owner \in [Tokens -> Ids \cup {NoOne}]
    /\ stage \in [Handlers -> {"idle", "login", "authed", "checked"}]
    /\ who \in [Handlers -> Ids \cup {NoOne}]
    /\ rank \in [Handlers -> BOOLEAN]
    /\ given \in [Handlers -> Passwords] /\ overtaken \subseteq Handlers
    /\ boot \in [Replicas -> {"off", "seeding", "up"}]
    /\ seeded \subseteq Ids /\ changed \subseteq Ids
    /\ late \in BOOLEAN

Init ==
    /\ users = {} /\ used = {} /\ admins = {} /\ fresh = {}
    /\ name = [u \in Ids |-> AdminName]
    /\ password = [u \in Ids |-> AdminPassword]
    /\ sessions = {} /\ expired = {}
    /\ owner = [t \in Tokens |-> NoOne]
    /\ stage = [h \in Handlers |-> "idle"]
    /\ who = [h \in Handlers |-> NoOne]
    /\ rank = [h \in Handlers |-> FALSE]
    /\ given = [h \in Handlers |-> AdminPassword] /\ overtaken = {}
    /\ boot = [p \in Replicas |-> "off"]
    /\ seeded = {} /\ changed = {} /\ late = FALSE

-----------------------------------------------------------------------------
(* The tables.                                                             *)

Taken(nm) == \E u \in users : name[u] = nm

\* INSERT INTO users, which UNIQUE allows.
InsertUser(u, nm, admin, pw) ==
    /\ u \notin used
    /\ users' = users \cup {u} /\ used' = used \cup {u}
    /\ name' = [name EXCEPT ![u] = nm]
    /\ password' = [password EXCEPT ![u] = pw]
    /\ admins' = IF admin THEN admins \cup {u} ELSE admins
    /\ fresh' = fresh \cup {u}

\* DELETE FROM users, and its cascade to sessions.
DeleteRow(u) ==
    /\ users' = users \ {u}
    /\ sessions' = {t \in sessions : owner[t] # u}
    /\ password' = [password EXCEPT ![u] = AdminPassword]  \* as before it was given
    /\ UNCHANGED <<used, name, admins, fresh, owner, expired>>

-----------------------------------------------------------------------------
(* A replica that starts.                                                  *)

\* SELECT COUNT(*); without an ADMIN_PASSWORD it ends there.
SeedCount(p) ==
    /\ boot[p] = "off"
    /\ \/ users = {} /\ boot' = [boot EXCEPT ![p] = "seeding"]
       \/ boot' = [boot EXCEPT ![p] = "up"]
    /\ UNCHANGED <<userVars, sessionVars, handlerVars, history>>

MutSeedInsert(p) ==  \* the username is not unique
    /\ boot[p] = "seeding"
    /\ boot' = [boot EXCEPT ![p] = "up"]
    /\ \E u \in Ids : /\ InsertUser(u, AdminName, TRUE, AdminPassword)
                     /\ seeded' = seeded \cup {u}
    /\ UNCHANGED <<sessionVars, handlerVars, changed, late>>

\* The INSERT, which another replica may have made meanwhile.
SeedInsert(p) ==
    /\ boot[p] = "seeding"
    /\ boot' = [boot EXCEPT ![p] = "up"]
    /\ \/ /\ ~Taken(AdminName)
          /\ \E u \in Ids : /\ InsertUser(u, AdminName, TRUE, AdminPassword)
                           /\ seeded' = seeded \cup {u}
       \/ UNCHANGED <<userVars, seeded>>
    /\ UNCHANGED <<sessionVars, handlerVars, changed, late>>

Restart(p) ==
    /\ boot[p] # "off"
    /\ boot' = [boot EXCEPT ![p] = "off"]
    /\ UNCHANGED <<userVars, sessionVars, handlerVars, history>>

-----------------------------------------------------------------------------
(* Requests.  Whatever is refused, fails or is abandoned changes nothing.  *)

Leave(h) ==
    /\ stage' = [stage EXCEPT ![h] = "idle"]
    /\ who' = [who EXCEPT ![h] = NoOne]
    /\ rank' = [rank EXCEPT ![h] = FALSE]
    /\ given' = [given EXCEPT ![h] = AdminPassword]

Done(h) == Leave(h) /\ overtaken' = overtaken \ {h}

Fail(h) ==
    /\ stage[h] # "idle"
    /\ Done(h)
    /\ UNCHANGED <<userVars, sessionVars, boot, history>>

\* POST /v1/auth/login: the name is found and the password is right.
LoginCheck(h, nm, pw) ==
    /\ stage[h] = "idle"
    /\ \E u \in users : name[u] = nm /\ password[u] = pw /\ who' = [who EXCEPT ![h] = u]
    /\ given' = [given EXCEPT ![h] = pw]
    /\ stage' = [stage EXCEPT ![h] = "login"]
    /\ UNCHANGED <<userVars, sessionVars, rank, overtaken, boot, history>>

MutLoginInsert(h, t) ==  \* sessions do not reference users
    /\ stage[h] = "login" /\ owner[t] = NoOne
    /\ sessions' = sessions \cup {t}
    /\ owner' = [owner EXCEPT ![t] = who[h]]
    /\ Done(h)
    /\ UNCHANGED <<userVars, expired, boot, history>>

\* The INSERT, which fails when the user is gone.
LoginInsert(h, t) ==
    /\ stage[h] = "login" /\ owner[t] = NoOne
    /\ who[h] \in users
    /\ sessions' = sessions \cup {t}
    /\ owner' = [owner EXCEPT ![t] = who[h]]
    /\ Done(h)
    /\ UNCHANGED <<userVars, expired, boot, history>>

\* POST /v1/auth/logout asks for no session; it answers 204 also when it fails.
Logout(t) ==
    /\ t \in sessions
    /\ sessions' = sessions \ {t}
    /\ UNCHANGED <<userVars, owner, expired, handlerVars, boot, history>>

Expire(t) ==
    /\ t \in sessions \ expired
    /\ expired' = expired \cup {t}
    /\ UNCHANGED <<userVars, sessions, owner, handlerVars, boot, history>>

\* requireAuth: the session's row joined with its user's.
RequireAuth(h, t) ==
    /\ stage[h] = "idle"
    /\ t \in sessions \ expired /\ owner[t] \in users
    /\ stage' = [stage EXCEPT ![h] = "authed"]
    /\ who' = [who EXCEPT ![h] = owner[t]]
    /\ rank' = [rank EXCEPT ![h] = owner[t] \in admins]
    /\ UNCHANGED <<userVars, sessionVars, given, overtaken, boot, history>>

\* PUT /v1/auth/password: the current one is right.
PasswordCheck(h, pw) ==
    /\ stage[h] = "authed" /\ who[h] \in users
    /\ password[who[h]] = pw
    /\ given' = [given EXCEPT ![h] = pw]
    /\ stage' = [stage EXCEPT ![h] = "checked"]
    /\ UNCHANGED <<userVars, sessionVars, who, rank, overtaken, boot, history>>

\* Who has checked the password of u, and acts on that.
Checked(u) == {g \in Handlers : stage[g] \in {"login", "checked"} /\ who[g] = u}

MutPasswordWrite(h, pw) ==  \* updates by username
    /\ stage[h] = "checked"
    /\ LET hit == {u \in users : name[u] = name[who[h]]} IN
         /\ password' = [u \in Ids |-> IF u \in hit THEN pw ELSE password[u]]
         /\ fresh' = fresh \ hit
    /\ changed' = changed \cup {who[h]}
    /\ overtaken' = (overtaken \cup Checked(who[h])) \ {h}
    /\ Leave(h)
    /\ UNCHANGED <<users, used, name, admins, sessionVars, boot, seeded, late>>

\* The UPDATE by id; 204 also when no row has it any more.
PasswordWrite(h, pw) ==
    /\ stage[h] = "checked"
    /\ LET hit == {who[h]} \cap users IN
         /\ password' = [u \in Ids |-> IF u \in hit THEN pw ELSE password[u]]
         /\ fresh' = fresh \ hit
    /\ changed' = changed \cup {who[h]}
    /\ overtaken' = (overtaken \cup Checked(who[h])) \ {h}
    /\ Leave(h)
    /\ UNCHANGED <<users, used, name, admins, sessionVars, boot, seeded, late>>

MutCreateUser(h, u, nm, admin, pw) ==  \* for every account
    /\ stage[h] = "authed"
    /\ ~Taken(nm)
    /\ InsertUser(u, nm, admin, pw)
    /\ Done(h)
    /\ UNCHANGED <<sessionVars, boot, history>>

\* POST /v1/users, behind requireAdmin.
CreateUser(h, u, nm, admin, pw) ==
    /\ stage[h] = "authed" /\ rank[h]
    /\ ~Taken(nm)
    /\ InsertUser(u, nm, admin, pw)
    /\ Done(h)
    /\ UNCHANGED <<sessionVars, boot, history>>

MutDeleteUser(h, u) ==  \* of oneself, too
    /\ stage[h] = "authed" /\ rank[h]
    /\ DeleteRow(u)
    /\ late' = (late \/ who[h] \notin users)
    /\ Done(h)
    /\ UNCHANGED <<boot, seeded, changed>>

\* DELETE /v1/users/{id}, behind requireAdmin; not of oneself.
DeleteUser(h, u) ==
    /\ stage[h] = "authed" /\ rank[h]
    /\ u # who[h]
    /\ DeleteRow(u)
    /\ late' = (late \/ who[h] \notin users)
    /\ Done(h)
    /\ UNCHANGED <<boot, seeded, changed>>

Next ==
    \/ \E p \in Replicas : SeedCount(p) \/ SeedInsert(p) \/ Restart(p)
    \/ \E h \in Handlers :
         \/ Fail(h)
         \/ \E pw \in Passwords : PasswordCheck(h, pw) \/ PasswordWrite(h, pw)
         \/ \E nm \in Names, pw \in Passwords : LoginCheck(h, nm, pw)
         \/ \E t \in Tokens : LoginInsert(h, t) \/ RequireAuth(h, t)
         \/ \E u \in Ids : DeleteUser(h, u)
         \/ \E u \in Ids, nm \in Names, admin \in BOOLEAN, pw \in Passwords :
              CreateUser(h, u, nm, admin, pw)
    \/ \E t \in Tokens : Logout(t) \/ Expire(t)

Spec == Init /\ [][Next]_vars

-----------------------------------------------------------------------------
(* Properties.                                                             *)

\* Once there is an account there is one that can administer the others, unless
\* an account was deleted in the name of one that was gone already: two
\* administrators who delete each other at once leave nobody, since deleteUser
\* looks at the caller's id and requireAdmin at what it read before.
AnAdminStays == used # {} /\ ~late => users \cap admins # {}

\* No login session outlives its account, though the deletion may come between
\* the check of the password and the INSERT.
SessionsHaveUsers == \A t \in sessions : owner[t] \in users

\* A password change reaches the account that asked for it and no other, though
\* the account may be deleted meanwhile and its name be given again.
ChangesStayHome == \A u \in users : u \notin fresh => u \in changed

\* Who has checked a password logs in, or replaces it, by the one that is in force,
\* unless a change of the same account that had checked it, too, came in between: the
\* later UPDATE wins without having known the other.
ChecksHold ==
    \A h \in Handlers :
        stage[h] \in {"login", "checked"} /\ who[h] \in users /\ h \notin overtaken =>
            given[h] = password[who[h]]

\* Replicas that start together seed one account.
OneSeed == \A u, v \in seeded \cap users : u = v

\* Accounts come and go only through a replica that starts on an empty table and
\* through administrators, present or past.
OnlyAdminsChangeAccounts ==
    [][users' # users =>
         \/ \E p \in Replicas : boot[p] = "seeding" /\ boot'[p] = "up"
         \/ \E h \in Handlers : who[h] \in admins /\ stage[h] = "authed" /\ stage'[h] = "idle"]_vars

\* A context's admin flag is that of its account, and the account was given.
ContextsAreTrue ==
    \A h \in Handlers :
        /\ stage[h] # "idle" => who[h] \in used
        /\ rank[h] => who[h] \in admins
        /\ stage[h] = "idle" => ~rank[h]

\* What is seeded has the seeded name, which is unique.
NamesAreUnique ==
    /\ \A u, v \in users : name[u] = name[v] => u = v
    /\ \A u \in seeded : name[u] = AdminName /\ u \in used

\* The inductive invariant behind the invariants above.
IInv ==
    /\ TypeOK /\ ContextsAreTrue /\ NamesAreUnique
    /\ AnAdminStays /\ SessionsHaveUsers /\ ChangesStayHome
    /\ ChecksHold /\ OneSeed
=============================================================================
