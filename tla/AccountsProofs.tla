--------------------------- MODULE AccountsProofs ---------------------------
(* Accounts are never without an administrator, short of a deletion in the   *)
(* name of one that is gone, and no session outlives its account, for any    *)
(* number of accounts, requests and replicas.                                *)
EXTENDS Accounts, TLAPS

\* Nobody is there before the first replica starts.
LEMMA InitIInv == Init => IInv
<1> SUFFICES ASSUME Init PROVE IInv
  OBVIOUS
<1>1. TypeOK
  BY NoOneAssumption, AdminNameAssumption, AdminPasswordAssumption DEF Init, TypeOK
<1>2. ContextsAreTrue /\ NamesAreUnique
  BY DEF Init, ContextsAreTrue, NamesAreUnique
<1>3. AnAdminStays /\ SessionsHaveUsers /\ ChangesStayHome /\ ChecksHold /\ OneSeed
  BY DEF Init, AnAdminStays, SessionsHaveUsers, ChangesStayHome, ChecksHold, OneSeed
<1>4. QED
  BY <1>1, <1>2, <1>3 DEF IInv

\* An account that is added keeps names unique and has no session yet.
LEMMA InsertKeeps ==
  ASSUME IInv, NEW u \in Ids, NEW nm \in Names, NEW admin \in BOOLEAN,
         NEW pw \in Passwords, ~Taken(nm), InsertUser(u, nm, admin, pw)
  PROVE  /\ users' \subseteq used' /\ used' \subseteq Ids /\ used \subseteq used'
         /\ admins' \subseteq Ids /\ admins \subseteq admins' /\ fresh' \subseteq Ids
         /\ name' \in [Ids -> Names] /\ name'[u] = nm
         /\ password' \in [Ids -> Passwords]
         /\ \A v \in users : password'[v] = password[v]
         /\ u \notin users /\ u \notin used /\ u \in users' /\ u \in used'
         /\ \A v \in users' : v = u \/ (v \in users /\ name'[v] = name[v])
         /\ \A v \in used : name'[v] = name[v]
         /\ \A v, w \in users' : name'[v] = name'[w] => v = w
         /\ users \subseteq users'
         /\ \A v \in users' : v \notin fresh' => v \in users /\ v \notin fresh
<1>1. users \subseteq used /\ used \subseteq Ids /\ name \in [Ids -> Names] /\ u \notin used
  BY DEF IInv, TypeOK, InsertUser
<1>2. \A v \in users : name[v] # nm
  BY DEF Taken
<1>3. users' = users \cup {u} /\ used' = used \cup {u} /\ name' = [name EXCEPT ![u] = nm]
  BY DEF InsertUser
<1>4. \A v \in Ids : name'[v] = IF v = u THEN nm ELSE name[v]
  BY <1>1, <1>3
<1>5. \A v, w \in users' : name'[v] = name'[w] => v = w
  BY <1>1, <1>2, <1>3, <1>4 DEF IInv, NamesAreUnique
<1>6. /\ admins' \subseteq Ids /\ admins \subseteq admins' /\ fresh' = fresh \cup {u}
      /\ fresh \subseteq Ids
  BY DEF InsertUser, IInv, TypeOK
<1>7. name' \in [Ids -> Names]
  BY <1>1, <1>3
<1>8. /\ password' \in [Ids -> Passwords]
      /\ \A v \in users : password'[v] = password[v]
  BY <1>1 DEF InsertUser, IInv, TypeOK
<1>9. QED
  BY <1>1, <1>3, <1>4, <1>5, <1>6, <1>7, <1>8

\* A handler that is done knows nobody.
LEMMA LeaveKeeps ==
  ASSUME TypeOK, NEW h \in Handlers, Leave(h)
  PROVE  /\ stage' \in [Handlers -> {"idle", "login", "authed", "checked"}]
         /\ who' \in [Handlers -> Ids \cup {NoOne}]
         /\ rank' \in [Handlers -> BOOLEAN]
         /\ given' \in [Handlers -> Passwords]
         /\ stage'[h] = "idle" /\ rank'[h] = FALSE
         /\ \A g \in Handlers : g # h => /\ stage'[g] = stage[g] /\ who'[g] = who[g]
                                         /\ rank'[g] = rank[g] /\ given'[g] = given[g]
  BY AdminPasswordAssumption DEF TypeOK, Leave

\* The same, of one whose account got no other password.
LEMMA DoneKeeps ==
  ASSUME TypeOK, NEW h \in Handlers, Done(h)
  PROVE  /\ stage' \in [Handlers -> {"idle", "login", "authed", "checked"}]
         /\ who' \in [Handlers -> Ids \cup {NoOne}]
         /\ rank' \in [Handlers -> BOOLEAN]
         /\ given' \in [Handlers -> Passwords] /\ overtaken' \subseteq Handlers
         /\ stage'[h] = "idle" /\ rank'[h] = FALSE
         /\ \A g \in Handlers : g # h => /\ stage'[g] = stage[g] /\ who'[g] = who[g]
                                         /\ rank'[g] = rank[g] /\ given'[g] = given[g]
                                         /\ (g \in overtaken' <=> g \in overtaken)
  BY LeaveKeeps DEF TypeOK, Done

\* Statements that change no account keep its invariants.
LEMMA OtherSteps ==
  ASSUME IInv, UNCHANGED <<userVars, boot, history>>,
         NEW h \in Handlers,
         \A g \in Handlers : g # h => /\ stage'[g] = stage[g] /\ who'[g] = who[g]
                                      /\ rank'[g] = rank[g] /\ given'[g] = given[g]
                                      /\ (g \in overtaken' <=> g \in overtaken),
         stage'[h] \in {"login", "checked"} /\ who'[h] \in users /\ h \notin overtaken' =>
             given'[h] = password[who'[h]],
         stage'[h] # "idle" => who'[h] \in used,
         rank'[h] => who'[h] \in admins,
         stage'[h] = "idle" => ~rank'[h],
         TypeOK',
         \A t \in sessions' : owner'[t] \in users
  PROVE  IInv'
<1> USE DEF userVars, history
<1>1. ContextsAreTrue'
  BY DEF IInv, ContextsAreTrue
<1>2. NamesAreUnique'
  BY DEF IInv, NamesAreUnique
<1>3. AnAdminStays' /\ ChangesStayHome' /\ OneSeed' /\ SessionsHaveUsers'
  BY DEF IInv, AnAdminStays, ChangesStayHome, OneSeed, SessionsHaveUsers
<1>4. ChecksHold'
  BY DEF IInv, ChecksHold
<1>5. QED
  BY <1>1, <1>2, <1>3, <1>4 DEF IInv

\* A replica that starts seeds an administrator, or none.
LEMMA SeedStep ==
  ASSUME IInv, NEW p \in Replicas, SeedInsert(p)
  PROVE  IInv'
<1>1. UNCHANGED <<sessions, owner, expired, stage, who, rank, given,
                  overtaken, changed, late>>
  BY DEF SeedInsert, sessionVars, handlerVars
<1>2. boot' \in [Replicas -> {"off", "seeding", "up"}]
  BY DEF SeedInsert, IInv, TypeOK
<1>3. CASE UNCHANGED <<userVars, seeded>>
  <2>1. UNCHANGED <<users, used, name, admins, password, fresh, seeded>>
    BY <1>3 DEF userVars
  <2>2. TypeOK'
    BY <1>1, <1>2, <2>1 DEF IInv, TypeOK
  <2>3. ContextsAreTrue' /\ NamesAreUnique'
    BY <1>1, <2>1 DEF IInv, ContextsAreTrue, NamesAreUnique
  <2>4. AnAdminStays' /\ SessionsHaveUsers' /\ ChangesStayHome'
        /\ ChecksHold' /\ OneSeed'
    BY <1>1, <2>1 DEF IInv, AnAdminStays, SessionsHaveUsers, ChangesStayHome, ChecksHold,
       OneSeed
  <2>5. QED
    BY <2>2, <2>3, <2>4 DEF IInv
<1>4. ASSUME ~Taken(AdminName), NEW u \in Ids, InsertUser(u, AdminName, TRUE, AdminPassword),
             seeded' = seeded \cup {u}
      PROVE  IInv'
  <2>1. AdminName \in Names /\ TRUE \in BOOLEAN /\ AdminPassword \in Passwords
    BY AdminNameAssumption, AdminPasswordAssumption
  <2>2. /\ users' \subseteq used' /\ used' \subseteq Ids /\ used \subseteq used'
        /\ admins' \subseteq Ids /\ admins \subseteq admins' /\ fresh' \subseteq Ids
        /\ name' \in [Ids -> Names] /\ name'[u] = AdminName
        /\ password' \in [Ids -> Passwords]
        /\ \A v \in users : password'[v] = password[v]
        /\ u \notin users /\ u \notin used /\ u \in users' /\ u \in used'
        /\ \A v \in users' : v = u \/ (v \in users /\ name'[v] = name[v])
        /\ \A v \in used : name'[v] = name[v]
        /\ \A v, w \in users' : name'[v] = name'[w] => v = w
        /\ users \subseteq users'
        /\ \A v \in users' : v \notin fresh' => v \in users /\ v \notin fresh
    BY <1>4, <2>1, InsertKeeps
  <2>3. u \in admins'
    BY <1>4 DEF InsertUser
  <2>4. TypeOK'
    BY <1>1, <1>2, <1>4, <2>2 DEF IInv, TypeOK
  <2>5. ContextsAreTrue'
    BY <1>1, <2>2 DEF IInv, ContextsAreTrue
  <2>6. NamesAreUnique'
    BY <1>4, <2>2 DEF IInv, NamesAreUnique
  <2>7. AnAdminStays'
    BY <2>2, <2>3 DEF AnAdminStays
  <2>8. SessionsHaveUsers'
    BY <1>1, <2>2 DEF IInv, SessionsHaveUsers
  <2>9. ChangesStayHome'
    BY <1>1, <2>2 DEF IInv, ChangesStayHome
  <2>10. OneSeed'
    BY <2>2, <2>6 DEF OneSeed, NamesAreUnique
  <2>11. ChecksHold'
    BY <1>1, <2>2 DEF IInv, ChecksHold, ContextsAreTrue
  <2>12. QED
    BY <2>4, <2>5, <2>6, <2>7, <2>8, <2>9, <2>10, <2>11 DEF IInv
<1>5. QED
  BY <1>3, <1>4 DEF SeedInsert

\* An administrator adds an account.
LEMMA CreateStep ==
  ASSUME IInv, NEW h \in Handlers, NEW u \in Ids, NEW nm \in Names, NEW admin \in BOOLEAN,
         NEW pw \in Passwords, CreateUser(h, u, nm, admin, pw)
  PROVE  IInv'
<1>1. UNCHANGED <<sessions, owner, expired, boot, seeded, changed, late>> /\ Done(h)
      /\ ~Taken(nm) /\ InsertUser(u, nm, admin, pw) /\ rank[h] /\ stage[h] = "authed"
  BY DEF CreateUser, sessionVars, history
<1>2. /\ users' \subseteq used' /\ used' \subseteq Ids /\ used \subseteq used'
      /\ admins' \subseteq Ids /\ admins \subseteq admins' /\ fresh' \subseteq Ids
      /\ name' \in [Ids -> Names] /\ name'[u] = nm
      /\ password' \in [Ids -> Passwords]
      /\ \A v \in users : password'[v] = password[v]
      /\ u \notin users /\ u \notin used /\ u \in users' /\ u \in used'
      /\ \A v \in users' : v = u \/ (v \in users /\ name'[v] = name[v])
      /\ \A v \in used : name'[v] = name[v]
      /\ \A v, w \in users' : name'[v] = name'[w] => v = w
      /\ users \subseteq users'
      /\ \A v \in users' : v \notin fresh' => v \in users /\ v \notin fresh
  BY <1>1, InsertKeeps
<1>3. /\ stage' \in [Handlers -> {"idle", "login", "authed", "checked"}]
      /\ who' \in [Handlers -> Ids \cup {NoOne}]
      /\ rank' \in [Handlers -> BOOLEAN]
      /\ given' \in [Handlers -> Passwords] /\ overtaken' \subseteq Handlers
      /\ stage'[h] = "idle" /\ rank'[h] = FALSE
      /\ \A g \in Handlers : g # h => /\ stage'[g] = stage[g] /\ who'[g] = who[g]
                                      /\ rank'[g] = rank[g] /\ given'[g] = given[g]
                                      /\ (g \in overtaken' <=> g \in overtaken)
  BY <1>1, DoneKeeps DEF IInv
<1>4. TypeOK'
  BY <1>1, <1>2, <1>3 DEF IInv, TypeOK
<1>5. ContextsAreTrue'
  BY <1>2, <1>3 DEF IInv, ContextsAreTrue
<1>6. NamesAreUnique'
  BY <1>1, <1>2 DEF IInv, NamesAreUnique
<1>7. AnAdminStays'
  <2>1. used # {}
    BY <1>1 DEF IInv, ContextsAreTrue
  <2>2. ~late => users \cap admins # {}
    BY <2>1 DEF IInv, AnAdminStays
  <2>3. QED
    BY <1>1, <1>2, <2>2 DEF AnAdminStays
<1>8. SessionsHaveUsers'
  BY <1>1, <1>2 DEF IInv, SessionsHaveUsers
<1>9. ChangesStayHome'
  BY <1>1, <1>2 DEF IInv, ChangesStayHome
<1>10. OneSeed'
  BY <1>1, <1>2 DEF IInv, OneSeed, NamesAreUnique
<1>11. ChecksHold'
  BY <1>2, <1>3 DEF IInv, ChecksHold, ContextsAreTrue
<1>12. QED
  BY <1>4, <1>5, <1>6, <1>7, <1>8, <1>9, <1>10, <1>11 DEF IInv

\* An administrator who is still there remains when another account is deleted.
LEMMA DeleteStep ==
  ASSUME IInv, NEW h \in Handlers, NEW u \in Ids, DeleteUser(h, u)
  PROVE  IInv'
<1>1. /\ users' = users \ {u} /\ sessions' = {t \in sessions : owner[t] # u}
      /\ password' = [password EXCEPT ![u] = AdminPassword]
      /\ UNCHANGED <<used, name, admins, fresh, owner, expired, boot, seeded, changed>>
      /\ late' = (late \/ who[h] \notin users)
      /\ Done(h) /\ rank[h] /\ u # who[h]
  BY DEF DeleteUser, DeleteRow
<1>2. /\ stage' \in [Handlers -> {"idle", "login", "authed", "checked"}]
      /\ who' \in [Handlers -> Ids \cup {NoOne}]
      /\ rank' \in [Handlers -> BOOLEAN]
      /\ given' \in [Handlers -> Passwords] /\ overtaken' \subseteq Handlers
      /\ stage'[h] = "idle" /\ rank'[h] = FALSE
      /\ \A g \in Handlers : g # h => /\ stage'[g] = stage[g] /\ who'[g] = who[g]
                                      /\ rank'[g] = rank[g] /\ given'[g] = given[g]
                                      /\ (g \in overtaken' <=> g \in overtaken)
  BY <1>1, DoneKeeps DEF IInv
<1>3. TypeOK'
  <2>1. users' \subseteq used' /\ used' \subseteq Ids /\ sessions' \subseteq Tokens
    BY <1>1 DEF IInv, TypeOK
  <2>2. late' \in BOOLEAN /\ password' \in [Ids -> Passwords]
    BY <1>1, AdminPasswordAssumption DEF IInv, TypeOK
  <2>3. QED
    BY <1>1, <1>2, <2>1, <2>2 DEF IInv, TypeOK
<1>4. ContextsAreTrue'
  BY <1>1, <1>2 DEF IInv, ContextsAreTrue
<1>5. NamesAreUnique'
  BY <1>1 DEF IInv, NamesAreUnique
<1>6. AnAdminStays'
  <2>1. who[h] \in admins
    BY <1>1 DEF IInv, ContextsAreTrue
  <2>2. CASE who[h] \in users
    BY <1>1, <2>1, <2>2 DEF AnAdminStays
  <2>3. CASE who[h] \notin users
    BY <1>1, <2>3 DEF AnAdminStays
  <2>4. QED
    BY <2>2, <2>3
<1>7. SessionsHaveUsers'
  BY <1>1 DEF IInv, SessionsHaveUsers
<1>8. ChangesStayHome' /\ OneSeed'
  BY <1>1 DEF IInv, ChangesStayHome, OneSeed
<1>9. ChecksHold'
  <2>1. \A v \in users' : v \in users /\ password'[v] = password[v]
    BY <1>1 DEF IInv, TypeOK
  <2>2. QED
    BY <1>2, <2>1 DEF IInv, ChecksHold
<1>10. QED
  BY <1>3, <1>4, <1>5, <1>6, <1>7, <1>8, <1>9 DEF IInv

\* A password change clears the flag of its own account.
LEMMA PasswordStep ==
  ASSUME IInv, NEW h \in Handlers, NEW pw \in Passwords, PasswordWrite(h, pw)
  PROVE  IInv'
<1>1. /\ fresh' = fresh \ ({who[h]} \cap users) /\ changed' = changed \cup {who[h]}
      /\ UNCHANGED <<users, used, name, admins, sessions, owner, expired, boot, seeded, late>>
      /\ password' = [u \in Ids |-> IF u \in {who[h]} \cap users THEN pw ELSE password[u]]
      /\ overtaken' = (overtaken \cup Checked(who[h])) \ {h}
      /\ Leave(h) /\ stage[h] = "checked"
  BY DEF PasswordWrite, sessionVars
<1>2. /\ stage' \in [Handlers -> {"idle", "login", "authed", "checked"}]
      /\ who' \in [Handlers -> Ids \cup {NoOne}]
      /\ rank' \in [Handlers -> BOOLEAN]
      /\ given' \in [Handlers -> Passwords]
      /\ stage'[h] = "idle" /\ rank'[h] = FALSE
      /\ \A g \in Handlers : g # h => /\ stage'[g] = stage[g] /\ who'[g] = who[g]
                                      /\ rank'[g] = rank[g] /\ given'[g] = given[g]
  BY <1>1, LeaveKeeps DEF IInv
<1>3. who[h] \in Ids
  BY <1>1 DEF IInv, TypeOK, ContextsAreTrue
<1>4. TypeOK'
  <2>1. /\ fresh' \subseteq Ids /\ changed' \subseteq Ids
        /\ password' \in [Ids -> Passwords] /\ overtaken' \subseteq Handlers
    BY <1>1, <1>3 DEF IInv, TypeOK, Checked
  <2>2. QED
    BY <1>1, <1>2, <2>1 DEF IInv, TypeOK
<1>5. ContextsAreTrue' /\ NamesAreUnique'
  BY <1>1, <1>2 DEF IInv, ContextsAreTrue, NamesAreUnique
<1>6. ChangesStayHome'
  BY <1>1 DEF IInv, ChangesStayHome
<1>7. AnAdminStays' /\ SessionsHaveUsers' /\ OneSeed'
  BY <1>1 DEF IInv, AnAdminStays, SessionsHaveUsers, OneSeed
<1>8. ChecksHold'
  <2> SUFFICES ASSUME NEW g \in Handlers, stage'[g] \in {"login", "checked"},
                      who'[g] \in users', g \notin overtaken'
               PROVE  given'[g] = password'[who'[g]]
    BY DEF ChecksHold
  <2>1. g # h /\ stage[g] \in {"login", "checked"} /\ who[g] \in users /\ g \notin overtaken
    BY <1>1, <1>2
  <2>2. who[g] # who[h]
    BY <1>1, <2>1 DEF Checked
  <2>3. password'[who[g]] = password[who[g]]
    BY <1>1, <2>1, <2>2 DEF IInv, TypeOK
  <2>4. QED
    BY <1>2, <2>1, <2>3 DEF IInv, ChecksHold
<1>9. QED
  BY <1>4, <1>5, <1>6, <1>7, <1>8 DEF IInv

\* A request that fails, or stands between its statements, changes no account.
LEMMA RequestStep ==
  ASSUME IInv, NEW h \in Handlers,
         \/ Fail(h) \/ \E pw \in Passwords : PasswordCheck(h, pw)
         \/ \E nm \in Names, pw \in Passwords : LoginCheck(h, nm, pw)
         \/ \E t \in Tokens : RequireAuth(h, t)
  PROVE  IInv'
<1>1. UNCHANGED <<userVars, boot, history>> /\ UNCHANGED <<sessions, owner, expired>>
  BY DEF Fail, PasswordCheck, LoginCheck, RequireAuth, sessionVars
<1>2. UNCHANGED <<users, used, name, admins, password, fresh, seeded, changed, late>> /\ boot' = boot
  BY <1>1 DEF userVars, history
<1>3. \A v \in users : v \in used /\ v \in Ids
  BY DEF IInv, TypeOK
<1>4. /\ stage' \in [Handlers -> {"idle", "login", "authed", "checked"}]
      /\ who' \in [Handlers -> Ids \cup {NoOne}]
      /\ rank' \in [Handlers -> BOOLEAN]
      /\ given' \in [Handlers -> Passwords] /\ overtaken' \subseteq Handlers
      /\ \A g \in Handlers : g # h => /\ stage'[g] = stage[g] /\ who'[g] = who[g]
                                      /\ rank'[g] = rank[g] /\ given'[g] = given[g]
                                      /\ (g \in overtaken' <=> g \in overtaken)
      /\ stage'[h] \in {"login", "checked"} /\ who'[h] \in users /\ h \notin overtaken' =>
           given'[h] = password[who'[h]]
      /\ stage'[h] # "idle" => who'[h] \in used
      /\ rank'[h] => who'[h] \in admins
      /\ stage'[h] = "idle" => ~rank'[h]
  <2>1. CASE Fail(h)
    <3>1. Done(h)
      BY <2>1 DEF Fail
    <3>2. QED
      BY <3>1, DoneKeeps DEF IInv
  <2>2. CASE \E pw \in Passwords : PasswordCheck(h, pw)
    BY <2>2 DEF PasswordCheck, IInv, TypeOK, ContextsAreTrue
  <2>3. ASSUME NEW nm \in Names, NEW pw \in Passwords, LoginCheck(h, nm, pw)
        PROVE  /\ stage' \in [Handlers -> {"idle", "login", "authed", "checked"}]
               /\ who' \in [Handlers -> Ids \cup {NoOne}]
               /\ rank' \in [Handlers -> BOOLEAN]
               /\ given' \in [Handlers -> Passwords] /\ overtaken' \subseteq Handlers
               /\ \A g \in Handlers : g # h => /\ stage'[g] = stage[g] /\ who'[g] = who[g]
                                               /\ rank'[g] = rank[g] /\ given'[g] = given[g]
                                               /\ (g \in overtaken' <=> g \in overtaken)
               /\ stage'[h] \in {"login", "checked"} /\ who'[h] \in users /\ h \notin overtaken' =>
                    given'[h] = password[who'[h]]
               /\ stage'[h] # "idle" => who'[h] \in used
               /\ rank'[h] => who'[h] \in admins
               /\ stage'[h] = "idle" => ~rank'[h]
    BY <2>3, <1>3 DEF LoginCheck, IInv, TypeOK, ContextsAreTrue
  <2>4. ASSUME NEW t \in Tokens, RequireAuth(h, t)
        PROVE  /\ stage' \in [Handlers -> {"idle", "login", "authed", "checked"}]
               /\ who' \in [Handlers -> Ids \cup {NoOne}]
               /\ rank' \in [Handlers -> BOOLEAN]
               /\ given' \in [Handlers -> Passwords] /\ overtaken' \subseteq Handlers
               /\ \A g \in Handlers : g # h => /\ stage'[g] = stage[g] /\ who'[g] = who[g]
                                               /\ rank'[g] = rank[g] /\ given'[g] = given[g]
                                               /\ (g \in overtaken' <=> g \in overtaken)
               /\ stage'[h] \in {"login", "checked"} /\ who'[h] \in users /\ h \notin overtaken' =>
                    given'[h] = password[who'[h]]
               /\ stage'[h] # "idle" => who'[h] \in used
               /\ rank'[h] => who'[h] \in admins
               /\ stage'[h] = "idle" => ~rank'[h]
    BY <2>4, <1>3 DEF RequireAuth, IInv, TypeOK, ContextsAreTrue
  <2>5. QED
    BY <2>1, <2>2, <2>3, <2>4
<1>5. TypeOK'
  BY <1>1, <1>2, <1>4 DEF IInv, TypeOK
<1>6. \A s \in sessions' : owner'[s] \in users
  BY <1>1 DEF IInv, SessionsHaveUsers
<1>7. QED
  BY <1>1, <1>4, <1>5, <1>6, OtherSteps

\* The row of a new session refers to an account that is still there.
LEMMA LoginStep ==
  ASSUME IInv, NEW h \in Handlers, NEW t \in Tokens, LoginInsert(h, t)
  PROVE  IInv'
<1>1. /\ UNCHANGED <<userVars, boot, history>> /\ expired' = expired
      /\ who[h] \in users /\ sessions' = sessions \cup {t}
      /\ owner' = [owner EXCEPT ![t] = who[h]] /\ Done(h)
  BY DEF LoginInsert
<1>2. UNCHANGED <<users, used, name, admins, password, fresh, seeded, changed, late>> /\ boot' = boot
  BY <1>1 DEF userVars, history
<1>3. /\ stage' \in [Handlers -> {"idle", "login", "authed", "checked"}]
      /\ who' \in [Handlers -> Ids \cup {NoOne}]
      /\ rank' \in [Handlers -> BOOLEAN]
      /\ given' \in [Handlers -> Passwords] /\ overtaken' \subseteq Handlers
      /\ stage'[h] = "idle" /\ rank'[h] = FALSE
      /\ \A g \in Handlers : g # h => /\ stage'[g] = stage[g] /\ who'[g] = who[g]
                                      /\ rank'[g] = rank[g] /\ given'[g] = given[g]
                                      /\ (g \in overtaken' <=> g \in overtaken)
  BY <1>1, DoneKeeps DEF IInv
<1>4. sessions' \subseteq Tokens /\ owner' \in [Tokens -> Ids \cup {NoOne}]
  BY <1>1 DEF IInv, TypeOK
<1>5. TypeOK'
  BY <1>1, <1>2, <1>3, <1>4 DEF IInv, TypeOK
<1>6. \A s \in sessions' : owner'[s] \in users
  BY <1>1 DEF IInv, TypeOK, SessionsHaveUsers
<1>7. QED
  BY <1>1, <1>3, <1>5, <1>6, OtherSteps

\* What ends a session, or only moves a replica, leaves the accounts alone.
LEMMA QuietStep ==
  ASSUME IInv, UNCHANGED <<userVars, owner, handlerVars, history>>,
         sessions' \subseteq sessions, expired' \subseteq Tokens,
         boot' \in [Replicas -> {"off", "seeding", "up"}]
  PROVE  IInv'
<1>1. UNCHANGED <<users, used, name, admins, password, fresh, owner, stage, who, rank,
                  given, overtaken, seeded, changed, late>>
  BY DEF userVars, handlerVars, history
<1>2. TypeOK'
  BY <1>1 DEF IInv, TypeOK
<1>3. ContextsAreTrue' /\ NamesAreUnique'
  BY <1>1 DEF IInv, ContextsAreTrue, NamesAreUnique
<1>4. AnAdminStays' /\ SessionsHaveUsers' /\ ChangesStayHome' /\ ChecksHold' /\ OneSeed'
  BY <1>1 DEF IInv, AnAdminStays, SessionsHaveUsers, ChangesStayHome, ChecksHold, OneSeed
<1>5. QED
  BY <1>2, <1>3, <1>4 DEF IInv

\* Every step keeps the inductive invariant.
LEMMA IInvStep == IInv /\ [Next]_vars => IInv'
<1> SUFFICES ASSUME IInv, [Next]_vars PROVE IInv'
  OBVIOUS
<1>1. ASSUME NEW p \in Replicas, SeedCount(p) \/ SeedInsert(p) \/ Restart(p) PROVE IInv'
  <2>1. CASE SeedInsert(p)
    BY <2>1, SeedStep
  <2>2. CASE SeedCount(p) \/ Restart(p)
    <3>1. UNCHANGED <<userVars, owner, handlerVars, history>>
          /\ sessions' = sessions /\ expired' = expired
      BY <2>2 DEF SeedCount, Restart, sessionVars
    <3>2. boot' \in [Replicas -> {"off", "seeding", "up"}]
      BY <2>2 DEF SeedCount, Restart, IInv, TypeOK
    <3>3. expired' \subseteq Tokens
      BY <3>1 DEF IInv, TypeOK
    <3>4. QED
      BY <3>1, <3>2, <3>3, QuietStep
  <2>3. QED
    BY <1>1, <2>1, <2>2
<1>2. ASSUME NEW h \in Handlers,
             \/ Fail(h) \/ \E pw \in Passwords : PasswordCheck(h, pw)
             \/ \E nm \in Names, pw \in Passwords : LoginCheck(h, nm, pw)
             \/ \E t \in Tokens : RequireAuth(h, t)
      PROVE  IInv'
  BY <1>2, RequestStep
<1>3. ASSUME NEW h \in Handlers, NEW pw \in Passwords, PasswordWrite(h, pw) PROVE IInv'
  BY <1>3, PasswordStep
<1>4. ASSUME NEW h \in Handlers, NEW t \in Tokens, LoginInsert(h, t) PROVE IInv'
  BY <1>4, LoginStep
<1>5. ASSUME NEW h \in Handlers, NEW u \in Ids, DeleteUser(h, u) PROVE IInv'
  BY <1>5, DeleteStep
<1>6. ASSUME NEW h \in Handlers, NEW u \in Ids, NEW nm \in Names, NEW admin \in BOOLEAN,
             NEW pw \in Passwords, CreateUser(h, u, nm, admin, pw)
      PROVE  IInv'
  BY <1>6, CreateStep
<1>7. ASSUME NEW t \in Tokens, Logout(t) \/ Expire(t) PROVE IInv'
  <2>1. /\ UNCHANGED <<userVars, owner, handlerVars, history>> /\ boot' = boot
        /\ sessions' \subseteq sessions /\ expired' \subseteq expired \cup {t}
    BY <1>7 DEF Logout, Expire
  <2>2. expired' \subseteq Tokens /\ boot' \in [Replicas -> {"off", "seeding", "up"}]
    BY <2>1 DEF IInv, TypeOK
  <2>3. QED
    BY <2>1, <2>2, QuietStep
<1>8. CASE UNCHANGED vars
  <2>1. /\ UNCHANGED <<userVars, owner, handlerVars, history>> /\ boot' = boot
        /\ sessions' = sessions /\ expired' = expired
    BY <1>8 DEF vars, userVars, handlerVars, history
  <2>2. expired' \subseteq Tokens /\ boot' \in [Replicas -> {"off", "seeding", "up"}]
    BY <2>1 DEF IInv, TypeOK
  <2>3. QED
    BY <2>1, <2>2, QuietStep
<1>9. QED
  BY <1>1, <1>2, <1>3, <1>4, <1>5, <1>6, <1>7, <1>8 DEF Next

\* The conjunction that is inductive holds in every behaviour: requests whose
\* statements interleave in any way, replicas that start at any time.
THEOREM Invariance == Spec => []IInv
  BY InitIInv, IInvStep, PTL DEF Spec

\* Whatever requireAuth had read, deleteUser leaves an administrator, unless it
\* ran in the name of an account that was gone.
THEOREM AdminsStay == Spec => []AnAdminStays
<1>1. IInv => AnAdminStays
  BY DEF IInv
<1>2. QED
  BY <1>1, Invariance, PTL

\* A login that races the deletion of its account leaves no session behind.
THEOREM SessionsAreOfUsers == Spec => []SessionsHaveUsers
<1>1. IInv => SessionsHaveUsers
  BY DEF IInv
<1>2. QED
  BY <1>1, Invariance, PTL

\* A password change never reaches an account that took over the name.
THEOREM ChangesReachTheirOwn == Spec => []ChangesStayHome
<1>1. IInv => ChangesStayHome
  BY DEF IInv
<1>2. QED
  BY <1>1, Invariance, PTL

\* However the statements of logins and changes interleave, an undisturbed one acts on
\* the password that it checked.
THEOREM ChecksAreCurrent == Spec => []ChecksHold
<1>1. IInv => ChecksHold
  BY DEF IInv
<1>2. QED
  BY <1>1, Invariance, PTL

\* Any number of replicas seed one account.
THEOREM SeedIsOne == Spec => []OneSeed
<1>1. IInv => OneSeed
  BY DEF IInv
<1>2. QED
  BY <1>1, Invariance, PTL

\* Accounts change only through an empty table's replica and administrators.
THEOREM OnlyAdmins == Spec => OnlyAdminsChangeAccounts
<1> DEFINE Allowed ==
      users' # users =>
         \/ \E p \in Replicas : boot[p] = "seeding" /\ boot'[p] = "up"
         \/ \E h \in Handlers : who[h] \in admins /\ stage[h] = "authed" /\ stage'[h] = "idle"
<1>1. IInv /\ [Next]_vars => [Allowed]_vars
  <2> SUFFICES ASSUME IInv, [Next]_vars, users' # users
      PROVE  \/ \E p \in Replicas : boot[p] = "seeding" /\ boot'[p] = "up"
             \/ \E h \in Handlers :
                  who[h] \in admins /\ stage[h] = "authed" /\ stage'[h] = "idle"
    OBVIOUS
  <2>1. CASE \E p \in Replicas : SeedInsert(p)
    BY <2>1 DEF SeedInsert, IInv, TypeOK
  <2>2. ASSUME NEW h \in Handlers, stage[h] = "authed", rank[h], Done(h)
        PROVE  who[h] \in admins /\ stage'[h] = "idle"
    BY <2>2, DoneKeeps DEF IInv, ContextsAreTrue
  <2>3. CASE \E h \in Handlers, u \in Ids : DeleteUser(h, u)
    BY <2>2, <2>3 DEF DeleteUser
  <2>4. CASE \E h \in Handlers, u \in Ids, nm \in Names, admin \in BOOLEAN,
             pw \in Passwords : CreateUser(h, u, nm, admin, pw)
    BY <2>2, <2>4 DEF CreateUser
  <2>5. QED
    BY <2>1, <2>3, <2>4 DEF Next, vars, userVars, SeedCount, Restart, Fail, PasswordCheck,
       PasswordWrite, LoginCheck, LoginInsert, RequireAuth, Logout, Expire
<1>2. QED
  BY <1>1, Invariance, PTL DEF Spec, OnlyAdminsChangeAccounts
=============================================================================
