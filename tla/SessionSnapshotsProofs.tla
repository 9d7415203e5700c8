----------------------- MODULE SessionSnapshotsProofs -----------------------
(* Snapshots stay with their user, repository and branch, and go with their  *)
(* user, for any number of sandboxes, keys, stops and cut readings.          *)
EXTENDS SessionSnapshots, TLAPS

\* What the records of archives are made of.
LEMMA NothingTyped == Nothing \in Archives /\ \A q \in Sandboxes : ~(Nothing[q] > 0)
  BY BoundsAssumption DEF Nothing, Archives

\* A sandbox's push and its stops are writers, and its owner is a user.
LEMMA WritersTyped ==
  /\ \A s \in Sandboxes : <<s, 0>> \in Writers /\ <<s, 0>>[1] = s
  /\ \A w \in Writers : w[1] \in Sandboxes
  /\ \A w \in Stops : w \in Writers /\ w[1] \in Sandboxes
  /\ \A k \in Keys : k[1] \in Users
  BY BoundsAssumption DEF Writers, Stops, Keys

\* Before the first request the invariant holds.
LEMMA InitIInv == Init => IInv
<1> SUFFICES ASSUME Init PROVE IInv
  OBVIOUS
<1>1. TypeOK
  BY NothingTyped DEF Init, TypeOK
<1>2. KeysDoNotMix /\ ArchivesDoNotMix
  BY NothingTyped, WritersTyped DEF Init, KeysDoNotMix, ArchivesDoNotMix
<1>3. DeletedUsersLeaveNothing
  BY DEF Init, DeletedUsersLeaveNothing
<1>4. PodInv
  BY DEF Init, PodInv
<1>5. SnapshotsAreSessions /\ CopiesAreSessions
  BY DEF Init, SnapshotsAreSessions, CopiesAreSessions
<1>6. NotesAreStored
  BY NothingTyped, WritersTyped DEF Init, NotesAreStored, Nothing
<1>7. QED
  BY <1>1, <1>2, <1>3, <1>4, <1>5, <1>6 DEF IInv

\* What is cut out of an archive is an archive, and holds nothing new.
LEMMA CutsAreWithin ==
  ASSUME NEW a \in Archives, NEW b, b \in Fits(a) \/ b \in Readings(a)
  PROVE  b \in Archives /\ Within(b, a)
<1>1. Within(a, a)
  BY BoundsAssumption DEF Within, Archives
<1>2. QED
  BY <1>1 DEF Fits, Readings

\* Being part of an archive is transitive: a cut of a reading is within it.
LEMMA WithinKeepsZeros ==
  ASSUME NEW a \in Archives, NEW b \in Archives, Within(b, a), NEW q \in Sandboxes, b[q] > 0
  PROVE  a[q] > 0
  BY BoundsAssumption DEF Within, Archives

\* Every handler step, every step of a pod and every write keeps the types.
LEMMA TypeStep == TypeOK /\ [Next]_vars => TypeOK'
<1> SUFFICES ASSUME TypeOK, [Next]_vars PROVE TypeOK'
  OBVIOUS
<1>1. ASSUME NEW s \in Sandboxes, Lookup(s) PROVE TypeOK'
  BY <1>1, NothingTyped, WritersTyped DEF TypeOK, Lookup, createVars, podVars, writeVars, Owner
<1>2. ASSUME NEW s \in Sandboxes, Claim(s) PROVE TypeOK'
  BY <1>2, NothingTyped, WritersTyped DEF TypeOK, Claim, createVars, podVars, writeVars, Owner
<1>3. ASSUME NEW s \in Sandboxes, InsertRow(s) PROVE TypeOK'
  BY <1>3, NothingTyped, WritersTyped DEF TypeOK, InsertRow, createVars, podVars, writeVars, Owner
<1>4. ASSUME NEW s \in Sandboxes, Restore(s) PROVE TypeOK'
  <2>1. PICK a \in Readings(carry[s]) : home' = [home EXCEPT ![s] = a] /\ CountTorn(carry[s], a)
    BY <1>4 DEF Restore
  <2>2. a \in Archives
    BY CutsAreWithin DEF TypeOK
  <2>3. torn' \in Nat
    BY <2>1 DEF CountTorn, TypeOK
  <2>4. QED
    BY <1>4, <2>1, <2>2, <2>3 DEF TypeOK, Restore, createVars
<1>5. ASSUME NEW s \in Sandboxes, Work(s) PROVE TypeOK'
  <2>1. home[s] \in Archives /\ home[s][s] \in 0..MaxNotes
    BY DEF TypeOK, Archives
  <2>2. [home[s] EXCEPT ![s] = @ + 1] \in Archives
    BY <1>5, <2>1, BoundsAssumption DEF Work, Archives
  <2>3. home' \in [Sandboxes -> Archives]
    BY <1>5, <2>2 DEF Work, TypeOK
  <2>4. QED
    BY <1>5, <2>3 DEF TypeOK, Work, createVars, podVars, writeVars
<1>6. ASSUME NEW s \in Sandboxes, HarnessExit(s) PROVE TypeOK'
  BY <1>6, NothingTyped, WritersTyped DEF TypeOK, HarnessExit, createVars, podVars, writeVars, Owner
<1>7. ASSUME NEW s \in Sandboxes, PodEnds(s) PROVE TypeOK'
  BY <1>7, NothingTyped, WritersTyped DEF TypeOK, PodEnds, createVars, podVars, writeVars, Owner
<1>8. ASSUME NEW s \in Sandboxes, ExitPush(s) PROVE TypeOK'
  <2>1. PICK a \in Fits(home[s]) : got' = [got EXCEPT ![<<s, 0>>] = a] /\ CountTorn(home[s], a)
    BY <1>8 DEF ExitPush
  <2>2. a \in Archives
    BY CutsAreWithin DEF TypeOK
  <2>3. torn' \in Nat
    BY <2>1 DEF CountTorn, TypeOK
  <2>4. QED
    BY <1>8, <2>1, <2>2, <2>3, WritersTyped DEF TypeOK, ExitPush, createVars, podVars
<1>9. ASSUME NEW s \in Sandboxes, PushKey(s) PROVE TypeOK'
  BY <1>9, NothingTyped, WritersTyped DEF TypeOK, PushKey, createVars, podVars, writeVars, Owner
<1>10. ASSUME NEW w \in Stops, StopFetch(w) PROVE TypeOK'
  <2> DEFINE now == IF pod[w[1]] = "launching" THEN carry[w[1]] ELSE home[w[1]]
  <2>1. now \in Archives
    BY WritersTyped DEF TypeOK
  <2>2. PICK r \in Readings(now) : \E a \in Fits(r) :
            got' = [got EXCEPT ![w] = a] /\ CountTorn(now, a)
    BY <1>10 DEF StopFetch
  <2>3. PICK a \in Fits(r) : got' = [got EXCEPT ![w] = a] /\ CountTorn(now, a)
    BY <2>2
  <2> HIDE DEF now
  <2>4. a \in Archives
    BY <2>1, CutsAreWithin
  <2>5. torn' \in Nat
    BY <2>3 DEF CountTorn, TypeOK
  <2>6. QED
    BY <1>10, <2>3, <2>4, <2>5, WritersTyped DEF TypeOK, StopFetch, createVars, podVars
<1>11. ASSUME NEW w \in Writers, Upsert(w) PROVE TypeOK'
  BY <1>11, NothingTyped, WritersTyped DEF TypeOK, Upsert, createVars, podVars, writeVars, Owner
<1>12. ASSUME NEW u \in Users, DeleteUser(u) PROVE TypeOK'
  BY <1>12, NothingTyped, WritersTyped DEF TypeOK, DeleteUser, createVars, podVars, writeVars, Owner
<1>13. CASE UNCHANGED vars
  BY <1>13 DEF vars, createVars, podVars, writeVars, TypeOK
<1>14. QED
  BY <1>1, <1>2, <1>3, <1>4, <1>5, <1>6, <1>7, <1>8, <1>9, <1>10, <1>11, <1>12, <1>13 DEF Next

\* What is stored, restored and on its way stays with its key: a cut archive
\* holds nothing new, and both writers use the key of the create.
NotMixed == KeysDoNotMix /\ ArchivesDoNotMix

\* No step mixes the notes of two keys.
LEMMA KeysStep == TypeOK /\ NotMixed /\ [Next]_vars => NotMixed'
<1> SUFFICES ASSUME TypeOK, NotMixed, [Next]_vars PROVE NotMixed'
  OBVIOUS
<1>1. ASSUME NEW s \in Sandboxes, Lookup(s) PROVE NotMixed'
  BY <1>1, NothingTyped, WritersTyped DEF TypeOK, KeysDoNotMix, ArchivesDoNotMix, NotMixed, Lookup, createVars, podVars, writeVars
<1>2. ASSUME NEW s \in Sandboxes, Claim(s) PROVE NotMixed'
  BY <1>2, NothingTyped, WritersTyped DEF TypeOK, KeysDoNotMix, ArchivesDoNotMix, NotMixed, Claim, createVars, podVars, writeVars
<1>3. ASSUME NEW s \in Sandboxes, InsertRow(s) PROVE NotMixed'
  BY <1>3, NothingTyped, WritersTyped DEF TypeOK, KeysDoNotMix, ArchivesDoNotMix, NotMixed, InsertRow, createVars, podVars, writeVars
<1>4. ASSUME NEW s \in Sandboxes, Restore(s) PROVE NotMixed'
  <2>1. PICK a \in Readings(carry[s]) : home' = [home EXCEPT ![s] = a]
    BY <1>4 DEF Restore
  <2>2. carry[s] \in Archives /\ a \in Archives /\ Within(a, carry[s])
    BY CutsAreWithin DEF TypeOK
  <2>3. \A q \in Sandboxes : a[q] > 0 => key[q] = key[s]
    BY <2>2, WithinKeepsZeros DEF NotMixed, KeysDoNotMix
  <2>4. \A t, q \in Sandboxes : home'[t][q] > 0 => key[q] = key[t]
    BY <2>1, <2>3 DEF NotMixed, KeysDoNotMix, TypeOK
  <2>5. QED
    BY <1>4, <2>4 DEF KeysDoNotMix, ArchivesDoNotMix, NotMixed, Restore, createVars
<1>5. ASSUME NEW s \in Sandboxes, Work(s) PROVE NotMixed'
  <2>1. \A t, q \in Sandboxes : home'[t][q] = IF t = s /\ q = s THEN home[t][q] + 1 ELSE home[t][q]
    BY <1>5 DEF Work, TypeOK, Archives
  <2>2. \A t, q \in Sandboxes : home'[t][q] > 0 => key[q] = key[t]
    BY <2>1 DEF NotMixed, KeysDoNotMix
  <2>3. QED
    BY <1>5, <2>2 DEF KeysDoNotMix, ArchivesDoNotMix, NotMixed, Work, createVars, podVars, writeVars
<1>6. ASSUME NEW s \in Sandboxes, HarnessExit(s) PROVE NotMixed'
  BY <1>6, NothingTyped, WritersTyped DEF TypeOK, KeysDoNotMix, ArchivesDoNotMix, NotMixed, HarnessExit, createVars, podVars, writeVars
<1>7. ASSUME NEW s \in Sandboxes, PodEnds(s) PROVE NotMixed'
  BY <1>7, NothingTyped, WritersTyped DEF TypeOK, KeysDoNotMix, ArchivesDoNotMix, NotMixed, PodEnds, createVars, podVars, writeVars
<1>8. ASSUME NEW s \in Sandboxes, ExitPush(s) PROVE NotMixed'
  <2>1. PICK a \in Fits(home[s]) : got' = [got EXCEPT ![<<s, 0>>] = a]
    BY <1>8 DEF ExitPush
  <2>2. home[s] \in Archives /\ a \in Archives /\ Within(a, home[s])
    BY CutsAreWithin DEF TypeOK
  <2>3. \A q \in Sandboxes : a[q] > 0 => key[q] = key[s]
    BY <2>2, WithinKeepsZeros DEF NotMixed, KeysDoNotMix
  <2>4. ArchivesDoNotMix'
    BY <1>8, <2>1, <2>3, WritersTyped DEF TypeOK, NotMixed, ArchivesDoNotMix, ExitPush
  <2>5. QED
    BY <1>8, <2>4 DEF NotMixed, KeysDoNotMix, ExitPush, createVars, podVars
<1>9. ASSUME NEW s \in Sandboxes, PushKey(s) PROVE NotMixed'
  BY <1>9, NothingTyped, WritersTyped DEF TypeOK, KeysDoNotMix, ArchivesDoNotMix, NotMixed, PushKey, createVars, podVars, writeVars
<1>10. ASSUME NEW w \in Stops, StopFetch(w) PROVE NotMixed'
  <2> DEFINE now == IF pod[w[1]] = "launching" THEN carry[w[1]] ELSE home[w[1]]
  <2>1. now \in Archives /\ \A q \in Sandboxes : now[q] > 0 => key[q] = key[w[1]]
    BY WritersTyped DEF TypeOK, NotMixed, KeysDoNotMix
  <2>2. PICK r \in Readings(now) : \E a \in Fits(r) : got' = [got EXCEPT ![w] = a]
    BY <1>10 DEF StopFetch
  <2>3. PICK a \in Fits(r) : got' = [got EXCEPT ![w] = a]
    BY <2>2
  <2> HIDE DEF now
  <2>4. r \in Archives /\ Within(r, now)
    BY <2>1, CutsAreWithin
  <2>5. a \in Archives /\ Within(a, r)
    BY <2>4, CutsAreWithin
  <2>6. \A q \in Sandboxes : a[q] > 0 => key[q] = key[w[1]]
    BY <2>1, <2>4, <2>5, WithinKeepsZeros
  <2>7. ArchivesDoNotMix'
    BY <1>10, <2>3, <2>6, WritersTyped DEF TypeOK, NotMixed, ArchivesDoNotMix, StopFetch
  <2>8. QED
    BY <1>10, <2>7 DEF NotMixed, KeysDoNotMix, StopFetch, createVars, podVars
<1>11. ASSUME NEW w \in Writers, Upsert(w) PROVE NotMixed'
  BY <1>11, NothingTyped, WritersTyped DEF TypeOK, KeysDoNotMix, ArchivesDoNotMix, NotMixed, Upsert, createVars, podVars, writeVars
<1>12. ASSUME NEW u \in Users, DeleteUser(u) PROVE NotMixed'
  BY <1>12, NothingTyped, WritersTyped DEF TypeOK, KeysDoNotMix, ArchivesDoNotMix, NotMixed, DeleteUser, createVars, podVars, writeVars
<1>13. CASE UNCHANGED vars
  BY <1>13 DEF vars, createVars, podVars, writeVars, KeysDoNotMix, ArchivesDoNotMix, NotMixed
<1>14. QED
  BY <1>1, <1>2, <1>3, <1>4, <1>5, <1>6, <1>7, <1>8, <1>9, <1>10, <1>11, <1>12, <1>13 DEF Next

\* A write under way when its user is deleted stores nothing afterwards.
LEMMA UsersStep == TypeOK /\ DeletedUsersLeaveNothing /\ [Next]_vars => DeletedUsersLeaveNothing'
<1> SUFFICES ASSUME TypeOK, DeletedUsersLeaveNothing, [Next]_vars PROVE DeletedUsersLeaveNothing'
  OBVIOUS
<1>1. ASSUME NEW s \in Sandboxes, Lookup(s) PROVE DeletedUsersLeaveNothing'
  BY <1>1, NothingTyped, WritersTyped DEF TypeOK, DeletedUsersLeaveNothing, Lookup, createVars, podVars, writeVars, Owner
<1>2. ASSUME NEW s \in Sandboxes, Claim(s) PROVE DeletedUsersLeaveNothing'
  BY <1>2, NothingTyped, WritersTyped DEF TypeOK, DeletedUsersLeaveNothing, Claim, createVars, podVars, writeVars, Owner
<1>3. ASSUME NEW s \in Sandboxes, InsertRow(s) PROVE DeletedUsersLeaveNothing'
  BY <1>3, NothingTyped, WritersTyped DEF TypeOK, DeletedUsersLeaveNothing, InsertRow, createVars, podVars, writeVars, Owner
<1>4. ASSUME NEW s \in Sandboxes, Restore(s) PROVE DeletedUsersLeaveNothing'
  BY <1>4, NothingTyped, WritersTyped DEF TypeOK, DeletedUsersLeaveNothing, Restore, createVars, podVars, writeVars, Owner
<1>5. ASSUME NEW s \in Sandboxes, Work(s) PROVE DeletedUsersLeaveNothing'
  BY <1>5, NothingTyped, WritersTyped DEF TypeOK, DeletedUsersLeaveNothing, Work, createVars, podVars, writeVars, Owner
<1>6. ASSUME NEW s \in Sandboxes, HarnessExit(s) PROVE DeletedUsersLeaveNothing'
  BY <1>6, NothingTyped, WritersTyped DEF TypeOK, DeletedUsersLeaveNothing, HarnessExit, createVars, podVars, writeVars, Owner
<1>7. ASSUME NEW s \in Sandboxes, PodEnds(s) PROVE DeletedUsersLeaveNothing'
  BY <1>7, NothingTyped, WritersTyped DEF TypeOK, DeletedUsersLeaveNothing, PodEnds, createVars, podVars, writeVars, Owner
<1>8. ASSUME NEW s \in Sandboxes, ExitPush(s) PROVE DeletedUsersLeaveNothing'
  BY <1>8, NothingTyped, WritersTyped DEF TypeOK, DeletedUsersLeaveNothing, ExitPush, createVars, podVars, writeVars, Owner
<1>9. ASSUME NEW s \in Sandboxes, PushKey(s) PROVE DeletedUsersLeaveNothing'
  BY <1>9, NothingTyped, WritersTyped DEF TypeOK, DeletedUsersLeaveNothing, PushKey, createVars, podVars, writeVars, Owner
<1>10. ASSUME NEW w \in Stops, StopFetch(w) PROVE DeletedUsersLeaveNothing'
  BY <1>10, NothingTyped, WritersTyped DEF TypeOK, DeletedUsersLeaveNothing, StopFetch, createVars, podVars, writeVars, Owner
<1>11. ASSUME NEW w \in Writers, Upsert(w) PROVE DeletedUsersLeaveNothing'
  BY <1>11, NothingTyped, WritersTyped DEF TypeOK, DeletedUsersLeaveNothing, Upsert, createVars, podVars, writeVars, Owner
<1>12. ASSUME NEW u \in Users, DeleteUser(u) PROVE DeletedUsersLeaveNothing'
  BY <1>12, NothingTyped, WritersTyped DEF TypeOK, DeletedUsersLeaveNothing, DeleteUser, createVars, podVars, writeVars, Owner
<1>13. CASE UNCHANGED vars
  BY <1>13 DEF vars, createVars, podVars, writeVars, DeletedUsersLeaveNothing
<1>14. QED
  BY <1>1, <1>2, <1>3, <1>4, <1>5, <1>6, <1>7, <1>8, <1>9, <1>10, <1>11, <1>12, <1>13 DEF Next

-----------------------------------------------------------------------------
(* What is stored is a session.                                            *)

\* An archive holds all of itself, and what holds all of it holds all that it holds.
LEMMA WithinOrders ==
  /\ \A a \in Archives : Within(a, a)
  /\ \A a, b, c \in Archives : Within(a, b) /\ Within(b, c) => Within(a, c)
  /\ \A a \in Archives : Within(a, Nothing) => a = Nothing
<1>1. \A a \in Archives : Within(a, a)
  BY BoundsAssumption DEF Within, Archives
<1>2. \A a, b, c \in Archives : Within(a, b) /\ Within(b, c) => Within(a, c)
  <2>1. SUFFICES ASSUME NEW a \in Archives, NEW b \in Archives, NEW c \in Archives,
                        Within(a, b), Within(b, c), NEW q \in Sandboxes
                 PROVE  a[q] <= c[q]
    BY DEF Within
  <2>2. a[q] \in Int /\ b[q] \in Int /\ c[q] \in Int /\ a[q] <= b[q] /\ b[q] <= c[q]
    BY <2>1, BoundsAssumption DEF Within, Archives
  <2>3. QED
    BY <2>2
<1>3. ASSUME NEW a \in Archives, Within(a, Nothing) PROVE a = Nothing
  <2>1. \A q \in Sandboxes : a[q] = 0
    BY <1>3, BoundsAssumption DEF Within, Nothing, Archives
  <2>2. QED
    BY <2>1 DEF Nothing, Archives
<1>4. QED
  BY <1>1, <1>2, <1>3

\* How each step changes what the pods hold and what is carried to them.
LEMMA HomesGrow ==
  ASSUME TypeOK, PodInv, [Next]_vars
  PROVE  /\ key' = key /\ torn' >= torn
         /\ \A s \in Sandboxes : \/ carry'[s] = carry[s] /\ Within(home[s], home'[s])
                                 \/ home[s] = Nothing
<1>1. \A s \in Sandboxes : Within(home[s], home[s])
  BY WithinOrders DEF TypeOK
<1>2. torn \in Int
  BY DEF TypeOK
<1>3. ASSUME NEW s \in Sandboxes, Lookup(s)
      PROVE  /\ key' = key /\ torn' = torn /\ home' = home /\ home[s] = Nothing
             /\ \A t \in Sandboxes \ {s} : carry'[t] = carry[t]
  <2>1. PICK a : carry' = [carry EXCEPT ![s] = a]
    BY <1>3 DEF Lookup
  <2>2. home[s] = Nothing
    BY <1>3 DEF Lookup, PodInv
  <2>3. QED
    BY <1>3, <2>1, <2>2 DEF Lookup, podVars, writeVars, TypeOK
<1>4. ASSUME NEW s \in Sandboxes, Restore(s)
      PROVE  /\ key' = key /\ torn' >= torn /\ carry' = carry /\ home[s] = Nothing
             /\ \A t \in Sandboxes \ {s} : home'[t] = home[t]
  BY <1>2, <1>4 DEF Restore, CountTorn, createVars, PodInv, TypeOK
<1>5. ASSUME NEW s \in Sandboxes, Work(s)
      PROVE  /\ key' = key /\ torn' = torn /\ carry' = carry
             /\ \A t \in Sandboxes : Within(home[t], home'[t])
  <2>1. \A t, q \in Sandboxes : home'[t][q] = IF t = s /\ q = s THEN home[t][q] + 1 ELSE home[t][q]
    BY <1>5 DEF Work, TypeOK, Archives
  <2>2. \A t, q \in Sandboxes : home[t][q] \in Int
    BY BoundsAssumption DEF TypeOK, Archives
  <2>3. \A t \in Sandboxes : Within(home[t], home'[t])
    BY <2>1, <2>2 DEF Within
  <2>4. QED
    BY <1>5, <2>3 DEF Work, createVars, writeVars
<1>6. ASSUME NEW s \in Sandboxes, Claim(s) \/ InsertRow(s) \/ HarnessExit(s) \/ PodEnds(s) \/ PushKey(s)
      PROVE  UNCHANGED <<key, torn, carry, home>>
  BY <1>6 DEF Claim, InsertRow, HarnessExit, PodEnds, PushKey, createVars, podVars, writeVars
<1>7. ASSUME NEW s \in Sandboxes, ExitPush(s) PROVE UNCHANGED <<key, carry, home>> /\ torn' >= torn
  BY <1>2, <1>7 DEF ExitPush, CountTorn, createVars, podVars
<1>8. ASSUME NEW w \in Stops, StopFetch(w) PROVE UNCHANGED <<key, carry, home>> /\ torn' >= torn
  BY <1>2, <1>8 DEF StopFetch, CountTorn, createVars, podVars
<1>9. ASSUME NEW w \in Writers, Upsert(w) PROVE UNCHANGED <<key, torn, carry, home>>
  BY <1>9 DEF Upsert, createVars, podVars
<1>10. ASSUME NEW u \in Users, DeleteUser(u) PROVE UNCHANGED <<key, torn, carry, home>>
  BY <1>10 DEF DeleteUser, createVars, podVars, writeVars
<1>11. CASE UNCHANGED <<key, torn, carry, home>>
  BY <1>1, <1>2, <1>11
<1>12. CASE UNCHANGED vars
  BY <1>11, <1>12 DEF vars, createVars, podVars, writeVars
<1>13. QED
  BY <1>1, <1>2, <1>3, <1>4, <1>5, <1>6, <1>7, <1>8, <1>9, <1>10, <1>11, <1>12 DEF Next

\* What was a session stays one: its pod only adds, and no create looks up twice.
LEMMA SessionsStay ==
  ASSUME TypeOK, TypeOK', PodInv, [Next]_vars, NEW k \in Keys, NEW a \in Archives,
         a # Nothing, IsASession(k, a)
  PROVE  IsASession(k, a)'
<1>1. PICK s \in Sandboxes : key[s] = k /\ Within(carry[s], a) /\ Within(a, home[s])
  BY DEF IsASession
<1>2. home[s] # Nothing
  BY <1>1, WithinOrders
<1>3. carry'[s] = carry[s] /\ Within(home[s], home'[s]) /\ key' = key
  BY <1>2, HomesGrow
<1>4. Within(a, home'[s])
  BY <1>1, <1>3, WithinOrders DEF TypeOK
<1>5. key'[s] = k /\ Within(carry'[s], a)
  BY <1>1, <1>3
<1>6. QED
  BY <1>4, <1>5 DEF IsASession, Within

\* A pod that runs is where its create has been.
LEMMA PodStep == TypeOK /\ TypeOK' /\ PodInv /\ [Next]_vars => PodInv'
<1> SUFFICES ASSUME TypeOK, TypeOK', PodInv, [Next]_vars PROVE PodInv'
  OBVIOUS
<1>0. torn' = 0 => torn = 0
  BY HomesGrow DEF TypeOK
<1>1. ASSUME NEW s \in Sandboxes, Lookup(s) PROVE PodInv'
  <2>1. PICK a : carry' = [carry EXCEPT ![s] = a]
    BY <1>1 DEF Lookup
  <2>2. pod[s] = "none" /\ create' = [create EXCEPT ![s] = "looked"] /\ UNCHANGED <<pod, home>>
    BY <1>1 DEF Lookup, PodInv, podVars
  <2>3. \A t \in Sandboxes \ {s} : carry'[t] = carry[t] /\ create'[t] = create[t]
    BY <2>1, <2>2 DEF TypeOK
  <2>4. QED
    BY <1>0, <2>2, <2>3 DEF PodInv
<1>2. ASSUME NEW s \in Sandboxes, Claim(s) PROVE PodInv'
  <2>1. pod[s] = "none" /\ create'[s] \in {"claimed", "done"} /\ pod'[s] \in {"none", "launching"}
    BY <1>2 DEF Claim, PodInv, TypeOK
  <2>2. /\ \A t \in Sandboxes \ {s} : pod'[t] = pod[t] /\ create'[t] = create[t]
        /\ UNCHANGED <<carry, home>>
    BY <1>2 DEF Claim, TypeOK
  <2>3. QED
    BY <1>0, <2>1, <2>2 DEF PodInv
<1>3. ASSUME NEW s \in Sandboxes, InsertRow(s) PROVE PodInv'
  BY <1>0, <1>3 DEF InsertRow, PodInv, podVars, TypeOK
<1>4. ASSUME NEW s \in Sandboxes, Restore(s) PROVE PodInv'
  <2>1. PICK a : home' = [home EXCEPT ![s] = a] /\ CountTorn(carry[s], a)
    BY <1>4 DEF Restore
  <2>2. torn' = 0 => a = carry[s]
    BY <1>0, <2>1 DEF CountTorn
  <2>3. torn' = 0 => Within(carry[s], home'[s])
    BY <2>1, <2>2, WithinOrders DEF TypeOK
  <2>4. /\ pod[s] = "launching" /\ pod'[s] = "running" /\ UNCHANGED <<create, carry>>
        /\ \A t \in Sandboxes \ {s} : pod'[t] = pod[t] /\ home'[t] = home[t]
    BY <1>4, <2>1 DEF Restore, createVars, TypeOK
  <2>5. QED
    BY <1>0, <2>3, <2>4 DEF PodInv, Within
<1>5. ASSUME NEW s \in Sandboxes, Work(s) PROVE PodInv'
  <2>1. pod[s] = "running" /\ UNCHANGED <<create, carry, pod>>
    BY <1>5 DEF Work, createVars
  <2>2. \A t \in Sandboxes \ {s} : home'[t] = home[t]
    BY <1>5 DEF Work, TypeOK
  <2>3. ASSUME torn' = 0 PROVE Within(carry[s], home'[s])
    <3>1. \A q \in Sandboxes : home'[s][q] = IF q = s THEN home[s][q] + 1 ELSE home[s][q]
      BY <1>5 DEF Work, TypeOK, Archives
    <3>2. \A q \in Sandboxes : carry[s][q] <= home[s][q]
      BY <1>0, <2>1, <2>3 DEF PodInv, Within
    <3>3. \A q \in Sandboxes : carry[s][q] \in Int /\ home[s][q] \in Int
      BY BoundsAssumption DEF TypeOK, Archives
    <3>4. QED
      BY <3>1, <3>2, <3>3 DEF Within
  <2>4. QED
    BY <1>0, <2>1, <2>2, <2>3 DEF PodInv
<1>6. ASSUME NEW s \in Sandboxes, HarnessExit(s) \/ PodEnds(s) PROVE PodInv'
  <2>1. pod'[s] \in {"exited", "over"} /\ create[s] \notin {"new", "looked"} /\ UNCHANGED <<create, carry, home>>
    BY <1>6 DEF HarnessExit, PodEnds, PodInv, createVars, TypeOK
  <2>2. \A t \in Sandboxes \ {s} : pod'[t] = pod[t]
    BY <1>6 DEF HarnessExit, PodEnds, TypeOK
  <2>3. pod'[s] = "exited" => pod[s] = "running"
    BY <1>6 DEF HarnessExit, PodEnds, TypeOK
  <2>4. QED
    BY <1>0, <2>1, <2>2, <2>3 DEF PodInv
<1>7. ASSUME UNCHANGED <<create, carry, pod, home>> PROVE PodInv'
  BY <1>0, <1>7 DEF PodInv, Within
<1>8. ASSUME NEW s \in Sandboxes, ExitPush(s) \/ PushKey(s) PROVE PodInv'
  BY <1>7, <1>8 DEF ExitPush, PushKey, createVars, podVars
<1>9. ASSUME NEW w \in Stops, StopFetch(w) PROVE PodInv'
  BY <1>7, <1>9 DEF StopFetch, createVars, podVars
<1>10. ASSUME NEW w \in Writers, Upsert(w) PROVE PodInv'
  BY <1>7, <1>10 DEF Upsert, createVars, podVars
<1>11. ASSUME NEW u \in Users, DeleteUser(u) PROVE PodInv'
  BY <1>7, <1>11 DEF DeleteUser, createVars, podVars
<1>12. CASE UNCHANGED vars
  BY <1>7, <1>12 DEF vars, createVars, podVars
<1>13. QED
  BY <1>1, <1>2, <1>3, <1>4, <1>5, <1>6, <1>8, <1>9, <1>10, <1>11, <1>12 DEF Next

\* What is stored, carried and on its way.
Sessions == SnapshotsAreSessions /\ CopiesAreSessions

\* A new copy is an old one, or ~/.claude of a session as a whole.
LEMMA CopiesStep == TypeOK /\ TypeOK' /\ PodInv /\ Sessions /\ [Next]_vars => Sessions'
<1> SUFFICES ASSUME TypeOK, TypeOK', PodInv, Sessions, [Next]_vars, torn' = 0
             PROVE  /\ \A k \in Keys : stored'[k] # Nothing => IsASession(k, stored[k])'
                    /\ \A s \in Sandboxes : carry'[s] # Nothing => IsASession(key[s], carry[s])'
                    /\ \A w \in Writers : got'[w] # Nothing => IsASession(key[w[1]], got[w])'
  BY DEF Sessions, SnapshotsAreSessions, CopiesAreSessions
<1>1. torn = 0 /\ key' = key
  BY HomesGrow DEF TypeOK
<1> DEFINE Old(k, a) == a # Nothing => IsASession(k, a)
           New(k, a) == \E s \in Sandboxes : key'[s] = k /\ Within(carry'[s], a) /\ Within(a, home'[s])
<1>2. /\ \A k \in Keys : stored[k] \in Archives /\ Old(k, stored[k])
      /\ \A s \in Sandboxes : key[s] \in Keys /\ carry[s] \in Archives /\ Old(key[s], carry[s])
      /\ \A w \in Writers : key[w[1]] \in Keys /\ got[w] \in Archives /\ Old(key[w[1]], got[w])
  BY <1>1, WritersTyped DEF TypeOK, Sessions, SnapshotsAreSessions, CopiesAreSessions
<1>3. \A s \in Sandboxes : pod[s] \in {"running", "exited"} => Old(key[s], home[s])
  BY <1>1, WithinOrders DEF IsASession, PodInv, TypeOK
<1>4. ASSUME NEW k \in Keys, NEW a \in Archives, Old(k, a), a # Nothing PROVE New(k, a)
  BY <1>4, SessionsStay DEF IsASession, Within
<1>5. SUFFICES /\ \A k \in Keys : Old(k, stored'[k])
               /\ \A s \in Sandboxes : Old(key[s], carry'[s])
               /\ \A w \in Writers : Old(key[w[1]], got'[w])
  <2>1. ASSUME NEW k \in Keys, Old(k, stored'[k]), stored'[k] # Nothing
        PROVE  IsASession(k, stored[k])'
    <3>1. New(k, stored'[k])
      BY <1>4, <2>1 DEF TypeOK
    <3>2. QED
      BY <3>1 DEF IsASession, Within
  <2>2. ASSUME NEW s \in Sandboxes, Old(key[s], carry'[s]), carry'[s] # Nothing
        PROVE  IsASession(key[s], carry[s])'
    <3>1. New(key[s], carry'[s])
      BY <1>2, <1>4, <2>2 DEF TypeOK
    <3>2. QED
      BY <1>1, <3>1 DEF IsASession, Within
  <2>3. ASSUME NEW w \in Writers, Old(key[w[1]], got'[w]), got'[w] # Nothing
        PROVE  IsASession(key[w[1]], got[w])'
    <3>1. New(key[w[1]], got'[w])
      BY <1>2, <1>4, <2>3 DEF TypeOK
    <3>2. QED
      BY <1>1, <3>1 DEF IsASession, Within
  <2> HIDE DEF Old, New
  <2>4. QED
    BY <2>1, <2>2, <2>3
<1>6. \A k : Old(k, Nothing)
  OBVIOUS
<1> HIDE DEF Old, New
<1>7. ASSUME NEW s \in Sandboxes, Lookup(s)
      PROVE  /\ \A k \in Keys : Old(k, stored'[k])
             /\ \A t \in Sandboxes : Old(key[t], carry'[t])
             /\ \A w \in Writers : Old(key[w[1]], got'[w])
  <2>1. PICK a \in {stored[key[s]], Nothing} : carry' = [carry EXCEPT ![s] = a]
    BY <1>7 DEF Lookup
  <2>2. Old(key[s], a)
    BY <1>2, <1>6, <2>1
  <2>3. \A t \in Sandboxes : Old(key[t], carry'[t])
    BY <1>2, <2>1, <2>2 DEF TypeOK
  <2>4. UNCHANGED <<stored, got>>
    BY <1>7 DEF Lookup, writeVars
  <2>5. QED
    BY <1>2, <2>3, <2>4
<1>8. ASSUME NEW s \in Sandboxes, ExitPush(s)
      PROVE  \A w \in Writers : Old(key[w[1]], got'[w])
  <2>1. PICK a : got' = [got EXCEPT ![<<s, 0>>] = a] /\ CountTorn(home[s], a)
    BY <1>8 DEF ExitPush
  <2>2. a = home[s] /\ pod[s] = "exited"
    BY <1>1, <1>8, <2>1 DEF CountTorn, ExitPush
  <2>3. Old(key[s], a)
    BY <1>3, <2>2
  <2>4. QED
    BY <1>2, <2>1, <2>3, WritersTyped DEF TypeOK
<1>9. ASSUME NEW v \in Stops, StopFetch(v)
      PROVE  \A w \in Writers : Old(key[w[1]], got'[w])
  <2> DEFINE now == IF pod[v[1]] = "launching" THEN carry[v[1]] ELSE home[v[1]]
  <2>1. PICK a : got' = [got EXCEPT ![v] = a] /\ CountTorn(now, a)
    BY <1>9 DEF StopFetch
  <2>2. Old(key[v[1]], now)
    BY <1>2, <1>3, <1>9, WritersTyped DEF StopFetch
  <2> HIDE DEF now
  <2>3. a = now
    BY <1>1, <2>1 DEF CountTorn
  <2>4. QED
    BY <1>2, <2>1, <2>2, <2>3, WritersTyped DEF TypeOK
<1>10. ASSUME NEW s \in Sandboxes, ExitPush(s) \/ PushKey(s) PROVE UNCHANGED <<stored, carry>>
  BY <1>10 DEF ExitPush, PushKey, createVars
<1>11. ASSUME NEW w \in Stops, StopFetch(w) PROVE UNCHANGED <<stored, carry>>
  BY <1>11 DEF StopFetch, createVars
<1>12. ASSUME NEW s \in Sandboxes, PushKey(s) PROVE got' = got
  BY <1>12 DEF PushKey
<1>13. ASSUME NEW s \in Sandboxes,
              Claim(s) \/ InsertRow(s) \/ Restore(s) \/ Work(s) \/ HarnessExit(s) \/ PodEnds(s)
       PROVE  UNCHANGED <<stored, carry, got>>
  BY <1>13 DEF Claim, InsertRow, Restore, Work, HarnessExit, PodEnds, createVars, writeVars
<1>14. ASSUME NEW w \in Writers, Upsert(w)
       PROVE  UNCHANGED <<carry, got>> /\ \A k \in Keys : Old(k, stored'[k])
  <2>1. stored' \in {stored, [stored EXCEPT ![key[w[1]]] = got[w]]} /\ UNCHANGED <<carry, got>>
    BY <1>14 DEF Upsert, createVars
  <2>2. QED
    BY <1>2, <2>1 DEF TypeOK
<1>15. ASSUME NEW u \in Users, DeleteUser(u)
       PROVE  UNCHANGED <<carry, got>> /\ \A k \in Keys : Old(k, stored'[k])
  BY <1>2, <1>6, <1>15 DEF DeleteUser, createVars, writeVars
<1>16. CASE UNCHANGED vars
  BY <1>2, <1>16 DEF vars, createVars, writeVars
<1>17. QED
  BY <1>2, <1>7, <1>8, <1>9, <1>10, <1>11, <1>12, <1>13, <1>14, <1>15, <1>16 DEF Next

-----------------------------------------------------------------------------
(* Every note found outside its session went through the table.            *)

\* Stored, of a state of the writes.
StoredIn(n, q, at, archive) ==
  \E v \in Writers : v[1] = q /\ at[v] = "done" /\ archive[v][q] >= n

\* Fewer notes are stored with more, and a write that is through stays as it is.
LEMMA StoredStays ==
  /\ \A at, archive : archive \in [Writers -> Archives] =>
       \A n, m \in Nat, q \in Sandboxes :
         m <= n /\ StoredIn(n, q, at, archive) => StoredIn(m, q, at, archive)
  /\ \A at, archive, at2, archive2 :
       (\A v \in Writers : at[v] = "done" => at2[v] = "done" /\ archive2[v] = archive[v]) =>
       \A n, q : StoredIn(n, q, at, archive) => StoredIn(n, q, at2, archive2)
<1>1. ASSUME NEW at, NEW archive, archive \in [Writers -> Archives],
             NEW n \in Nat, NEW m \in Nat, NEW q \in Sandboxes, m <= n, StoredIn(n, q, at, archive)
      PROVE  StoredIn(m, q, at, archive)
  <2>1. PICK v \in Writers : v[1] = q /\ at[v] = "done" /\ archive[v][q] >= n
    BY <1>1 DEF StoredIn
  <2>2. archive[v][q] \in Int
    BY <1>1, BoundsAssumption DEF Archives
  <2>3. archive[v][q] >= m
    BY <1>1, <2>1, <2>2
  <2>4. QED
    BY <2>1, <2>3 DEF StoredIn
<1>2. ASSUME NEW at, NEW archive, NEW at2, NEW archive2,
             \A v \in Writers : at[v] = "done" => at2[v] = "done" /\ archive2[v] = archive[v],
             NEW n, NEW q, StoredIn(n, q, at, archive)
      PROVE  StoredIn(n, q, at2, archive2)
  BY <1>2 DEF StoredIn
<1>3. QED
  BY <1>1, <1>2

\* No write that is through is taken up again.
LEMMA DoneStays ==
  ASSUME TypeOK, [Next]_vars
  PROVE  /\ key' = key
         /\ \A v \in Writers : write[v] = "done" => write'[v] = "done" /\ got'[v] = got[v]
<1>1. ASSUME UNCHANGED <<key, write, got>>
      PROVE  /\ key' = key
             /\ \A v \in Writers : write[v] = "done" => write'[v] = "done" /\ got'[v] = got[v]
  BY <1>1
<1>2. ASSUME NEW s \in Sandboxes,
             \/ Lookup(s) \/ Claim(s) \/ InsertRow(s) \/ Restore(s) \/ Work(s)
             \/ HarnessExit(s) \/ PodEnds(s)
      PROVE  UNCHANGED <<key, write, got>>
  BY <1>2 DEF Lookup, Claim, InsertRow, Restore, Work, HarnessExit, PodEnds, writeVars
<1>3. ASSUME NEW s \in Sandboxes, ExitPush(s)
      PROVE  /\ key' = key
             /\ \A v \in Writers : write[v] = "done" => write'[v] = "done" /\ got'[v] = got[v]
  BY <1>3, WritersTyped DEF ExitPush, TypeOK
<1>4. ASSUME NEW s \in Sandboxes, PushKey(s)
      PROVE  /\ key' = key
             /\ \A v \in Writers : write[v] = "done" => write'[v] = "done" /\ got'[v] = got[v]
  BY <1>4, WritersTyped DEF PushKey, TypeOK
<1>5. ASSUME NEW w \in Stops, StopFetch(w)
      PROVE  /\ key' = key
             /\ \A v \in Writers : write[v] = "done" => write'[v] = "done" /\ got'[v] = got[v]
  BY <1>5, WritersTyped DEF StopFetch, TypeOK
<1>6. ASSUME NEW w \in Writers, Upsert(w)
      PROVE  /\ key' = key
             /\ \A v \in Writers : write[v] = "done" => write'[v] = "done" /\ got'[v] = got[v]
  BY <1>6 DEF Upsert, TypeOK
<1>7. ASSUME NEW u \in Users, DeleteUser(u) PROVE UNCHANGED <<key, write, got>>
  BY <1>7 DEF DeleteUser, writeVars
<1>8. CASE UNCHANGED vars
  BY <1>1, <1>8 DEF vars
<1>9. QED
  BY <1>1, <1>2, <1>3, <1>4, <1>5, <1>6, <1>7, <1>8 DEF Next

\* No step lets a note out of its session but through the table.
LEMMA NotesStep == TypeOK /\ TypeOK' /\ PodInv /\ NotesAreStored /\ [Next]_vars => NotesAreStored'
<1> SUFFICES ASSUME TypeOK, TypeOK', PodInv, NotesAreStored, [Next]_vars PROVE NotesAreStored'
  OBVIOUS
<1> DEFINE Old(n, q) == StoredIn(n, q, write, got)
           New(n, q) == StoredIn(n, q, write', got')
<1>1. /\ \A k \in Keys, q \in Sandboxes : stored[k][q] > 0 => Old(stored[k][q], q)
      /\ \A s, q \in Sandboxes : carry[s][q] > 0 => Old(carry[s][q], q) /\ q # s
      /\ \A s, q \in Sandboxes : home[s][q] > 0 => Old(home[s][q], q) \/ q = s
      /\ \A w \in Writers :
           /\ \A q \in Sandboxes : got[w][q] > 0 => Old(got[w][q], q) \/ q = w[1]
           /\ got[w][w[1]] <= home[w[1]][w[1]]
           /\ write[w] = "idle" => got[w] = Nothing
           /\ pod[w[1]] = "none" => write[w] = "idle"
  BY Zenon DEF NotesAreStored, Stored, StoredIn
<1>2. SUFFICES
      /\ \A k \in Keys, q \in Sandboxes : stored'[k][q] > 0 => New(stored'[k][q], q)
      /\ \A s, q \in Sandboxes : carry'[s][q] > 0 => New(carry'[s][q], q) /\ q # s
      /\ \A s, q \in Sandboxes : home'[s][q] > 0 => New(home'[s][q], q) \/ q = s
      /\ \A w \in Writers :
           /\ \A q \in Sandboxes : got'[w][q] > 0 => New(got'[w][q], q) \/ q = w[1]
           /\ got'[w][w[1]] <= home'[w[1]][w[1]]
           /\ write'[w] = "idle" => got'[w] = Nothing
           /\ pod'[w[1]] = "none" => write'[w] = "idle"
  BY <1>2, Zenon DEF NotesAreStored, Stored, StoredIn, Nothing
<1>3. \A n, q : Old(n, q) => New(n, q)
  BY DoneStays, StoredStays
<1>4. \A n, m \in Nat, q \in Sandboxes : m <= n /\ Old(n, q) => Old(m, q)
  BY StoredStays DEF TypeOK
<1>5. /\ \A s, q \in Sandboxes : carry[s][q] \in 0..MaxNotes /\ home[s][q] \in 0..MaxNotes
      /\ \A w \in Writers, q \in Sandboxes : got[w][q] \in 0..MaxNotes
  BY DEF TypeOK, Archives
<1>6. \A n, q : Old(n, q) => \E v \in Writers : v[1] = q /\ write[v] = "done"
  BY DEF StoredIn
<1> HIDE DEF Old, New
<1>7. ASSUME NEW s \in Sandboxes, Lookup(s)
      PROVE  \A t, q \in Sandboxes : carry'[t][q] > 0 => New(carry'[t][q], q) /\ q # t
  <2>1. PICK a \in {stored[key[s]], Nothing} : carry' = [carry EXCEPT ![s] = a]
    BY <1>7 DEF Lookup
  <2>2. \A q \in Sandboxes : a[q] > 0 => Old(a[q], q)
    BY <1>1, <2>1, NothingTyped DEF TypeOK
  <2>3. \A v \in Writers : v[1] = s => write[v] = "idle"
    BY <1>1, <1>7 DEF Lookup, PodInv
  <2>4. \A q \in Sandboxes : a[q] > 0 => q # s
    BY <1>6, <2>2, <2>3
  <2>5. QED
    BY <1>1, <1>3, <2>1, <2>2, <2>4 DEF TypeOK
<1>8. ASSUME NEW s \in Sandboxes, Lookup(s) PROVE UNCHANGED <<stored, home, write, got, pod>>
  BY <1>8 DEF Lookup, podVars, writeVars
<1>9. ASSUME NEW s \in Sandboxes, Claim(s) \/ InsertRow(s) \/ HarnessExit(s) \/ PodEnds(s)
      PROVE  /\ UNCHANGED <<stored, carry, home, write, got>>
             /\ \A t \in Sandboxes : pod'[t] = "none" => pod[t] = "none"
  BY <1>9 DEF Claim, InsertRow, HarnessExit, PodEnds, createVars, podVars, writeVars, TypeOK
<1>10. ASSUME NEW s \in Sandboxes, Restore(s)
       PROVE  /\ UNCHANGED <<stored, carry, write, got>>
              /\ \A t \in Sandboxes : pod'[t] = "none" => pod[t] = "none"
              /\ \A t, q \in Sandboxes : home'[t][q] > 0 => Old(home'[t][q], q) \/ q = t
              /\ \A t \in Sandboxes : home[t][t] <= home'[t][t]
  <2>1. PICK a \in Readings(carry[s]) : home' = [home EXCEPT ![s] = a]
    BY <1>10 DEF Restore
  <2>2. a \in Archives /\ Within(a, carry[s])
    BY <2>1, CutsAreWithin DEF TypeOK
  <2>3. home[s][s] = 0
    BY <1>10 DEF Restore, PodInv, Nothing
  <2>4. \A q \in Sandboxes : a[q] \in Nat /\ carry[s][q] \in Nat /\ a[q] <= carry[s][q]
    BY <1>5, <2>2, BoundsAssumption DEF Within, Archives
  <2>5. \A q \in Sandboxes : a[q] > 0 => Old(a[q], q)
    BY <1>1, <1>4, <2>4
  <2>6. /\ \A t, q \in Sandboxes : home'[t][q] > 0 => Old(home'[t][q], q) \/ q = t
        /\ \A t \in Sandboxes : home[t][t] <= home'[t][t]
    BY <1>1, <1>5, <2>1, <2>3, <2>4, <2>5, BoundsAssumption DEF TypeOK
  <2>7. QED
    BY <1>10, <2>6 DEF Restore, createVars, TypeOK
<1>11. ASSUME NEW s \in Sandboxes, Work(s)
       PROVE  /\ UNCHANGED <<stored, carry, write, got, pod>>
              /\ \A t, q \in Sandboxes : home'[t][q] > 0 => Old(home'[t][q], q) \/ q = t
              /\ \A t \in Sandboxes : home[t][t] <= home'[t][t]
  <2>1. \A t, q \in Sandboxes : home'[t][q] = IF t = s /\ q = s THEN home[t][q] + 1 ELSE home[t][q]
    BY <1>11 DEF Work, TypeOK, Archives
  <2>2. QED
    BY <1>1, <1>5, <1>11, <2>1, BoundsAssumption DEF Work, createVars, writeVars
<1>12. ASSUME NEW w \in Writers, NEW b \in Archives, NEW a \in Archives, Within(a, b),
              b[w[1]] <= home[w[1]][w[1]], got' = [got EXCEPT ![w] = a],
              \A q \in Sandboxes : b[q] > 0 => Old(b[q], q) \/ q = w[1]
       PROVE  \A v \in Writers :
                /\ \A q \in Sandboxes : got'[v][q] > 0 => Old(got'[v][q], q) \/ q = v[1]
                /\ got'[v][v[1]] <= home[v[1]][v[1]]
  <2>1. \A q \in Sandboxes : a[q] \in Nat /\ b[q] \in Nat /\ a[q] <= b[q]
    BY <1>12, BoundsAssumption DEF Within, Archives
  <2>2. \A q \in Sandboxes : a[q] > 0 => Old(a[q], q) \/ q = w[1]
    BY <1>4, <1>12, <2>1
  <2>3. a[w[1]] <= home[w[1]][w[1]]
    BY <1>5, <1>12, <2>1, WritersTyped, BoundsAssumption
  <2>4. QED
    BY <1>1, <1>12, <2>2, <2>3 DEF TypeOK
<1>13. ASSUME NEW s \in Sandboxes, ExitPush(s)
       PROVE  \A v \in Writers :
                /\ \A q \in Sandboxes : got'[v][q] > 0 => Old(got'[v][q], q) \/ q = v[1]
                /\ got'[v][v[1]] <= home[v[1]][v[1]]
  <2>1. PICK a \in Fits(home[s]) : got' = [got EXCEPT ![<<s, 0>>] = a]
    BY <1>13 DEF ExitPush
  <2>2. a \in Archives /\ Within(a, home[s]) /\ home[s] \in Archives
    BY <2>1, CutsAreWithin DEF TypeOK
  <2>3. PICK w \in Writers : w = <<s, 0>> /\ w[1] = s
    BY WritersTyped
  <2>4. home[s][w[1]] <= home[w[1]][w[1]]
    BY <1>5, <2>3, BoundsAssumption
  <2>5. \A q \in Sandboxes : home[s][q] > 0 => Old(home[s][q], q) \/ q = w[1]
    BY <1>1, <2>3
  <2>6. got' = [got EXCEPT ![w] = a]
    BY <2>1, <2>3
  <2>7. QED
    BY <1>12, <2>2, <2>4, <2>5, <2>6
<1>14. ASSUME NEW w \in Stops, StopFetch(w)
       PROVE  \A v \in Writers :
                /\ \A q \in Sandboxes : got'[v][q] > 0 => Old(got'[v][q], q) \/ q = v[1]
                /\ got'[v][v[1]] <= home[v[1]][v[1]]
  <2> DEFINE now == IF pod[w[1]] = "launching" THEN carry[w[1]] ELSE home[w[1]]
  <2>1. PICK r \in Readings(now) : \E a \in Fits(r) : got' = [got EXCEPT ![w] = a]
    BY <1>14 DEF StopFetch
  <2>2. PICK a \in Fits(r) : got' = [got EXCEPT ![w] = a]
    BY <2>1
  <2>3. /\ now \in Archives /\ w \in Writers /\ w[1] \in Sandboxes
        /\ \A q \in Sandboxes : now[q] > 0 => Old(now[q], q) \/ q = w[1]
    BY <1>1, WritersTyped DEF TypeOK
  <2>4. now[w[1]] <= home[w[1]][w[1]]
    BY <1>1, <1>5, <2>3, BoundsAssumption
  <2> HIDE DEF now
  <2>5. r \in Archives /\ Within(r, now)
    BY <2>1, <2>3, CutsAreWithin
  <2>6. a \in Archives /\ Within(a, now)
    BY <2>2, <2>3, <2>5, CutsAreWithin, WithinOrders
  <2>7. QED
    BY <1>12, <2>2, <2>3, <2>4, <2>6
<1>15. ASSUME NEW s \in Sandboxes, ExitPush(s)
       PROVE  /\ UNCHANGED <<stored, carry, pod, home>> /\ pod[s] # "none"
              /\ \A v \in Writers : write'[v] = "idle" => write[v] = "idle" /\ got'[v] = got[v]
              /\ \A v \in Writers : v[1] # s => write'[v] = write[v]
  BY <1>15, WritersTyped DEF ExitPush, createVars, podVars, TypeOK
<1>16. ASSUME NEW w \in Stops, StopFetch(w)
       PROVE  /\ UNCHANGED <<stored, carry, pod, home>> /\ pod[w[1]] # "none"
              /\ \A v \in Writers : write'[v] = "idle" => write[v] = "idle" /\ got'[v] = got[v]
              /\ \A v \in Writers : v[1] # w[1] => write'[v] = write[v]
  BY <1>16, WritersTyped DEF StopFetch, createVars, podVars, TypeOK
<1>17. ASSUME NEW s \in Sandboxes, PushKey(s)
       PROVE  /\ UNCHANGED <<stored, carry, pod, home, got>>
              /\ \A v \in Writers : (write'[v] = "idle") <=> (write[v] = "idle")
  BY <1>17, WritersTyped DEF PushKey, createVars, podVars, TypeOK
<1>18. ASSUME NEW w \in Writers, Upsert(w)
       PROVE  /\ UNCHANGED <<carry, pod, home, got>>
              /\ \A v \in Writers : (write'[v] = "idle") <=> (write[v] = "idle")
              /\ \A k \in Keys, q \in Sandboxes : stored'[k][q] > 0 => New(stored'[k][q], q)
  <2>1. stored' \in {stored, [stored EXCEPT ![key[w[1]]] = got[w]]} /\ UNCHANGED <<carry, pod, home, got>>
    BY <1>18 DEF Upsert, createVars, podVars
  <2>2. \A v \in Writers : (write'[v] = "idle") <=> (write[v] = "idle")
    BY <1>18 DEF Upsert, TypeOK
  <2>3. write'[w] = "done" /\ got'[w][w[1]] >= got[w][w[1]]
    BY <1>5, <1>18, <2>1, WritersTyped, BoundsAssumption DEF Upsert, TypeOK
  <2>4. New(got[w][w[1]], w[1])
    BY <2>3 DEF New, StoredIn
  <2>5. \A q \in Sandboxes : got[w][q] > 0 => New(got[w][q], q)
    BY <1>1, <1>3, <2>4
  <2>6. QED
    BY <1>1, <1>3, <2>1, <2>2, <2>5 DEF TypeOK
<1>19. ASSUME NEW u \in Users, DeleteUser(u)
       PROVE  /\ UNCHANGED <<carry, pod, home, write, got>>
              /\ \A k \in Keys, q \in Sandboxes : stored'[k][q] > 0 => Old(stored'[k][q], q)
  BY <1>1, <1>19, NothingTyped DEF DeleteUser, createVars, podVars, writeVars
<1>20. CASE UNCHANGED vars
  BY <1>1, <1>3, <1>20 DEF vars
<1>21. CASE \E s \in Sandboxes : Lookup(s)
  BY <1>1, <1>3, <1>7, <1>8, <1>21
<1>22. CASE \E s \in Sandboxes : Claim(s) \/ InsertRow(s) \/ HarnessExit(s) \/ PodEnds(s)
  BY <1>1, <1>3, <1>9, <1>22, WritersTyped
<1>23. CASE \E s \in Sandboxes : Restore(s) \/ Work(s)
  <2>1. PICK s \in Sandboxes : Restore(s) \/ Work(s)
    BY <1>23
  <2>2. /\ UNCHANGED <<stored, carry, write, got>>
        /\ \A t \in Sandboxes : pod'[t] = "none" => pod[t] = "none"
        /\ \A t, q \in Sandboxes : home'[t][q] > 0 => Old(home'[t][q], q) \/ q = t
        /\ \A t \in Sandboxes : home[t][t] <= home'[t][t]
    BY <1>10, <1>11, <2>1
  <2>3. \A t \in Sandboxes : home'[t][t] \in Int
    BY BoundsAssumption DEF TypeOK, Archives
  <2>4. \A w \in Writers : got'[w][w[1]] <= home'[w[1]][w[1]]
    BY <1>1, <1>5, <2>2, <2>3, WritersTyped, BoundsAssumption
  <2>5. QED
    BY <1>1, <1>3, <2>2, <2>4, WritersTyped
<1>24. CASE \E s \in Sandboxes : ExitPush(s)
  <2>1. PICK s \in Sandboxes : ExitPush(s)
    BY <1>24
  <2>2. QED
    BY <1>1, <1>3, <1>13, <1>15, <2>1
<1>25. CASE \E w \in Stops : StopFetch(w)
  <2>1. PICK w \in Stops : StopFetch(w)
    BY <1>25
  <2>2. QED
    BY <1>1, <1>3, <1>14, <1>16, <2>1
<1>26. CASE \E s \in Sandboxes : PushKey(s)
  BY <1>1, <1>3, <1>17, <1>26
<1>27. CASE \E w \in Writers : Upsert(w)
  BY <1>1, <1>3, <1>18, <1>27
<1>28. CASE \E u \in Users : DeleteUser(u)
  BY <1>1, <1>3, <1>19, <1>28
<1>29. QED
  BY <1>20, <1>21, <1>22, <1>23, <1>24, <1>25, <1>26, <1>27, <1>28 DEF Next

\* The inductive invariant holds in every behaviour.
THEOREM Invariance == Spec => []IInv
<1>1. IInv /\ [Next]_vars => IInv'
  BY TypeStep, KeysStep, UsersStep, PodStep, CopiesStep, NotesStep DEF IInv, NotMixed, Sessions
<1>2. QED
  BY <1>1, InitIInv, PTL DEF Spec

\* Whatever a session resumes was written under its own user, repository and
\* branch, however often it was stored, cut and resumed since.
THEOREM KeysStayApart == Spec => []KeysDoNotMix
<1>1. IInv => KeysDoNotMix
  BY DEF IInv
<1>2. QED
  BY <1>1, Invariance, PTL

\* No write in flight brings back the snapshot of a deleted user.
THEOREM DeletionIsComplete == Spec => []DeletedUsersLeaveNothing
<1>1. IInv => DeletedUsersLeaveNothing
  BY DEF IInv
<1>2. QED
  BY <1>1, Invariance, PTL

\* Short of a cut reading or restore, what is stored is ~/.claude of one session as a whole,
\* however many sessions it came through.
THEOREM SnapshotsAreWhole == Spec => []SnapshotsAreSessions
<1>1. IInv => SnapshotsAreSessions
  BY DEF IInv
<1>2. QED
  BY <1>1, Invariance, PTL

\* A whole reading is never behind what its session has stored, and the upsert takes
\* notes back only where it was overtaken or cut.
THEOREM OvertakenWritesLower == Spec => OnlyOvertakenWritesLower
<1> DEFINE Read(w) == write[w] = "idle" /\ write'[w] # "idle" /\ torn' = torn =>
                        \A v \in Writers : v[1] = w[1] => got[v][w[1]] <= got'[w][w[1]]
           Lower(w, k, q) ==
             write[w] = "keyed" /\ write'[w] = "done" /\ stored'[k][q] < stored[k][q] =>
                key[w[1]] = k /\ Stored(got[w][q] + 1, q)
<1>1. ASSUME IInv, IInv', [Next]_vars, NEW w \in Writers PROVE Read(w)
  <2> SUFFICES ASSUME write[w] = "idle", write'[w] # "idle", torn' = torn,
                      NEW v \in Writers, v[1] = w[1]
               PROVE  got[v][w[1]] <= got'[w][w[1]]
    OBVIOUS
  <2>0. /\ TypeOK /\ w[1] \in Sandboxes
        /\ \A x \in Writers : got[x][x[1]] <= home[x[1]][x[1]]
    BY <1>1, WritersTyped DEF IInv, NotesAreStored
  <2>1. CASE \E s \in Sandboxes : ExitPush(s)
    <3>1. PICK s \in Sandboxes : ExitPush(s)
      BY <2>1
    <3>2. PICK a : got' = [got EXCEPT ![<<s, 0>>] = a] /\ CountTorn(home[s], a)
      BY <3>1 DEF ExitPush
    <3>3. w = <<s, 0>> /\ w[1] = s
      BY <3>1, <2>0, WritersTyped DEF ExitPush, TypeOK
    <3>4. torn \in Nat
      BY <2>0 DEF TypeOK
    <3>5. a = home[s]
      BY <3>2, <3>4 DEF CountTorn
    <3>6. got'[w] = home[s]
      BY <2>0, <3>2, <3>3, <3>5 DEF TypeOK
    <3>7. QED
      BY <2>0, <3>3, <3>6
  <2>2. CASE \E x \in Stops : StopFetch(x)
    <3>1. PICK x \in Stops : StopFetch(x)
      BY <2>2
    <3> DEFINE now == IF pod[x[1]] = "launching" THEN carry[x[1]] ELSE home[x[1]]
    <3>2. PICK a : got' = [got EXCEPT ![x] = a] /\ CountTorn(now, a)
      BY <3>1 DEF StopFetch
    <3>3. w = x
      BY <3>1, <2>0, WritersTyped DEF StopFetch, TypeOK
    <3>4. torn \in Nat
      BY <2>0 DEF TypeOK
    <3>5. a = now
      BY <3>2, <3>4 DEF CountTorn
    <3>6. got'[w] = now
      BY <2>0, <3>2, <3>3, <3>5 DEF TypeOK
    <3>7. pod[x[1]] = "launching" => home[x[1]] = Nothing /\ carry[x[1]][x[1]] \in Nat
      BY <1>1, <2>0, <3>3, BoundsAssumption DEF IInv, PodInv, TypeOK, Archives
    <3>8. home[w[1]][w[1]] <= now[w[1]]
      BY <2>0, <3>3, <3>7, BoundsAssumption DEF Nothing, TypeOK, Archives
    <3>9. /\ got[v][v[1]] \in Int /\ home[v[1]][v[1]] \in Int /\ now[v[1]] \in Int
      BY <2>0, <3>3, BoundsAssumption DEF TypeOK, Archives
    <3> HIDE DEF now
    <3>10. QED
      BY <2>0, <3>6, <3>8, <3>9
  <2>3. ASSUME NEW s \in Sandboxes,
               \/ Lookup(s) \/ Claim(s) \/ InsertRow(s) \/ Restore(s) \/ Work(s)
               \/ HarnessExit(s) \/ PodEnds(s)
        PROVE  write' = write
    BY <2>3 DEF Lookup, Claim, InsertRow, Restore, Work, HarnessExit, PodEnds, writeVars
  <2>4. ASSUME NEW s \in Sandboxes, PushKey(s) PROVE write[w] = "idle" => write'[w] = "idle"
    BY <2>0, <2>4, WritersTyped DEF PushKey, TypeOK
  <2>5. ASSUME NEW x \in Writers, Upsert(x) PROVE write[w] = "idle" => write'[w] = "idle"
    BY <2>0, <2>5 DEF Upsert, TypeOK
  <2>6. ASSUME NEW u \in Users, DeleteUser(u) PROVE write' = write
    BY <2>6 DEF DeleteUser, writeVars
  <2>7. CASE UNCHANGED vars
    BY <2>7 DEF vars
  <2>8. QED
    BY <1>1, <2>1, <2>2, <2>3, <2>4, <2>5, <2>6, <2>7 DEF Next
<1>2. ASSUME IInv, [Next]_vars, NEW w \in Writers, NEW k \in Keys, NEW q \in Sandboxes
      PROVE  Lower(w, k, q)
  <2> SUFFICES ASSUME write[w] = "keyed", write'[w] = "done", stored'[k][q] < stored[k][q]
               PROVE  key[w[1]] = k /\ Stored(got[w][q] + 1, q)
    OBVIOUS
  <2>0. TypeOK /\ stored[k][q] \in 0..MaxNotes /\ got[w][q] \in 0..MaxNotes
    BY <1>2 DEF IInv, TypeOK, Archives
  <2>1. Upsert(w)
    <3>1. ASSUME NEW x \in Writers, Upsert(x) PROVE x = w
      BY <2>0, <3>1 DEF Upsert, TypeOK
    <3>2. ASSUME NEW s \in Sandboxes,
                 \/ Lookup(s) \/ Claim(s) \/ InsertRow(s) \/ Restore(s) \/ Work(s)
                 \/ HarnessExit(s) \/ PodEnds(s)
          PROVE  write' = write
      BY <3>2 DEF Lookup, Claim, InsertRow, Restore, Work, HarnessExit, PodEnds, writeVars
    <3>3. ASSUME NEW s \in Sandboxes, ExitPush(s) \/ PushKey(s) PROVE write'[w] # "done"
      BY <2>0, <3>3, WritersTyped DEF ExitPush, PushKey, TypeOK
    <3>4. ASSUME NEW x \in Stops, StopFetch(x) PROVE write'[w] # "done"
      BY <2>0, <3>4, WritersTyped DEF StopFetch, TypeOK
    <3>5. ASSUME NEW u \in Users, DeleteUser(u) PROVE write' = write
      BY <3>5 DEF DeleteUser, writeVars
    <3>6. QED
      BY <1>2, <3>1, <3>2, <3>3, <3>4, <3>5 DEF Next, vars
  <2>2. stored' = [stored EXCEPT ![key[w[1]]] = got[w]]
    BY <2>0, <2>1 DEF Upsert
  <2>3. key[w[1]] = k /\ stored'[k] = got[w]
    BY <2>0, <2>2 DEF TypeOK
  <2>4. stored[k][q] > 0 /\ got[w][q] + 1 <= stored[k][q]
    BY <2>0, <2>3, BoundsAssumption
  <2>5. StoredIn(stored[k][q], q, write, got)
    BY <1>2, <2>4 DEF IInv, NotesAreStored, Stored, StoredIn
  <2>6. StoredIn(got[w][q] + 1, q, write, got)
    BY <2>0, <2>4, <2>5, StoredStays, BoundsAssumption DEF TypeOK
  <2>7. QED
    BY <2>3, <2>6 DEF Stored, StoredIn
<1>3. IInv /\ IInv' /\ [Next]_vars =>
         [/\ \A w \in Writers : Read(w)
          /\ \A w \in Writers, k \in Keys, q \in Sandboxes : Lower(w, k, q)]_vars
  BY <1>1, <1>2
<1>4. QED
  BY <1>3, Invariance, PTL DEF Spec, OnlyOvertakenWritesLower
=============================================================================
