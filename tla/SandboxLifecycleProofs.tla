----------------------- MODULE SandboxLifecycleProofs -----------------------
(* The inductive invariant of SandboxLifecycle, for any number of requests,  *)
(* pods, failures and restarts, and what follows from it.                    *)
EXTENDS SandboxLifecycle, FiniteSetTheorems, TLAPS

\* A stop names the sandbox it stops.
LEMMA StopsTyped == \A s \in Stops : s[1] \in Sandboxes
  BY DEF Stops

\* Before the first request the invariant holds.
LEMMA InitIInv == Init => IInv
<1> SUFFICES ASSUME Init PROVE IInv
  OBVIOUS
<1>1. TypeOK /\ BindingInv /\ HandlerInv /\ ReconcilerInv /\ StopInv
  BY NoPodAssumption, StopsTyped DEF Init, TypeOK, BindingInv, HandlerInv, ReconcilerInv, StopInv,
     CreateStages, CreateInFlight, StopStages, ClaimStates
<1>2. DebtInv
  <2>1. {r \in Sandboxes : Owing(r)} = {}
    BY DEF Init, Owing, Exists, StopInFlight
  <2>2. IsFiniteSet(hungUp) /\ Cardinality(hungUp) = 0 /\ faults = 0
    BY FS_EmptySet DEF Init
  <2>3. IsFiniteSet(ownerless) /\ Cardinality(ownerless) = 0
    BY FS_EmptySet DEF Init
  <2>4. Disturbances = 0
    BY <2>2, <2>3 DEF Disturbances
  <2>5. Cardinality({r \in Sandboxes : Owing(r)}) <= Disturbances
    BY <2>1, <2>4, FS_EmptySet
  <2>6. QED
    BY <2>1, <2>2, <2>3, <2>5, FS_EmptySet DEF DebtInv
<1>3. UndisturbedInv
  BY DEF Init, UndisturbedInv
<1>4. MissedInv
  <2>1. {s \in Stops : Missing(s)} = {} /\ faults = 0
    BY DEF Init, Missing, PastRead, Exists
  <2>2. QED
    BY <2>1, FS_EmptySet DEF MissedInv
<1>5. QED
  BY <1>1, <1>2, <1>3, <1>4 DEF IInv

\* Type correctness: every handler, round and external step keeps the types.
LEMMA TypeStep == TypeOK /\ [Next]_vars => TypeOK'
<1> SUFFICES ASSUME TypeOK, [Next]_vars PROVE TypeOK'
  OBVIOUS
<1> USE NoPodAssumption DEF TypeOK, CreateStages, CreateInFlight, StopStages, StopInFlight,
      ClaimStates, handlerVars, podVars, recVars
<1>1. ASSUME NEW r \in Sandboxes, Arrive(r) PROVE TypeOK'
  BY <1>1 DEF Arrive
<1>2. ASSUME NEW r \in Sandboxes, CreateClaim(r) PROVE TypeOK'
  BY <1>2 DEF CreateClaim, Charge
<1>3. ASSUME NEW r \in Sandboxes, PollAdopted(r) PROVE TypeOK'
  BY <1>3 DEF PollAdopted
<1>4. ASSUME NEW r \in Sandboxes, PollGiveUp(r) PROVE TypeOK'
  BY <1>4 DEF PollGiveUp, DestroyClaim, Charge
<1>5. ASSUME NEW r \in Sandboxes, ClaimSupervisor(r) PROVE TypeOK'
  BY <1>5 DEF ClaimSupervisor, Accept, Reachable, Charge
<1>6. ASSUME NEW r \in Sandboxes, Undo(r) PROVE TypeOK'
  BY <1>6 DEF Undo, DestroyClaim, Charge
<1>7. ASSUME NEW r \in Sandboxes, InsertRow(r) PROVE TypeOK'
  BY <1>7 DEF InsertRow, Charge
<1>8. ASSUME NEW s \in Stops, StopLookup(s) PROVE TypeOK'
  BY <1>8 DEF StopLookup, Charge
<1>9. ASSUME NEW s \in Stops, StopMark(s) PROVE TypeOK'
  BY <1>9, StopsTyped DEF StopMark, MarkGone, Charge
<1>10. ASSUME NEW s \in Stops, StopDelete(s) PROVE TypeOK'
  BY <1>10, StopsTyped DEF StopDelete, DestroyClaim, Charge
<1>11. ASSUME NEW h \in Sandboxes \cup Stops, HangUp(h) PROVE TypeOK'
  BY <1>11 DEF HangUp
<1>12. ASSUME RecRead PROVE TypeOK'
  BY <1>12 DEF RecRead
<1>13. ASSUME RecList PROVE TypeOK'
  BY <1>13 DEF RecList, Charge
<1>14. ASSUME NEW e \in Sandboxes, RecUpdate(e) PROVE TypeOK'
  BY <1>14 DEF RecUpdate, MarkGone, Charge
<1>15. ASSUME Crash PROVE TypeOK'
  BY <1>15 DEF Crash
<1>16. ASSUME NEW r \in Sandboxes, NEW p \in Pods, Bind(r, p) PROVE TypeOK'
  BY <1>16 DEF Bind
<1>17. ASSUME NEW p \in Pods, HarnessExit(p) PROVE TypeOK'
  BY <1>17 DEF HarnessExit
<1>18. ASSUME NEW r \in Sandboxes, ClaimRemoved(r) PROVE TypeOK'
  BY <1>18 DEF ClaimRemoved
<1>19. ASSUME NEW r \in Sandboxes, Cascade(r) PROVE TypeOK'
  BY <1>19 DEF Cascade
<1>20. CASE UNCHANGED vars
  BY <1>20 DEF vars
<1>21. ASSUME NEW s \in Stops, StopRef(s) PROVE TypeOK'
  BY <1>21, StopsTyped DEF StopRef, Charge
<1>22. ASSUME NEW r \in Sandboxes, DeleteOwner(r) PROVE TypeOK'
  BY <1>22, StopsTyped DEF DeleteOwner
<1>23. QED
  BY <1>1, <1>2, <1>3, <1>4, <1>5, <1>6, <1>7, <1>8, <1>9, <1>10, <1>11, <1>12,
     <1>13, <1>14, <1>15, <1>16, <1>17, <1>18, <1>19, <1>20, <1>21, <1>22 DEF Next

\* A pod is bound once, while its claim is pending; only its own claim is served.
LEMMA BindingStep == TypeOK /\ BindingInv /\ HandlerInv /\ [Next]_vars => BindingInv'
<1> SUFFICES ASSUME TypeOK, BindingInv, HandlerInv, [Next]_vars PROVE BindingInv'
  OBVIOUS
<1> USE NoPodAssumption DEF TypeOK, CreateInFlight, StopInFlight, ClaimStates, handlerVars, podVars, recVars, BindingInv, HandlerInv
<1>1. ASSUME NEW r \in Sandboxes, Arrive(r) PROVE BindingInv'
  BY <1>1, StopsTyped DEF Arrive
<1>2. ASSUME NEW r \in Sandboxes, CreateClaim(r) PROVE BindingInv'
  BY <1>2, StopsTyped DEF CreateClaim, TookEffect
<1>3. ASSUME NEW r \in Sandboxes, PollAdopted(r) PROVE BindingInv'
  BY <1>3, StopsTyped DEF PollAdopted
<1>4. ASSUME NEW r \in Sandboxes, PollGiveUp(r) PROVE BindingInv'
  BY <1>4, StopsTyped DEF PollGiveUp, DestroyClaim, Exists
<1>5. ASSUME NEW r \in Sandboxes, ClaimSupervisor(r) PROVE BindingInv'
  BY <1>5, StopsTyped DEF ClaimSupervisor, TookEffect, Accept, Reachable
<1>6. ASSUME NEW r \in Sandboxes, Undo(r) PROVE BindingInv'
  BY <1>6, StopsTyped DEF Undo, DestroyClaim, Exists
<1>7. ASSUME NEW r \in Sandboxes, InsertRow(r) PROVE BindingInv'
  BY <1>7, StopsTyped DEF InsertRow
<1>8. ASSUME NEW s \in Stops, StopLookup(s) PROVE BindingInv'
  BY <1>8, StopsTyped DEF StopLookup
<1>9. ASSUME NEW s \in Stops, StopMark(s) PROVE BindingInv'
  BY <1>9, StopsTyped DEF StopMark, MarkGone
<1>10. ASSUME NEW s \in Stops, StopDelete(s) PROVE BindingInv'
  BY <1>10, StopsTyped DEF StopDelete, DestroyClaim, Exists
<1>11. ASSUME NEW h \in Sandboxes \cup Stops, HangUp(h) PROVE BindingInv'
  BY <1>11, StopsTyped DEF HangUp
<1>12. ASSUME RecRead PROVE BindingInv'
  BY <1>12, StopsTyped DEF RecRead
<1>13. ASSUME RecList PROVE BindingInv'
  BY <1>13, StopsTyped DEF RecList, Exists
<1>14. ASSUME NEW e \in Sandboxes, RecUpdate(e) PROVE BindingInv'
  BY <1>14, StopsTyped DEF RecUpdate, MarkGone
<1>15. ASSUME Crash PROVE BindingInv'
  BY <1>15, StopsTyped DEF Crash
<1>16. ASSUME NEW r \in Sandboxes, NEW p \in Pods, Bind(r, p) PROVE BindingInv'
  BY <1>16, StopsTyped DEF Bind
<1>17. ASSUME NEW p \in Pods, HarnessExit(p) PROVE BindingInv'
  BY <1>17, StopsTyped DEF HarnessExit
<1>18. ASSUME NEW r \in Sandboxes, ClaimRemoved(r) PROVE BindingInv'
  BY <1>18, StopsTyped DEF ClaimRemoved, Exists
<1>19. ASSUME NEW r \in Sandboxes, Cascade(r) PROVE BindingInv'
  BY <1>19, StopsTyped DEF Cascade
<1>20. CASE UNCHANGED vars
  BY <1>20 DEF vars
<1>21. ASSUME NEW s \in Stops, StopRef(s) PROVE BindingInv'
  BY <1>21, StopsTyped DEF StopRef
<1>22. ASSUME NEW r \in Sandboxes, DeleteOwner(r) PROVE BindingInv'
  BY <1>22, StopsTyped DEF DeleteOwner
<1>23. QED
  BY <1>1, <1>2, <1>3, <1>4, <1>5, <1>6, <1>7, <1>8, <1>9, <1>10, <1>11, <1>12, <1>13, <1>14, <1>15, <1>16, <1>17, <1>18, <1>19, <1>20, <1>21, <1>22 DEF Next

\* A handler reaches each stage with the claim, the launch and the row it implies.
LEMMA HandlerStep == TypeOK /\ BindingInv /\ HandlerInv /\ ReconcilerInv /\ StopInv /\ [Next]_vars => HandlerInv'
<1> SUFFICES ASSUME TypeOK, BindingInv, HandlerInv, ReconcilerInv, StopInv, [Next]_vars PROVE HandlerInv'
  OBVIOUS
<1> USE NoPodAssumption DEF TypeOK, CreateInFlight, StopInFlight, ClaimStates, handlerVars, podVars, recVars, BindingInv, HandlerInv, ReconcilerInv, StopInv
<1>1. ASSUME NEW r \in Sandboxes, Arrive(r) PROVE HandlerInv'
  BY <1>1, StopsTyped DEF Arrive
<1>2. ASSUME NEW r \in Sandboxes, CreateClaim(r) PROVE HandlerInv'
  BY <1>2, StopsTyped DEF CreateClaim, TookEffect
<1>3. ASSUME NEW r \in Sandboxes, PollAdopted(r) PROVE HandlerInv'
  BY <1>3, StopsTyped DEF PollAdopted
<1>4. ASSUME NEW r \in Sandboxes, PollGiveUp(r) PROVE HandlerInv'
  BY <1>4, StopsTyped DEF PollGiveUp, DestroyClaim, Exists
<1>5. ASSUME NEW r \in Sandboxes, ClaimSupervisor(r) PROVE HandlerInv'
  BY <1>5, StopsTyped DEF ClaimSupervisor, TookEffect, Accept, Reachable
<1>6. ASSUME NEW r \in Sandboxes, Undo(r) PROVE HandlerInv'
  BY <1>6, StopsTyped DEF Undo, DestroyClaim, Exists
<1>7. ASSUME NEW r \in Sandboxes, InsertRow(r) PROVE HandlerInv'
  BY <1>7, StopsTyped DEF InsertRow
<1>8. ASSUME NEW s \in Stops, StopLookup(s) PROVE HandlerInv'
  BY <1>8, StopsTyped DEF StopLookup
<1>9. ASSUME NEW s \in Stops, StopMark(s) PROVE HandlerInv'
  BY <1>9, StopsTyped DEF StopMark, MarkGone
<1>10. ASSUME NEW s \in Stops, StopDelete(s) PROVE HandlerInv'
  BY <1>10, StopsTyped DEF StopDelete, DestroyClaim, Exists
<1>11. ASSUME NEW h \in Sandboxes \cup Stops, HangUp(h) PROVE HandlerInv'
  BY <1>11, StopsTyped DEF HangUp
<1>12. ASSUME RecRead PROVE HandlerInv'
  BY <1>12, StopsTyped DEF RecRead
<1>13. ASSUME RecList PROVE HandlerInv'
  BY <1>13, StopsTyped DEF RecList, Exists
<1>14. ASSUME NEW e \in Sandboxes, RecUpdate(e) PROVE HandlerInv'
  BY <1>14, StopsTyped DEF RecUpdate, MarkGone
<1>15. ASSUME Crash PROVE HandlerInv'
  BY <1>15, StopsTyped DEF Crash
<1>16. ASSUME NEW r \in Sandboxes, NEW p \in Pods, Bind(r, p) PROVE HandlerInv'
  BY <1>16, StopsTyped DEF Bind
<1>17. ASSUME NEW p \in Pods, HarnessExit(p) PROVE HandlerInv'
  BY <1>17, StopsTyped DEF HarnessExit
<1>18. ASSUME NEW r \in Sandboxes, ClaimRemoved(r) PROVE HandlerInv'
  BY <1>18, StopsTyped DEF ClaimRemoved, Exists
<1>19. ASSUME NEW r \in Sandboxes, Cascade(r) PROVE HandlerInv'
  BY <1>19, StopsTyped DEF Cascade
<1>20. CASE UNCHANGED vars
  BY <1>20 DEF vars
<1>21. ASSUME NEW s \in Stops, StopRef(s) PROVE HandlerInv'
  BY <1>21, StopsTyped DEF StopRef
<1>22. ASSUME NEW r \in Sandboxes, DeleteOwner(r) PROVE HandlerInv'
  BY <1>22, StopsTyped DEF DeleteOwner
<1>23. QED
  BY <1>1, <1>2, <1>3, <1>4, <1>5, <1>6, <1>7, <1>8, <1>9, <1>10, <1>11, <1>12, <1>13, <1>14, <1>15, <1>16, <1>17, <1>18, <1>19, <1>20, <1>21, <1>22 DEF Next

\* Rows outlive the round that read them, and a deleted claim stays deleted.
LEMMA ReconcilerStep == TypeOK /\ BindingInv /\ HandlerInv /\ ReconcilerInv /\ [Next]_vars => ReconcilerInv'
<1> SUFFICES ASSUME TypeOK, BindingInv, HandlerInv, ReconcilerInv, [Next]_vars PROVE ReconcilerInv'
  OBVIOUS
<1> USE NoPodAssumption DEF TypeOK, CreateInFlight, StopInFlight, ClaimStates, handlerVars, podVars, recVars, BindingInv, HandlerInv, ReconcilerInv
<1>1. ASSUME NEW r \in Sandboxes, Arrive(r) PROVE ReconcilerInv'
  BY <1>1, StopsTyped DEF Arrive
<1>2. ASSUME NEW r \in Sandboxes, CreateClaim(r) PROVE ReconcilerInv'
  BY <1>2, StopsTyped DEF CreateClaim, TookEffect
<1>3. ASSUME NEW r \in Sandboxes, PollAdopted(r) PROVE ReconcilerInv'
  BY <1>3, StopsTyped DEF PollAdopted
<1>4. ASSUME NEW r \in Sandboxes, PollGiveUp(r) PROVE ReconcilerInv'
  BY <1>4, StopsTyped DEF PollGiveUp, DestroyClaim, Exists
<1>5. ASSUME NEW r \in Sandboxes, ClaimSupervisor(r) PROVE ReconcilerInv'
  BY <1>5, StopsTyped DEF ClaimSupervisor, TookEffect, Accept, Reachable
<1>6. ASSUME NEW r \in Sandboxes, Undo(r) PROVE ReconcilerInv'
  BY <1>6, StopsTyped DEF Undo, DestroyClaim, Exists
<1>7. ASSUME NEW r \in Sandboxes, InsertRow(r) PROVE ReconcilerInv'
  BY <1>7, StopsTyped DEF InsertRow
<1>8. ASSUME NEW s \in Stops, StopLookup(s) PROVE ReconcilerInv'
  BY <1>8, StopsTyped DEF StopLookup
<1>9. ASSUME NEW s \in Stops, StopMark(s) PROVE ReconcilerInv'
  BY <1>9, StopsTyped DEF StopMark, MarkGone
<1>10. ASSUME NEW s \in Stops, StopDelete(s) PROVE ReconcilerInv'
  BY <1>10, StopsTyped DEF StopDelete, DestroyClaim, Exists
<1>11. ASSUME NEW h \in Sandboxes \cup Stops, HangUp(h) PROVE ReconcilerInv'
  BY <1>11, StopsTyped DEF HangUp
<1>12. ASSUME RecRead PROVE ReconcilerInv'
  BY <1>12, StopsTyped DEF RecRead
<1>13. ASSUME RecList PROVE ReconcilerInv'
  BY <1>13, StopsTyped DEF RecList, Exists
<1>14. ASSUME NEW e \in Sandboxes, RecUpdate(e) PROVE ReconcilerInv'
  BY <1>14, StopsTyped DEF RecUpdate, MarkGone
<1>15. ASSUME Crash PROVE ReconcilerInv'
  BY <1>15, StopsTyped DEF Crash
<1>16. ASSUME NEW r \in Sandboxes, NEW p \in Pods, Bind(r, p) PROVE ReconcilerInv'
  BY <1>16, StopsTyped DEF Bind
<1>17. ASSUME NEW p \in Pods, HarnessExit(p) PROVE ReconcilerInv'
  BY <1>17, StopsTyped DEF HarnessExit
<1>18. ASSUME NEW r \in Sandboxes, ClaimRemoved(r) PROVE ReconcilerInv'
  BY <1>18, StopsTyped DEF ClaimRemoved, Exists
<1>19. ASSUME NEW r \in Sandboxes, Cascade(r) PROVE ReconcilerInv'
  BY <1>19, StopsTyped DEF Cascade
<1>20. CASE UNCHANGED vars
  BY <1>20 DEF vars
<1>21. ASSUME NEW s \in Stops, StopRef(s) PROVE ReconcilerInv'
  BY <1>21, StopsTyped DEF StopRef
<1>22. ASSUME NEW r \in Sandboxes, DeleteOwner(r) PROVE ReconcilerInv'
  BY <1>22, StopsTyped DEF DeleteOwner
<1>23. QED
  BY <1>1, <1>2, <1>3, <1>4, <1>5, <1>6, <1>7, <1>8, <1>9, <1>10, <1>11, <1>12, <1>13, <1>14, <1>15, <1>16, <1>17, <1>18, <1>19, <1>20, <1>21, <1>22 DEF Next

\* A row that a stop has found is never absent again.
LEMMA StopInvStep == TypeOK /\ HandlerInv /\ StopInv /\ [Next]_vars => StopInv'
<1> SUFFICES ASSUME TypeOK, HandlerInv, StopInv, [Next]_vars PROVE StopInv'
  OBVIOUS
<1> USE NoPodAssumption DEF TypeOK, CreateInFlight, StopInFlight, ClaimStates, handlerVars, podVars, recVars, HandlerInv, StopInv
<1>1. ASSUME NEW r \in Sandboxes, Arrive(r) PROVE StopInv'
  BY <1>1, StopsTyped DEF Arrive
<1>2. ASSUME NEW r \in Sandboxes, CreateClaim(r) PROVE StopInv'
  BY <1>2, StopsTyped DEF CreateClaim, TookEffect
<1>3. ASSUME NEW r \in Sandboxes, PollAdopted(r) PROVE StopInv'
  BY <1>3, StopsTyped DEF PollAdopted
<1>4. ASSUME NEW r \in Sandboxes, PollGiveUp(r) PROVE StopInv'
  BY <1>4, StopsTyped DEF PollGiveUp, DestroyClaim, Exists
<1>5. ASSUME NEW r \in Sandboxes, ClaimSupervisor(r) PROVE StopInv'
  BY <1>5, StopsTyped DEF ClaimSupervisor, TookEffect, Accept, Reachable
<1>6. ASSUME NEW r \in Sandboxes, Undo(r) PROVE StopInv'
  BY <1>6, StopsTyped DEF Undo, DestroyClaim, Exists
<1>7. ASSUME NEW r \in Sandboxes, InsertRow(r) PROVE StopInv'
  BY <1>7, StopsTyped DEF InsertRow
<1>8. ASSUME NEW s \in Stops, StopLookup(s) PROVE StopInv'
  BY <1>8, StopsTyped DEF StopLookup
<1>9. ASSUME NEW s \in Stops, StopMark(s) PROVE StopInv'
  BY <1>9, StopsTyped DEF StopMark, MarkGone
<1>10. ASSUME NEW s \in Stops, StopDelete(s) PROVE StopInv'
  BY <1>10, StopsTyped DEF StopDelete, DestroyClaim, Exists
<1>11. ASSUME NEW h \in Sandboxes \cup Stops, HangUp(h) PROVE StopInv'
  BY <1>11, StopsTyped DEF HangUp
<1>12. ASSUME RecRead PROVE StopInv'
  BY <1>12, StopsTyped DEF RecRead
<1>13. ASSUME RecList PROVE StopInv'
  BY <1>13, StopsTyped DEF RecList, Exists
<1>14. ASSUME NEW e \in Sandboxes, RecUpdate(e) PROVE StopInv'
  BY <1>14, StopsTyped DEF RecUpdate, MarkGone
<1>15. ASSUME Crash PROVE StopInv'
  BY <1>15, StopsTyped DEF Crash
<1>16. ASSUME NEW r \in Sandboxes, NEW p \in Pods, Bind(r, p) PROVE StopInv'
  BY <1>16, StopsTyped DEF Bind
<1>17. ASSUME NEW p \in Pods, HarnessExit(p) PROVE StopInv'
  BY <1>17, StopsTyped DEF HarnessExit
<1>18. ASSUME NEW r \in Sandboxes, ClaimRemoved(r) PROVE StopInv'
  BY <1>18, StopsTyped DEF ClaimRemoved, Exists
<1>19. ASSUME NEW r \in Sandboxes, Cascade(r) PROVE StopInv'
  BY <1>19, StopsTyped DEF Cascade
<1>20. CASE UNCHANGED vars
  BY <1>20 DEF vars
<1>21. ASSUME NEW s \in Stops, StopRef(s) PROVE StopInv'
  BY <1>21, StopsTyped DEF StopRef
<1>22. ASSUME NEW r \in Sandboxes, DeleteOwner(r) PROVE StopInv'
  BY <1>22, StopsTyped DEF DeleteOwner
<1>23. QED
  BY <1>1, <1>2, <1>3, <1>4, <1>5, <1>6, <1>7, <1>8, <1>9, <1>10, <1>11, <1>12, <1>13, <1>14, <1>15, <1>16, <1>17, <1>18, <1>19, <1>20, <1>21, <1>22 DEF Next

\* Those who owe, and what each step does to them.
Debtors == {r \in Sandboxes : Owing(r)}

\* A step adds nobody, or one who was charged for it, whose client leaves or whose user
\* is deleted.
Charged ==
    \/ Debtors' \subseteq Debtors /\ faults' \in {faults, faults + 1} /\ UNCHANGED <<hungUp, ownerless>>
    \/ \E r : Debtors' \subseteq Debtors \cup {r} /\ faults' = faults + 1 /\ UNCHANGED <<hungUp, ownerless>>
    \/ \E r, h : /\ Debtors' \subseteq Debtors \cup {r} /\ UNCHANGED <<faults, ownerless>>
                 /\ h \notin hungUp /\ hungUp' = hungUp \cup {h}
    \/ \E r : /\ Debtors' \subseteq Debtors \cup {r} /\ UNCHANGED <<faults, hungUp>>
              /\ r \notin ownerless /\ ownerless' = ownerless \cup {r}

\* A set that grows by at most one grows by at most one.
LEMMA OneMore ==
  ASSUME NEW S, NEW T, NEW x, IsFiniteSet(S), T \subseteq S \cup {x}
  PROVE  IsFiniteSet(T) /\ Cardinality(T) <= Cardinality(S) + 1
<1>0. Cardinality(S) \in Nat
  BY FS_CardinalityType
<1>1. IsFiniteSet(S \cup {x}) /\ Cardinality(S \cup {x}) <= Cardinality(S) + 1
  BY <1>0, FS_AddElement
<1>2. IsFiniteSet(T) /\ Cardinality(T) <= Cardinality(S \cup {x})
  BY <1>1, FS_Subset
<1>3. Cardinality(T) \in Nat /\ Cardinality(S \cup {x}) \in Nat /\ Cardinality(S) \in Nat
  BY <1>1, <1>2, FS_CardinalityType
<1>4. QED
  BY <1>1, <1>2, <1>3

\* Whoever is charged pays for what is added.
LEMMA DebtsArePaid ==
  ASSUME faults \in Nat, IsFiniteSet(hungUp), IsFiniteSet(ownerless), IsFiniteSet(Debtors),
         Cardinality(Debtors) <= Disturbances, Charged
  PROVE  /\ IsFiniteSet(hungUp') /\ IsFiniteSet(ownerless') /\ IsFiniteSet(Debtors')
         /\ Cardinality(Debtors') <= Disturbances'
<1>1. /\ Cardinality(Debtors) \in Nat /\ Cardinality(hungUp) \in Nat /\ Cardinality(ownerless) \in Nat
      /\ Disturbances \in Nat
  BY FS_CardinalityType DEF Disturbances
\* One more debtor, and one more disturbance.
<1>a. ASSUME NEW r, Debtors' \subseteq Debtors \cup {r}, Disturbances' = Disturbances + 1
      PROVE  IsFiniteSet(Debtors') /\ Cardinality(Debtors') <= Disturbances'
  <2>1. IsFiniteSet(Debtors') /\ Cardinality(Debtors') <= Cardinality(Debtors) + 1
    BY <1>a, OneMore
  <2>2. Cardinality(Debtors') \in Nat
    BY <2>1, FS_CardinalityType
  <2>3. QED
    BY <1>1, <1>a, <2>1, <2>2
<1>2. CASE Debtors' \subseteq Debtors /\ faults' \in {faults, faults + 1} /\ UNCHANGED <<hungUp, ownerless>>
  <2>1. IsFiniteSet(Debtors') /\ Cardinality(Debtors') <= Cardinality(Debtors)
    BY <1>2, FS_Subset
  <2>2. Cardinality(Debtors') \in Nat
    BY <2>1, FS_CardinalityType
  <2>3. Disturbances' \in {Disturbances, Disturbances + 1}
    BY <1>1, <1>2 DEF Disturbances
  <2>4. QED
    BY <1>1, <1>2, <2>1, <2>2, <2>3
<1>3. ASSUME NEW r, Debtors' \subseteq Debtors \cup {r}, faults' = faults + 1,
             UNCHANGED <<hungUp, ownerless>>
      PROVE  /\ IsFiniteSet(hungUp') /\ IsFiniteSet(ownerless') /\ IsFiniteSet(Debtors')
             /\ Cardinality(Debtors') <= Disturbances'
  <2>1. Disturbances' = Disturbances + 1
    BY <1>1, <1>3 DEF Disturbances
  <2>2. QED
    BY <1>3, <1>a, <2>1
<1>4. ASSUME NEW r, NEW h, Debtors' \subseteq Debtors \cup {r}, UNCHANGED <<faults, ownerless>>,
             h \notin hungUp, hungUp' = hungUp \cup {h}
      PROVE  /\ IsFiniteSet(hungUp') /\ IsFiniteSet(ownerless') /\ IsFiniteSet(Debtors')
             /\ Cardinality(Debtors') <= Disturbances'
  <2>1. IsFiniteSet(hungUp') /\ Cardinality(hungUp') = Cardinality(hungUp) + 1
    BY <1>4, FS_AddElement
  <2>2. Disturbances' = Disturbances + 1
    BY <1>1, <1>4, <2>1 DEF Disturbances
  <2>3. QED
    BY <1>4, <1>a, <2>1, <2>2
<1>5. ASSUME NEW r, Debtors' \subseteq Debtors \cup {r}, UNCHANGED <<faults, hungUp>>,
             r \notin ownerless, ownerless' = ownerless \cup {r}
      PROVE  /\ IsFiniteSet(hungUp') /\ IsFiniteSet(ownerless') /\ IsFiniteSet(Debtors')
             /\ Cardinality(Debtors') <= Disturbances'
  <2>1. IsFiniteSet(ownerless') /\ Cardinality(ownerless') = Cardinality(ownerless) + 1
    BY <1>5, FS_AddElement
  <2>2. Disturbances' = Disturbances + 1
    BY <1>1, <1>5, <2>1 DEF Disturbances
  <2>3. QED
    BY <1>5, <1>a, <2>1, <2>2
<1>6. QED
  BY <1>2, <1>3, <1>4, <1>5 DEF Charged

\* A step that changes neither claims, rows, stops nor who has left adds nobody.
LEMMA NobodyElse ==
  ASSUME NEW D, UNCHANGED <<hungUp, ownerless>>, refRead \subseteq refRead',
         \A r \in Sandboxes \ D :
            /\ Exists(r)' => Exists(r)
            /\ Exists(r)' /\ create'[r] = "failed" /\ row'[r] = "absent" =>
                 create[r] = "failed" /\ row[r] = "absent"
            /\ \A s \in Stops : s[1] = r =>
                 /\ stop'[s] = "done" => stop[s] = "done"
                 /\ stop'[s] \in PastRead => stop[s] \in PastRead \/ s \in refRead'
  PROVE  Debtors' \subseteq Debtors \cup D
  BY DEF Debtors, Owing

\* A step about r alone, which is charged, or after which r owes only if it did.
LEMMA Attributed ==
  ASSUME NEW r, Debtors' \subseteq Debtors \cup {r}, UNCHANGED <<hungUp, ownerless>>,
         faults' = faults + 1 \/ (faults' = faults /\ (Owing(r)' => Owing(r)))
  PROVE  Charged
<1>1. CASE faults' = faults + 1
  BY <1>1 DEF Charged
<1>2. CASE faults' = faults /\ (Owing(r)' => Owing(r))
  <2>1. Debtors' \subseteq Debtors
    BY <1>2 DEF Debtors
  <2>2. QED
    BY <1>2, <2>1 DEF Charged
<1>3. QED
  BY <1>1, <1>2

\* Every failure is charged to the request that meets it.
LEMMA DebtStep == TypeOK /\ HandlerInv /\ StopInv /\ [Next]_vars /\ crashes' = 0 => Charged
<1> SUFFICES ASSUME TypeOK, HandlerInv, StopInv, [Next]_vars, crashes' = 0 PROVE Charged
  OBVIOUS
<1> USE DEF handlerVars, podVars, recVars
\* r has no stop that has found it, as long as it has no row.
<1>a. ASSUME NEW r \in Sandboxes, row[r] = "absent", NEW s \in Stops, s[1] = r
      PROVE  stop[s] # "done" /\ stop[s] \notin PastRead
  BY <1>a DEF StopInv, PastRead
\* Nobody comes to owe.
<1>b. ASSUME Debtors' \subseteq Debtors \cup {}, UNCHANGED <<hungUp, ownerless>>, faults' \in {faults, faults + 1}
      PROVE  Charged
  BY <1>b DEF Charged
<1>1. ASSUME NEW r \in Sandboxes, Arrive(r) PROVE Charged
  <2>1. Debtors' \subseteq Debtors \cup {}
    BY <1>1, NobodyElse DEF Arrive, TypeOK, Exists
  <2>2. QED
    BY <1>1, <1>b, <2>1 DEF Arrive
<1>2. ASSUME NEW r \in Sandboxes, CreateClaim(r) PROVE Charged
  <2>1. PICK o : /\ claim' = IF TookEffect(o) THEN [claim EXCEPT ![r] = "pending"] ELSE claim
                 /\ create' = [create EXCEPT ![r] = IF o = "ok" THEN "polling" ELSE "failed"]
                 /\ Charge(r \in hungUp, o)
    BY <1>2 DEF CreateClaim
  <2>2. Debtors' \subseteq Debtors \cup {r} /\ UNCHANGED <<hungUp, ownerless, row, stop, refRead>>
    BY <1>2, <2>1, NobodyElse DEF CreateClaim, TypeOK, Exists
  <2>3. row[r] = "absent"
    BY <1>2 DEF CreateClaim, HandlerInv, CreateInFlight
  <2>4. o = "ok" => create'[r] = "polling"
    BY <2>1 DEF TypeOK
  <2>5. faults' = faults + 1 \/ (faults' = faults /\ (o = "ok" \/ r \in hungUp))
    BY <2>1 DEF Charge
  <2>6. o = "ok" \/ r \in hungUp => (Owing(r)' => Owing(r))
    BY <1>a, <2>2, <2>3, <2>4 DEF Owing
  <2>7. QED
    BY <2>2, <2>5, <2>6, Attributed
<1>3. ASSUME NEW r \in Sandboxes, PollAdopted(r) PROVE Charged
  <2>1. Debtors' \subseteq Debtors \cup {}
    BY <1>3, NobodyElse DEF PollAdopted, TypeOK, Exists
  <2>2. QED
    BY <1>3, <1>b, <2>1 DEF PollAdopted
\* A create that deletes its claim, and fails.
<1>c. ASSUME NEW r \in Sandboxes, NEW cancelled, NEW o, DestroyClaim(r, o), Charge(cancelled, o),
             cancelled => r \in hungUp,
             create' = [create EXCEPT ![r] = "failed"], UNCHANGED <<stop, refRead, hungUp, ownerless, row>>
      PROVE  Charged
  <2>1. Debtors' \subseteq Debtors \cup {r}
    BY <1>c, NobodyElse DEF DestroyClaim, TypeOK, Exists
  <2>2. CASE TookEffect(o)
    <3>1. ~Exists(r)'
      BY <1>c, <2>2 DEF DestroyClaim, TypeOK, Exists
    <3>2. Owing(r)' => Owing(r)
      BY <1>c, <3>1 DEF Owing
    <3>3. faults' = faults \/ faults' = faults + 1
      BY <1>c DEF Charge
    <3>4. QED
      BY <1>c, <2>1, <3>2, <3>3, Attributed
  <2>3. CASE ~TookEffect(o)
    <3>1. faults' = faults + 1 \/ (faults' = faults /\ r \in hungUp)
      BY <1>c, <2>3 DEF Charge, TookEffect
    <3>2. r \in hungUp => Owing(r)
      BY DEF Owing
    <3>3. QED
      BY <1>c, <2>1, <3>1, <3>2, Attributed
  <2>4. QED
    BY <2>2, <2>3
<1>4. ASSUME NEW r \in Sandboxes, PollGiveUp(r) PROVE Charged
  BY <1>4, <1>c DEF PollGiveUp
<1>5. ASSUME NEW r \in Sandboxes, ClaimSupervisor(r) PROVE Charged
  <2>1. create'[r] # "failed" /\ \A q \in Sandboxes \ {r} : create'[q] = create[q]
    BY <1>5 DEF ClaimSupervisor, TypeOK
  <2>2. Debtors' \subseteq Debtors \cup {}
    BY <1>5, <2>1, NobodyElse DEF ClaimSupervisor, Exists
  <2>3. faults' \in {faults, faults + 1}
    BY <1>5 DEF ClaimSupervisor, Charge
  <2>4. QED
    BY <1>5, <1>b, <2>2, <2>3 DEF ClaimSupervisor
<1>6. ASSUME NEW r \in Sandboxes, Undo(r) PROVE Charged
  BY <1>6, <1>c DEF Undo
<1>7. ASSUME NEW r \in Sandboxes, InsertRow(r) PROVE Charged
  <2>1. PICK o : /\ row' = IF TookEffect(o) /\ r \notin ownerless
                          THEN [row EXCEPT ![r] = "running"] ELSE row
                 /\ create' = [create EXCEPT ![r] =
                      IF o = "ok" /\ r \notin ownerless THEN "answered" ELSE "failed"]
                 /\ Charge(r \in hungUp, o)
    BY <1>7 DEF InsertRow
  <2>2. Debtors' \subseteq Debtors \cup {r} /\ UNCHANGED <<hungUp, ownerless, claim, stop, refRead>>
    BY <1>7, <2>1, NobodyElse DEF InsertRow, TypeOK, Exists
  <2>3. row[r] = "absent"
    BY <1>7 DEF InsertRow, HandlerInv, CreateInFlight
  <2>4. TookEffect(o) /\ r \notin ownerless => row'[r] = "running"
    BY <2>1 DEF TypeOK
  <2>5. \/ faults' = faults + 1
        \/ faults' = faults /\ (TookEffect(o) \/ r \in hungUp)
    BY <2>1 DEF Charge, TookEffect
  <2>6. TookEffect(o) \/ r \in hungUp => (Owing(r)' => Owing(r))
    BY <1>a, <2>2, <2>3, <2>4 DEF Owing
  <2>7. QED
    BY <2>2, <2>5, <2>6, Attributed
<1>8. ASSUME NEW s \in Stops, StopLookup(s) PROVE Charged
  <2>1. /\ UNCHANGED <<hungUp, ownerless, create, row, claim, refRead>>
        /\ \A q \in Stops : stop'[q] = stop[q] \/ stop'[q] \in {"rejected", "reading"}
    BY <1>8 DEF StopLookup
  <2>2. Debtors' \subseteq Debtors \cup {}
    BY <2>1, NobodyElse DEF Exists, PastRead
  <2>3. faults' \in {faults, faults + 1}
    BY <1>8 DEF StopLookup, Charge
  <2>4. QED
    BY <1>b, <2>1, <2>2, <2>3
<1>e. ASSUME NEW s \in Stops, StopRef(s) PROVE Charged
  <2>0. UNCHANGED <<hungUp, ownerless, create, row, claim>> /\ stop' = [stop EXCEPT ![s] = "marking"]
    BY <1>e DEF StopRef
  <2>1. PICK o : /\ refRead' = IF o = "ok" /\ s[1] \notin ownerless THEN refRead \cup {s} ELSE refRead
                 /\ Charge(s \in hungUp, o)
    BY <1>e DEF StopRef
  <2>2. Debtors' \subseteq Debtors \cup {s[1]}
    BY <2>0, <2>1, NobodyElse DEF TypeOK, Exists, PastRead
  <2>3. CASE o = "ok" /\ s[1] \notin ownerless
    <3>1. Debtors' \subseteq Debtors \cup {}
      BY <2>0, <2>1, <2>3, NobodyElse DEF TypeOK, Exists, PastRead
    <3>2. faults' = faults
      BY <2>1, <2>3 DEF Charge
    <3>3. QED
      BY <2>0, <1>b, <3>1, <3>2
  <2>4. CASE ~(o = "ok" /\ s[1] \notin ownerless)
    <3>1. faults' = faults + 1 \/ (faults' = faults /\ (s \in hungUp \/ s[1] \in ownerless))
      BY <2>1, <2>4 DEF Charge
    <3>2. s \in hungUp \/ s[1] \in ownerless => Owing(s[1])
      BY DEF Owing
    <3>3. QED
      BY <2>0, <2>2, <3>1, <3>2, Attributed
  <2>5. QED
    BY <2>3, <2>4
<1>9. ASSUME NEW s \in Stops, StopMark(s) PROVE Charged
  <2>1. \A r \in Sandboxes : row'[r] = "absent" => row[r] = "absent"
    BY <1>9, StopsTyped DEF StopMark, MarkGone, TypeOK
  <2>2. Debtors' \subseteq Debtors \cup {}
    BY <1>9, <2>1, NobodyElse DEF StopMark, TypeOK, Exists, PastRead
  <2>3. faults' \in {faults, faults + 1}
    BY <1>9 DEF StopMark, Charge
  <2>4. QED
    BY <1>9, <1>b, <2>2, <2>3 DEF StopMark
<1>10. ASSUME NEW s \in Stops, StopDelete(s) PROVE Charged
  <2>0. /\ UNCHANGED <<hungUp, ownerless, create, row, refRead>> /\ stop' = [stop EXCEPT ![s] = "done"]
        /\ stop[s] = "deleting" /\ s[1] \in Sandboxes
    BY <1>10, StopsTyped DEF StopDelete
  <2>1. CASE s \notin refRead
    <3>1. UNCHANGED <<claim, faults>>
      BY <1>10, <2>1 DEF StopDelete
    <3>2. Debtors' \subseteq Debtors \cup {s[1]}
      BY <2>0, <3>1, NobodyElse DEF TypeOK, Exists, PastRead
    <3>3. Owing(s[1])' => Owing(s[1])
      BY <2>0, <2>1, <3>1 DEF Owing, Exists, PastRead
    <3>4. QED
      BY <2>0, <3>1, <3>2, <3>3, Attributed
  <2>2. ASSUME NEW o, DestroyClaim(s[1], o), Charge(s \in hungUp, o)
        PROVE  Charged
    <3>1. Debtors' \subseteq Debtors \cup {s[1]}
      BY <2>0, <2>2, NobodyElse DEF DestroyClaim, TypeOK, Exists, PastRead
    <3>2. CASE TookEffect(o)
      <4>1. ~Exists(s[1])'
        BY <2>0, <2>2, <3>2 DEF DestroyClaim, TypeOK, Exists
      <4>2. Owing(s[1])' => Owing(s[1])
        BY <2>0, <4>1 DEF Owing
      <4>3. faults' = faults \/ faults' = faults + 1
        BY <2>2 DEF Charge
      <4>4. QED
        BY <2>0, <3>1, <4>2, <4>3, Attributed
    <3>3. CASE ~TookEffect(o)
      <4>1. faults' = faults + 1 \/ (faults' = faults /\ s \in hungUp)
        BY <2>2, <3>3 DEF Charge, TookEffect
      <4>2. s \in hungUp => Owing(s[1])
        BY DEF Owing
      <4>3. QED
        BY <2>0, <3>1, <4>1, <4>2, Attributed
    <3>4. QED
      BY <3>2, <3>3
  <2>3. QED
    BY <1>10, <2>1, <2>2 DEF StopDelete
<1>11. ASSUME NEW h \in Sandboxes \cup Stops, HangUp(h) PROVE Charged
  <2>1. UNCHANGED <<create, stop, refRead, row, claim, faults, ownerless>> /\ h \notin hungUp /\ hungUp' = hungUp \cup {h}
    BY <1>11 DEF HangUp
  <2>2. \E r : Debtors' \subseteq Debtors \cup {r}
    <3>1. CASE h \in Sandboxes
      <4>1. h \notin Stops
        BY <3>1, RequestsAssumption
      <4>2. Debtors' \subseteq Debtors \cup {h}
        BY <2>1, <4>1 DEF Debtors, Owing, Exists
      <4>3. QED
        BY <4>2
    <3>2. CASE h \in Stops
      <4>1. h \notin Sandboxes
        BY <3>2, RequestsAssumption
      <4>2. Debtors' \subseteq Debtors \cup {h[1]}
        BY <2>1, <4>1 DEF Debtors, Owing, Exists
      <4>3. QED
        BY <4>2
    <3>3. QED
      BY <3>1, <3>2
  <2>3. QED
    BY <2>1, <2>2 DEF Charged
<1>f. ASSUME NEW r \in Sandboxes, DeleteOwner(r) PROVE Charged
  <2>1. /\ UNCHANGED <<create, stop, refRead, row, claim, faults, hungUp>>
        /\ r \notin ownerless /\ ownerless' = ownerless \cup {r}
    BY <1>f DEF DeleteOwner
  <2>2. Debtors' \subseteq Debtors \cup {r}
    BY <2>1 DEF Debtors, Owing, Exists
  <2>3. QED
    BY <2>1, <2>2 DEF Charged
\* What leaves claims, handlers and rows to themselves, but for rows marked and claims gone.
<1>d. ASSUME UNCHANGED <<create, stop, refRead, hungUp, ownerless>>, faults' \in {faults, faults + 1},
             \A r \in Sandboxes : row'[r] = "absent" => row[r] = "absent",
             \A r \in Sandboxes : Exists(r)' => Exists(r)
      PROVE  Charged
  <2>1. Debtors' \subseteq Debtors \cup {}
    BY <1>d, NobodyElse
  <2>2. QED
    BY <1>b, <1>d, <2>1
<1>12. CASE RecRead
  BY <1>d, <1>12 DEF RecRead, Exists
<1>13. CASE RecList
  BY <1>d, <1>13 DEF RecList, Charge, Exists
<1>14. ASSUME NEW e \in Sandboxes, RecUpdate(e) PROVE Charged
  BY <1>d, <1>14 DEF RecUpdate, MarkGone, Charge, Exists, TypeOK
<1>15. CASE Crash
  <2>1. crashes' = crashes + 1 /\ crashes \in Nat
    BY <1>15 DEF Crash, TypeOK
  <2>2. QED
    BY <2>1
<1>16. ASSUME NEW r \in Sandboxes, NEW p \in Pods, Bind(r, p) PROVE Charged
  BY <1>d, <1>16 DEF Bind, Exists, TypeOK
<1>17. ASSUME NEW p \in Pods, HarnessExit(p) PROVE Charged
  BY <1>d, <1>17 DEF HarnessExit, Exists
<1>18. ASSUME NEW r \in Sandboxes, ClaimRemoved(r) PROVE Charged
  BY <1>d, <1>18 DEF ClaimRemoved, Exists, TypeOK
<1>19. ASSUME NEW r \in Sandboxes, Cascade(r) PROVE Charged
  BY <1>d, <1>19 DEF Cascade, Exists
<1>20. CASE UNCHANGED vars
  BY <1>d, <1>20 DEF vars, Exists
<1>21. QED
  BY <1>1, <1>2, <1>3, <1>4, <1>5, <1>6, <1>7, <1>8, <1>9, <1>10, <1>11, <1>12, <1>13, <1>14,
     <1>15, <1>16, <1>17, <1>18, <1>19, <1>20, <1>e, <1>f DEF Next

\* Without a restart no handler is lost; the reconciler marks no row of a claim that exists.
LEMMA UndisturbedStep ==
  TypeOK /\ HandlerInv /\ ReconcilerInv /\ UndisturbedInv /\ [Next]_vars => UndisturbedInv'
<1> SUFFICES ASSUME TypeOK, HandlerInv, ReconcilerInv, UndisturbedInv, [Next]_vars PROVE UndisturbedInv'
  OBVIOUS
<1> USE DEF TypeOK, UndisturbedInv, handlerVars, podVars, recVars, Exists
<1>1. ASSUME NEW r \in Sandboxes, Arrive(r) PROVE UndisturbedInv'
  BY <1>1 DEF Arrive
<1>2. ASSUME NEW r \in Sandboxes, CreateClaim(r) PROVE UndisturbedInv'
  <2>1. create[r] = "creating" /\ UNCHANGED <<stop, row, crashes>>
    BY <1>2 DEF CreateClaim
  <2>2. \A q \in Sandboxes : create'[q] = create[q] \/ (q = r /\ create'[q] \in {"polling", "failed"})
    BY <1>2 DEF CreateClaim
  <2>3. \A q \in Sandboxes \ {r} : claim'[q] = claim[q]
    BY <1>2 DEF CreateClaim
  <2>4. row[r] = "absent"
    BY <2>1 DEF HandlerInv, CreateInFlight
  <2>5. QED
    BY <2>1, <2>2, <2>3, <2>4
<1>3. ASSUME NEW r \in Sandboxes, PollAdopted(r) PROVE UndisturbedInv'
  BY <1>3 DEF PollAdopted
<1>4. ASSUME NEW r \in Sandboxes, PollGiveUp(r) PROVE UndisturbedInv'
  BY <1>4 DEF PollGiveUp, DestroyClaim
<1>5. ASSUME NEW r \in Sandboxes, ClaimSupervisor(r) PROVE UndisturbedInv'
  BY <1>5 DEF ClaimSupervisor
<1>6. ASSUME NEW r \in Sandboxes, Undo(r) PROVE UndisturbedInv'
  BY <1>6 DEF Undo, DestroyClaim
<1>7. ASSUME NEW r \in Sandboxes, InsertRow(r) PROVE UndisturbedInv'
  BY <1>7 DEF InsertRow, TookEffect
<1>8. ASSUME NEW s \in Stops, StopLookup(s) PROVE UndisturbedInv'
  BY <1>8, StopsTyped DEF StopLookup
<1>9. ASSUME NEW s \in Stops, StopMark(s) PROVE UndisturbedInv'
  BY <1>9, StopsTyped DEF StopMark, MarkGone
<1>10. ASSUME NEW s \in Stops, StopDelete(s) PROVE UndisturbedInv'
  BY <1>10, StopsTyped DEF StopDelete, DestroyClaim
<1>11. ASSUME NEW h \in Sandboxes \cup Stops, HangUp(h) PROVE UndisturbedInv'
  BY <1>11 DEF HangUp
<1>12. CASE RecRead
  BY <1>12 DEF RecRead
<1>13. CASE RecList
  BY <1>13 DEF RecList
<1>14. ASSUME NEW e \in Sandboxes, RecUpdate(e) PROVE UndisturbedInv'
  BY <1>14 DEF RecUpdate, MarkGone, ReconcilerInv
<1>15. CASE Crash
  BY <1>15 DEF Crash
<1>16. ASSUME NEW r \in Sandboxes, NEW p \in Pods, Bind(r, p) PROVE UndisturbedInv'
  BY <1>16 DEF Bind
<1>17. ASSUME NEW p \in Pods, HarnessExit(p) PROVE UndisturbedInv'
  BY <1>17 DEF HarnessExit
<1>18. ASSUME NEW r \in Sandboxes, ClaimRemoved(r) PROVE UndisturbedInv'
  BY <1>18 DEF ClaimRemoved
<1>19. ASSUME NEW r \in Sandboxes, Cascade(r) PROVE UndisturbedInv'
  BY <1>19 DEF Cascade
<1>20. CASE UNCHANGED vars
  BY <1>20 DEF vars
<1>21. ASSUME NEW s \in Stops, StopRef(s) PROVE UndisturbedInv'
  BY <1>21, StopsTyped DEF StopRef
<1>22. ASSUME NEW r \in Sandboxes, DeleteOwner(r) PROVE UndisturbedInv'
  BY <1>22, StopsTyped DEF DeleteOwner
<1>23. QED
  BY <1>1, <1>2, <1>3, <1>4, <1>5, <1>6, <1>7, <1>8, <1>9, <1>10, <1>11, <1>12, <1>13, <1>14, <1>15, <1>16, <1>17, <1>18, <1>19, <1>20, <1>21, <1>22 DEF Next

\* The number of restarts only grows.
LEMMA RestartsGrow ==
  ASSUME TypeOK, [Next]_vars, crashes' = 0
  PROVE  crashes = 0
<1>1. CASE Crash
  BY <1>1 DEF Crash, TypeOK
<1>2. ASSUME NEW h \in Sandboxes \cup Stops, HangUp(h) PROVE crashes' = crashes
  BY <1>2 DEF HangUp
<1>3. ASSUME NEW r \in Sandboxes,
             \/ Arrive(r) \/ CreateClaim(r) \/ PollAdopted(r) \/ PollGiveUp(r)
             \/ ClaimSupervisor(r) \/ Undo(r) \/ InsertRow(r) \/ ClaimRemoved(r) \/ Cascade(r)
             \/ DeleteOwner(r)
      PROVE  crashes' = crashes
  BY <1>3 DEF Arrive, CreateClaim, PollAdopted, PollGiveUp, ClaimSupervisor, Undo, InsertRow,
              ClaimRemoved, Cascade, DeleteOwner
<1>4. ASSUME NEW s \in Stops, StopLookup(s) \/ StopRef(s) \/ StopMark(s) \/ StopDelete(s)
      PROVE  crashes' = crashes
  BY <1>4 DEF StopLookup, StopRef, StopMark, StopDelete
<1>5. ASSUME NEW e \in Sandboxes, RecUpdate(e) PROVE crashes' = crashes
  BY <1>5 DEF RecUpdate
<1>6. ASSUME NEW r \in Sandboxes, NEW p \in Pods, Bind(r, p) PROVE crashes' = crashes
  BY <1>6 DEF Bind
<1>7. ASSUME NEW p \in Pods, HarnessExit(p) PROVE crashes' = crashes
  BY <1>7 DEF HarnessExit
<1>8. CASE RecRead \/ RecList \/ UNCHANGED vars
  BY <1>8 DEF RecRead, RecList, vars
<1>9. QED
  BY <1>1, <1>2, <1>3, <1>4, <1>5, <1>6, <1>7, <1>8 DEF Next

\* A client that leaves, or a sandbox that loses its user, is one more.
LEMMA DisturbedGrow ==
  ASSUME TypeOK, [Next]_vars
  PROVE  (\E h : hungUp' \in {hungUp, hungUp \cup {h}}) /\ (\E r : ownerless' \in {ownerless, ownerless \cup {r}})
<1>1. ASSUME NEW h \in Sandboxes \cup Stops, HangUp(h)
      PROVE  hungUp' = hungUp \cup {h} /\ ownerless' = ownerless
  BY <1>1 DEF HangUp
<1>2. ASSUME NEW r \in Sandboxes, DeleteOwner(r)
      PROVE  hungUp' = hungUp /\ ownerless' = ownerless \cup {r}
  BY <1>2 DEF DeleteOwner
<1>3. ASSUME NEW r \in Sandboxes,
             \/ Arrive(r) \/ CreateClaim(r) \/ PollAdopted(r) \/ PollGiveUp(r)
             \/ ClaimSupervisor(r) \/ Undo(r) \/ InsertRow(r) \/ ClaimRemoved(r) \/ Cascade(r)
      PROVE  UNCHANGED <<hungUp, ownerless>>
  BY <1>3 DEF Arrive, CreateClaim, PollAdopted, PollGiveUp, ClaimSupervisor, Undo, InsertRow,
              ClaimRemoved, Cascade
<1>4. ASSUME NEW s \in Stops, StopLookup(s) \/ StopRef(s) \/ StopMark(s) \/ StopDelete(s)
      PROVE  UNCHANGED <<hungUp, ownerless>>
  BY <1>4 DEF StopLookup, StopRef, StopMark, StopDelete
<1>5. ASSUME NEW e \in Sandboxes, RecUpdate(e) PROVE UNCHANGED <<hungUp, ownerless>>
  BY <1>5 DEF RecUpdate
<1>6. ASSUME NEW r \in Sandboxes, NEW p \in Pods, Bind(r, p) PROVE UNCHANGED <<hungUp, ownerless>>
  BY <1>6 DEF Bind
<1>7. ASSUME NEW p \in Pods, HarnessExit(p) PROVE UNCHANGED <<hungUp, ownerless>>
  BY <1>7 DEF HarnessExit
<1>8. CASE RecRead \/ RecList \/ Crash \/ UNCHANGED vars
  BY <1>8 DEF RecRead, RecList, Crash, vars
<1>9. QED
  BY <1>1, <1>2, <1>3, <1>4, <1>5, <1>6, <1>7, <1>8 DEF Next

\* Those who owe are as many as were charged, or fewer.
LEMMA DebtInvStep == TypeOK /\ HandlerInv /\ StopInv /\ DebtInv /\ [Next]_vars => DebtInv'
<1> SUFFICES ASSUME TypeOK, HandlerInv, StopInv, DebtInv, [Next]_vars PROVE DebtInv'
  OBVIOUS
<1>1. IsFiniteSet(hungUp)' /\ IsFiniteSet(ownerless)'
  BY DisturbedGrow, FS_AddElement DEF DebtInv
<1>2. ASSUME crashes' = 0
      PROVE  IsFiniteSet(Debtors') /\ Cardinality(Debtors') <= Disturbances'
  <2>1. Charged
    BY <1>2, DebtStep
  <2>2. IsFiniteSet(Debtors) /\ Cardinality(Debtors) <= Disturbances
    BY <1>2, RestartsGrow DEF DebtInv, Debtors
  <2>3. faults \in Nat /\ IsFiniteSet(hungUp) /\ IsFiniteSet(ownerless)
    BY DEF TypeOK, DebtInv
  <2>4. QED
    BY <2>1, <2>2, <2>3, DebtsArePaid
<1>3. QED
  BY <1>1, <1>2 DEF DebtInv, Debtors

\* The stops that leave their claim, and what each step does to them.
Missers == {s \in Stops : Missing(s)}

\* A step makes no stop miss its claim, or one that was charged for it.
PaidFor ==
    \/ Missers' \subseteq Missers /\ faults' \in {faults, faults + 1}
    \/ \E s : Missers' \subseteq Missers \cup {s} /\ faults' = faults + 1

\* A step that moves no stop on, and makes no claim for one that has begun, is paid for.
LEMMA NoStopMore ==
  ASSUME hungUp \subseteq hungUp', ownerless \subseteq ownerless', refRead \subseteq refRead', faults' \in {faults, faults + 1},
         \A s \in Stops : /\ stop'[s] = "done" => stop[s] = "done"
                          /\ stop'[s] \in PastRead => stop[s] \in PastRead
                          /\ Exists(s[1])' /\ stop[s] \notin {"new", "rejected"} => Exists(s[1])
  PROVE  PaidFor
<1>1. Missers' \subseteq Missers
  BY DEF Missers, Missing, PastRead
<1>2. QED
  BY <1>1 DEF PaidFor

\* One stop moves on: it is charged, or misses its claim only if it did.
LEMMA OneStopMore ==
  ASSUME NEW s \in Stops, UNCHANGED <<hungUp, ownerless>>,
         \A q \in Stops \ {s} : /\ stop'[q] = stop[q] /\ (q \in refRead => q \in refRead')
                                /\ Exists(q[1])' => Exists(q[1]),
         \/ faults' = faults + 1
         \/ faults' = faults /\ (Missing(s)' => Missing(s))
  PROVE  PaidFor
<1>1. Missers' \subseteq Missers \cup {s}
  BY DEF Missers, Missing
<1>2. CASE faults' = faults + 1
  BY <1>1, <1>2 DEF PaidFor
<1>3. CASE faults' = faults /\ (Missing(s)' => Missing(s))
  <2>1. Missers' \subseteq Missers
    BY <1>1, <1>3 DEF Missers
  <2>2. QED
    BY <1>3, <2>1 DEF PaidFor
<1>4. QED
  BY <1>2, <1>3

\* Only a failed call makes a stop, whose client stays, miss its claim.
LEMMA MissedStep == TypeOK /\ HandlerInv /\ StopInv /\ [Next]_vars => PaidFor
<1> SUFFICES ASSUME TypeOK, HandlerInv, StopInv, [Next]_vars PROVE PaidFor
  OBVIOUS
<1> USE DEF handlerVars, podVars, recVars
<1>1. ASSUME NEW r \in Sandboxes, Arrive(r) \/ PollAdopted(r) PROVE PaidFor
  BY <1>1, NoStopMore DEF Arrive, PollAdopted, Exists
\* The sandbox of a claim that is being created has no row, and no stop has found it.
<1>2. ASSUME NEW r \in Sandboxes, CreateClaim(r) PROVE PaidFor
  <2>1. row[r] = "absent"
    BY <1>2 DEF CreateClaim, HandlerInv, CreateInFlight
  <2>2. \A s \in Stops : Exists(s[1])' /\ stop[s] \notin {"new", "rejected"} => Exists(s[1])
    BY <1>2, <2>1, StopsTyped DEF CreateClaim, StopInv, Exists, TypeOK
  <2>3. UNCHANGED <<hungUp, ownerless, stop, refRead>> /\ faults' \in {faults, faults + 1}
    BY <1>2 DEF CreateClaim, Charge
  <2>4. QED
    BY <2>2, <2>3, NoStopMore
<1>3. ASSUME NEW r \in Sandboxes, PollGiveUp(r) \/ Undo(r) PROVE PaidFor
  <2>1. \A q \in Sandboxes : Exists(q)' => Exists(q)
    BY <1>3 DEF PollGiveUp, Undo, DestroyClaim, Exists, TypeOK
  <2>2. UNCHANGED <<hungUp, ownerless, stop, refRead>> /\ faults' \in {faults, faults + 1}
    BY <1>3 DEF PollGiveUp, Undo, Charge
  <2>3. QED
    BY <2>1, <2>2, StopsTyped, NoStopMore
<1>4. ASSUME NEW r \in Sandboxes, ClaimSupervisor(r) \/ InsertRow(r) PROVE PaidFor
  <2>1. UNCHANGED <<claim, hungUp, ownerless, stop, refRead>> /\ faults' \in {faults, faults + 1}
    BY <1>4 DEF ClaimSupervisor, InsertRow, Charge
  <2>2. QED
    BY <2>1, NoStopMore DEF Exists
<1>5. ASSUME NEW s \in Stops, StopRef(s) PROVE PaidFor
  <2>1. UNCHANGED <<claim, hungUp, ownerless>> /\ stop' = [stop EXCEPT ![s] = "marking"]
    BY <1>5 DEF StopRef
  <2>2. PICK o : /\ Charge(s \in hungUp, o)
                 /\ refRead' = IF o = "ok" /\ s[1] \notin ownerless THEN refRead \cup {s} ELSE refRead
    BY <1>5 DEF StopRef
  <2>3. faults' = faults + 1 \/ (faults' = faults /\ (o = "ok" \/ s \in hungUp))
    BY <2>2 DEF Charge
  <2>4. o = "ok" \/ s \in hungUp => ~Missing(s)'
    BY <2>1, <2>2 DEF Missing, PastRead, TypeOK
  <2>5. \A q \in Stops \ {s} : stop'[q] = stop[q] /\ (q \in refRead => q \in refRead')
    BY <2>1, <2>2 DEF TypeOK
  <2>6. QED
    BY <2>1, <2>3, <2>4, <2>5, OneStopMore DEF Exists
<1>a. ASSUME NEW s \in Stops, StopLookup(s) PROVE PaidFor
  <2>1. /\ UNCHANGED <<claim, hungUp, ownerless, refRead>> /\ faults' \in {faults, faults + 1}
        /\ \A q \in Stops : stop'[q] = stop[q] \/ stop'[q] \in {"rejected", "reading"}
    BY <1>a DEF StopLookup, Charge
  <2>2. QED
    BY <2>1, NoStopMore DEF Exists, PastRead
<1>b. ASSUME NEW r \in Sandboxes, DeleteOwner(r) PROVE PaidFor
  <2>1. UNCHANGED <<claim, hungUp, stop, refRead, faults>> /\ ownerless \subseteq ownerless'
    BY <1>b DEF DeleteOwner
  <2>2. QED
    BY <2>1, NoStopMore DEF Exists
<1>6. ASSUME NEW s \in Stops, StopMark(s) PROVE PaidFor
  <2>1. UNCHANGED <<claim, hungUp, ownerless, refRead>> /\ faults' \in {faults, faults + 1}
    BY <1>6 DEF StopMark, Charge
  <2>2. \A q \in Stops : /\ stop'[q] = "done" => stop[q] = "done"
                         /\ stop'[q] \in PastRead => stop[q] \in PastRead
    BY <1>6 DEF StopMark, PastRead, TypeOK
  <2>3. QED
    BY <2>1, <2>2, NoStopMore DEF Exists
<1>7. ASSUME NEW s \in Stops, StopDelete(s) PROVE PaidFor
  <2>1. /\ UNCHANGED <<hungUp, ownerless, refRead>> /\ stop[s] = "deleting"
        /\ stop' = [stop EXCEPT ![s] = "done"] /\ s[1] \in Sandboxes
    BY <1>7, StopsTyped DEF StopDelete
  <2>2. PICK o \in Outcomes(s \in hungUp) :
          IF s \in refRead THEN DestroyClaim(s[1], o) /\ Charge(s \in hungUp, o)
                           ELSE UNCHANGED <<claim, faults>>
    BY <1>7 DEF StopDelete
  <2>3. \A q \in Stops : Exists(q[1])' => Exists(q[1])
    BY <2>1, <2>2, StopsTyped DEF DestroyClaim, Exists, TypeOK
  <2>4. \A q \in Stops \ {s} : stop'[q] = stop[q]
    BY <2>1 DEF TypeOK
  <2>5. CASE s \notin refRead
    <3>1. Missing(s)' => Missing(s)
      BY <2>1, <2>3, <2>5 DEF Missing, PastRead
    <3>2. QED
      BY <2>1, <2>2, <2>3, <2>4, <2>5, <3>1, OneStopMore
  <2>6. CASE s \in refRead /\ TookEffect(o)
    <3>1. ~Exists(s[1])'
      BY <2>1, <2>2, <2>6 DEF DestroyClaim, Exists, TypeOK
    <3>2. faults' = faults + 1 \/ faults' = faults
      BY <2>2, <2>6 DEF Charge
    <3>3. QED
      BY <2>1, <2>3, <2>4, <3>1, <3>2, OneStopMore DEF Missing
  <2>7. CASE s \in refRead /\ ~TookEffect(o)
    <3>1. faults' = faults + 1 \/ (faults' = faults /\ s \in hungUp)
      BY <2>2, <2>7 DEF Charge, TookEffect
    <3>2. s \in hungUp => ~Missing(s)'
      BY <2>1 DEF Missing
    <3>3. QED
      BY <2>1, <2>3, <2>4, <3>1, <3>2, OneStopMore
  <2>8. QED
    BY <2>5, <2>6, <2>7
<1>8. ASSUME NEW h \in Sandboxes \cup Stops, HangUp(h) PROVE PaidFor
  <2>1. UNCHANGED <<claim, stop, refRead, faults, ownerless>> /\ hungUp \subseteq hungUp'
    BY <1>8 DEF HangUp
  <2>2. QED
    BY <2>1, NoStopMore DEF Exists
<1>9. ASSUME RecRead \/ RecList \/ \E e \in Sandboxes : RecUpdate(e) PROVE PaidFor
  <2>1. UNCHANGED <<claim, hungUp, ownerless, stop, refRead>> /\ faults' \in {faults, faults + 1}
    BY <1>9 DEF RecRead, RecList, RecUpdate, Charge
  <2>2. QED
    BY <2>1, NoStopMore DEF Exists
<1>10. ASSUME Crash PROVE PaidFor
  <2>1. UNCHANGED <<claim, hungUp, ownerless, refRead, faults>>
    BY <1>10 DEF Crash
  <2>2. \A q \in Stops : /\ stop'[q] = "done" => stop[q] = "done"
                         /\ stop'[q] \notin PastRead
    BY <1>10 DEF Crash, PastRead, StopInFlight, TypeOK
  <2>3. QED
    BY <2>1, <2>2, NoStopMore DEF Exists
<1>11. ASSUME NEW r \in Sandboxes, ClaimRemoved(r) \/ \E p \in Pods : Bind(r, p) PROVE PaidFor
  <2>1. \A q \in Sandboxes : Exists(q)' => Exists(q)
    BY <1>11 DEF ClaimRemoved, Bind, Exists, TypeOK
  <2>2. UNCHANGED <<hungUp, ownerless, stop, refRead, faults>>
    BY <1>11 DEF ClaimRemoved, Bind
  <2>3. QED
    BY <2>1, <2>2, StopsTyped, NoStopMore
<1>12. ASSUME (\E r \in Sandboxes : Cascade(r)) \/ (\E p \in Pods : HarnessExit(p)) \/ UNCHANGED vars
       PROVE  PaidFor
  <2>1. UNCHANGED <<claim, hungUp, ownerless, stop, refRead, faults>>
    BY <1>12 DEF Cascade, HarnessExit, vars
  <2>2. QED
    BY <2>1, NoStopMore DEF Exists
<1>13. QED
  BY <1>1, <1>2, <1>3, <1>4, <1>5, <1>6, <1>7, <1>8, <1>9, <1>10, <1>11, <1>12, <1>a, <1>b DEF Next

\* Those that miss their claim are as many as calls failed, or fewer.
LEMMA MissedInvStep == TypeOK /\ HandlerInv /\ StopInv /\ MissedInv /\ [Next]_vars => MissedInv'
<1> SUFFICES ASSUME TypeOK, HandlerInv, StopInv, MissedInv, [Next]_vars PROVE MissedInv'
  OBVIOUS
<1>1. /\ IsFiniteSet(Missers) /\ Cardinality(Missers) \in Nat /\ Cardinality(Missers) <= faults
      /\ faults \in Nat
  BY FS_CardinalityType DEF MissedInv, Missers, TypeOK
<1>2. CASE Missers' \subseteq Missers /\ faults' \in {faults, faults + 1}
  <2>1. IsFiniteSet(Missers') /\ Cardinality(Missers') <= Cardinality(Missers)
    BY <1>1, <1>2, FS_Subset
  <2>2. Cardinality(Missers') \in Nat
    BY <2>1, FS_CardinalityType
  <2>3. Cardinality(Missers') <= faults'
    BY <1>1, <1>2, <2>1, <2>2
  <2>4. QED
    BY <2>1, <2>3 DEF MissedInv, Missers
<1>3. ASSUME NEW s, Missers' \subseteq Missers \cup {s}, faults' = faults + 1 PROVE MissedInv'
  <2>1. IsFiniteSet(Missers') /\ Cardinality(Missers') <= Cardinality(Missers) + 1
    BY <1>1, <1>3, OneMore
  <2>2. Cardinality(Missers') \in Nat
    BY <2>1, FS_CardinalityType
  <2>3. Cardinality(Missers') <= faults'
    BY <1>1, <1>3, <2>1, <2>2
  <2>4. QED
    BY <2>1, <2>3 DEF MissedInv, Missers
<1>4. PaidFor
  BY MissedStep
<1>5. QED
  BY <1>2, <1>3, <1>4 DEF PaidFor

\* The invariant is inductive: its conjuncts keep each other.
LEMMA IInvStep == IInv /\ [Next]_vars => IInv'
  BY TypeStep, BindingStep, HandlerStep, ReconcilerStep, StopInvStep, UndisturbedStep, DebtInvStep,
     MissedInvStep DEF IInv

\* The inductive invariant holds in every behaviour, whatever fails.
THEOREM Invariance == Spec => []IInv
<1>1. Safety => []IInv
  BY InitIInv, IInvStep, PTL DEF Safety
<1>2. Spec => Safety
  BY DEF Spec
<1>3. QED
  BY <1>1, <1>2, PTL

\* Every variable keeps its type.
THEOREM TypeCorrect == Spec => []TypeOK
<1>1. IInv => TypeOK
  BY DEF IInv
<1>2. QED
  BY <1>1, Invariance, PTL

\* A row's provider_ref leads to the pod that serves that sandbox and no other:
\* a pod bound once, to the claim of the handler that launched it.
THEOREM RowsHaveTheirPods == Spec => []RowHasItsPod
<1>1. IInv => RowHasItsPod
  <2> SUFFICES ASSUME IInv, NEW r \in Sandboxes, row[r] # "absent"
               PROVE  /\ boundTo[r] \in Pods
                      /\ r \in served[boundTo[r]]
                      /\ \A q \in Sandboxes \ {r} : q \notin served[boundTo[r]]
    BY DEF RowHasItsPod
  <2>1. boundTo[r] \in Pods /\ r \in served[boundTo[r]]
    BY DEF IInv, HandlerInv
  <2>2. ASSUME NEW q \in Sandboxes, q \in served[boundTo[r]] PROVE q = r
    BY <2>1, <2>2, NoPodAssumption DEF IInv, BindingInv
  <2>3. QED
    BY <2>1, <2>2
<1>2. QED
  BY <1>1, Invariance, PTL

\* As long as the process lives, each orphaned claim is paid for by a failed call or a
\* disconnect of its own.
THEOREM LeaksArePaidFor == Spec => []LeaksAreAccountedFor
<1>1. ASSUME IInv, crashes = 0, NEW r \in Sandboxes, Orphan(r)
      PROVE  Owing(r)
  <2>1. create[r] \in {"failed", "answered"}
    BY <1>1 DEF IInv, TypeOK, CreateStages, HandlerInv, UndisturbedInv, Orphan, Exists
  <2>2. CASE row[r] = "absent"
    BY <1>1, <2>1, <2>2 DEF IInv, UndisturbedInv, Orphan, Owing
  <2>3. CASE row[r] = "gone"
    BY <1>1, <2>3 DEF IInv, UndisturbedInv, Orphan, Owing, StopInFlight
  <2>4. CASE r \in ownerless
    BY <2>4 DEF Owing
  <2>5. QED
    BY <1>1, <2>2, <2>3, <2>4 DEF IInv, TypeOK, Orphan
<1>2. ASSUME IInv, crashes = 0
      PROVE  Cardinality({r \in Sandboxes : Orphan(r)}) <= Disturbances
  <2>1. {r \in Sandboxes : Orphan(r)} \subseteq Debtors
    BY <1>1, <1>2 DEF Debtors
  <2>2. IsFiniteSet(Debtors) /\ Cardinality(Debtors) <= Disturbances
    BY <1>2 DEF IInv, DebtInv, Debtors
  <2>3. Disturbances \in Nat
    BY <1>2, FS_CardinalityType DEF IInv, TypeOK, DebtInv, Disturbances
  <2> DEFINE Orphans == {r \in Sandboxes : Orphan(r)}
  <2>4. IsFiniteSet(Orphans) /\ Cardinality(Orphans) <= Cardinality(Debtors)
    BY <2>1, <2>2, FS_Subset
  <2>5. Cardinality(Orphans) \in Nat /\ Cardinality(Debtors) \in Nat
    BY <2>2, <2>3, <2>4, FS_CardinalityType
  <2> HIDE DEF Orphans
  <2>6. Cardinality(Orphans) <= Disturbances
    BY <2>2, <2>3, <2>4, <2>5
  <2>7. QED
    BY <2>6 DEF Orphans
<1>3. IInv => LeaksAreAccountedFor
  BY <1>2 DEF LeaksAreAccountedFor
<1>4. QED
  BY <1>3, Invariance, PTL

\* A 204 that the client waits for leaves the claim only after a failed call, and each
\* failed call makes one stop at most do so.
THEOREM StopsArePaidFor == Spec => []StopsAreAccountedFor
<1>1. ASSUME IInv PROVE StopsAreAccountedFor
  <2> DEFINE Left == {s \in Stops : Missed(s)}
  <2>1. Left \subseteq Missers
    BY DEF Missers, Missed, Missing
  <2>2. IsFiniteSet(Missers) /\ Cardinality(Missers) <= faults /\ faults \in Nat
    BY <1>1 DEF IInv, MissedInv, Missers, TypeOK
  <2>3. IsFiniteSet(Left) /\ Cardinality(Left) <= Cardinality(Missers)
    BY <2>1, <2>2, FS_Subset
  <2>4. Cardinality(Left) \in Nat /\ Cardinality(Missers) \in Nat
    BY <2>2, <2>3, FS_CardinalityType
  <2> HIDE DEF Left
  <2>5. Cardinality(Left) <= faults
    BY <2>2, <2>3, <2>4
  <2>6. QED
    BY <2>5 DEF Left, StopsAreAccountedFor
<1>2. QED
  BY <1>1, Invariance, PTL

\* While no call fails, a client that waits for its 204 finds the claim deleted, unless its
\* user is deleted.
THEOREM UndisturbedStopsDelete ==
  Spec => [](faults = 0 =>
               \A s \in Stops : (stop[s] = "done" /\ s \notin hungUp /\ s[1] \notin ownerless) => ~Exists(s[1]))
<1>1. ASSUME IInv, faults = 0, NEW s \in Stops, stop[s] = "done", s \notin hungUp,
             s[1] \notin ownerless
      PROVE  ~Exists(s[1])
  <2>1. IsFiniteSet(Missers) /\ Cardinality(Missers) \in Nat /\ Cardinality(Missers) <= 0
    BY <1>1, FS_CardinalityType DEF IInv, MissedInv, Missers
  <2>2. Missers = {}
    BY <2>1, FS_EmptySet
  <2>3. QED
    BY <1>1, <2>2 DEF Missers, Missing
<1>2. IInv => (faults = 0 =>
        \A s \in Stops : (stop[s] = "done" /\ s \notin hungUp /\ s[1] \notin ownerless) => ~Exists(s[1]))
  BY <1>1
<1>3. QED
  BY <1>2, Invariance, PTL

-----------------------------------------------------------------------------
(* SandboxLifecycle implements SandboxContract: each step is one step of the *)
(* contract for one sandbox, or none.                                        *)

\* No request yet: nothing listed, nothing live.
LEMMA InitContract == Init => Contract!Init
  BY StopsTyped DEF Init, Contract!Init, listedAs, sessionOf, beingStopped, Launched

\* What is listed depends on the rows alone.
LEMMA SameListing == row' = row => listedAs' = listedAs
  BY DEF listedAs

\* Sessions change only with claims and launches.
LEMMA SameSession == UNCHANGED <<claim, served>> => sessionOf' = sessionOf
  BY DEF sessionOf, Launched

\* A sandbox is asked to stop only by a stop.
LEMMA SameLeaving == stop' = stop => beingStopped' = beingStopped
  BY DEF beingStopped

\* Deleting a claim ends its session; deleting it again changes nothing.
LEMMA DestroyEndsSession ==
  ASSUME TypeOK, NEW r \in Sandboxes, NEW o, DestroyClaim(r, o),
         UNCHANGED <<row, served, stop>>
  PROVE  Contract!Finish(r) \/ UNCHANGED Contract!vars
<1>1. CASE claim' = claim
  BY <1>1, SameListing, SameSession, SameLeaving DEF Contract!vars
<1>2. CASE claim[r] # "deleted" /\ claim' = [claim EXCEPT ![r] = "deleted"]
  <2>1. sessionOf[r] # "over"
    BY <1>2 DEF sessionOf
  <2>2. sessionOf' = [sessionOf EXCEPT ![r] = "over"]
    BY <1>2 DEF sessionOf, Launched, TypeOK
  <2>3. QED
    BY <2>1, <2>2, SameListing, SameLeaving DEF Contract!Finish
<1>3. QED
  BY <1>1, <1>2 DEF DestroyClaim, Exists

\* A row is marked gone by someone who may: its claim is deleted, or it is stopped.
LEMMA MarkRetires ==
  ASSUME TypeOK, NEW r \in Sandboxes, NEW o, MarkGone(r, o),
         claim[r] = "deleted" \/ r \in beingStopped,
         UNCHANGED <<claim, served>>, beingStopped' = beingStopped
  PROVE  Contract!Retire(r) \/ UNCHANGED Contract!vars
<1>1. sessionOf' = sessionOf
  BY SameSession
<1>2. CASE listedAs' = listedAs
  BY <1>1, <1>2 DEF Contract!vars
<1>3. CASE row[r] = "running" /\ row' = [row EXCEPT ![r] = "gone"]
  <2>1. listedAs[r] = "running" /\ listedAs' = [listedAs EXCEPT ![r] = "gone"]
    BY <1>3 DEF listedAs, TypeOK
  <2>2. sessionOf[r] = "over" \/ r \in beingStopped
    BY DEF sessionOf
  <2>3. QED
    BY <2>1, <2>2, <1>1 DEF Contract!Retire
<1>4. QED
  BY <1>2, <1>3, SameListing DEF MarkGone, TypeOK

\* Each handler step, failure and restart is one step of the contract or none.
LEMMA ContractStep ==
  ASSUME IInv, [Next]_vars
  PROVE  [Contract!Next]_(Contract!vars)
<1> USE DEF IInv, handlerVars, podVars, recVars
<1>1. ASSUME NEW r \in Sandboxes, Arrive(r) \/ PollAdopted(r)
      PROVE  UNCHANGED Contract!vars
  BY <1>1, SameListing, SameSession, SameLeaving DEF Arrive, PollAdopted, Contract!vars
<1>2. ASSUME NEW r \in Sandboxes, CreateClaim(r) PROVE UNCHANGED Contract!vars
  <2>1. claim' = claim \/ claim' = [claim EXCEPT ![r] = "pending"]
    BY <1>2 DEF CreateClaim
  <2>2. claim[r] = "none"
    BY <1>2 DEF CreateClaim, HandlerInv
  <2>3. sessionOf' = sessionOf
    BY <1>2, <2>1, <2>2 DEF CreateClaim, sessionOf, Launched, TypeOK
  <2>4. QED
    BY <1>2, <2>3, SameListing, SameLeaving DEF CreateClaim, Contract!vars
<1>3. ASSUME NEW r \in Sandboxes, PollGiveUp(r) \/ Undo(r)
      PROVE  Contract!Finish(r) \/ UNCHANGED Contract!vars
  <2>1. PICK o : DestroyClaim(r, o)
    BY <1>3 DEF PollGiveUp, Undo
  <2>2. QED
    BY <1>3, <2>1, DestroyEndsSession DEF PollGiveUp, Undo
<1>4. ASSUME NEW r \in Sandboxes, ClaimSupervisor(r)
      PROVE  Contract!Start(r) \/ UNCHANGED Contract!vars
  <2>1. listedAs' = listedAs /\ beingStopped' = beingStopped
    BY <1>4, SameListing, SameLeaving DEF ClaimSupervisor
  <2>2. CASE served' = served
    BY <1>4, <2>1, <2>2, SameSession DEF ClaimSupervisor, Contract!vars
  <2>3. CASE Reachable(r) /\ Accept(r)
    <3>1. \A q \in Sandboxes : Launched(q)' <=> Launched(q) \/ q = r
      BY <2>3 DEF Launched, Accept, Reachable, TypeOK
    <3>2. claim' = claim
      BY <1>4 DEF ClaimSupervisor
    <3>3. CASE sessionOf[r] = "unborn"
      <4>1. sessionOf' = [sessionOf EXCEPT ![r] = "live"]
        BY <3>1, <3>2, <3>3 DEF sessionOf
      <4>2. QED
        BY <2>1, <3>3, <4>1 DEF Contract!Start
    <3>4. CASE sessionOf[r] # "unborn"
      <4>1. sessionOf' = sessionOf
        BY <3>1, <3>2, <3>4 DEF sessionOf
      <4>2. QED
        BY <2>1, <4>1 DEF Contract!vars
    <3>5. QED
      BY <3>3, <3>4
  <2>4. QED
    BY <1>4, <2>2, <2>3 DEF ClaimSupervisor
<1>5. ASSUME NEW r \in Sandboxes, InsertRow(r)
      PROVE  Contract!Publish(r) \/ UNCHANGED Contract!vars
  <2>1. sessionOf' = sessionOf /\ beingStopped' = beingStopped
    BY <1>5, SameSession, SameLeaving DEF InsertRow
  <2>2. row[r] = "absent" /\ Launched(r)
    BY <1>5 DEF InsertRow, HandlerInv, CreateInFlight, Launched
  <2>3. CASE row' = row
    BY <2>1, <2>3, SameListing DEF Contract!vars
  <2>4. CASE row' = [row EXCEPT ![r] = "running"]
    <3>1. listedAs[r] = "no" /\ listedAs' = [listedAs EXCEPT ![r] = "running"]
      BY <2>2, <2>4 DEF listedAs, TypeOK
    <3>2. sessionOf[r] # "unborn"
      BY <2>2 DEF sessionOf
    <3>3. QED
      BY <2>1, <3>1, <3>2 DEF Contract!Publish
  <2>5. QED
    BY <1>5, <2>3, <2>4 DEF InsertRow
<1>6. ASSUME NEW s \in Stops, StopLookup(s)
      PROVE  Contract!AskToStop(s[1]) \/ UNCHANGED Contract!vars
  <2>1. listedAs' = listedAs /\ sessionOf' = sessionOf
    BY <1>6, SameListing, SameSession DEF StopLookup
  <2>2. stop[s] = "new"
    BY <1>6 DEF StopLookup
  <2>3. CASE stop' = [stop EXCEPT ![s] = "rejected"]
    <3>1. beingStopped' = beingStopped
      BY <2>2, <2>3 DEF beingStopped, TypeOK
    <3>2. QED
      BY <2>1, <3>1 DEF Contract!vars
  <2>4. CASE stop' = [stop EXCEPT ![s] = "reading"] /\ row[s[1]] # "absent"
    <3>1. beingStopped' = beingStopped \cup {s[1]}
      BY <2>2, <2>4, StopsTyped DEF beingStopped, TypeOK
    <3>2. listedAs[s[1]] # "no"
      BY <2>4, StopsTyped DEF listedAs, TypeOK
    <3>3. QED
      BY <2>1, <3>1, <3>2 DEF Contract!AskToStop
  <2>5. QED
    BY <1>6, <2>3, <2>4 DEF StopLookup
<1>7. ASSUME NEW s \in Stops, StopMark(s)
      PROVE  Contract!Retire(s[1]) \/ UNCHANGED Contract!vars
  <2>1. PICK o : MarkGone(s[1], o)
    BY <1>7 DEF StopMark
  <2>2. s[1] \in beingStopped
    BY <1>7, StopsTyped DEF StopMark, beingStopped
  <2>3. beingStopped' = beingStopped
    BY <1>7 DEF StopMark, beingStopped, TypeOK
  <2>4. QED
    BY <1>7, <2>1, <2>2, <2>3, StopsTyped, MarkRetires DEF StopMark
<1>8. ASSUME NEW s \in Stops, StopDelete(s)
      PROVE  Contract!Finish(s[1]) \/ UNCHANGED Contract!vars
  <2>1. beingStopped' = beingStopped
    BY <1>8 DEF StopDelete, beingStopped, TypeOK
  <2>2. listedAs' = listedAs
    BY <1>8, SameListing DEF StopDelete
  <2>3. CASE claim' = claim
    BY <1>8, <2>1, <2>2, <2>3, SameSession DEF StopDelete, Contract!vars
  <2>4. CASE claim[s[1]] # "deleted" /\ claim' = [claim EXCEPT ![s[1]] = "deleted"]
    <3>1. sessionOf[s[1]] # "over"
      BY <2>4, StopsTyped DEF sessionOf
    <3>2. sessionOf' = [sessionOf EXCEPT ![s[1]] = "over"]
      BY <1>8, <2>4, StopsTyped DEF StopDelete, sessionOf, Launched, TypeOK
    <3>3. QED
      BY <2>1, <2>2, <3>1, <3>2 DEF Contract!Finish
  <2>5. QED
    BY <1>8, <2>3, <2>4 DEF StopDelete, DestroyClaim, Exists
<1>a. ASSUME NEW s \in Stops, StopRef(s) PROVE UNCHANGED Contract!vars
  <2>1. beingStopped' = beingStopped
    BY <1>a DEF StopRef, beingStopped, TypeOK
  <2>2. QED
    BY <1>a, <2>1, SameListing, SameSession DEF StopRef, Contract!vars
<1>b. ASSUME NEW r \in Sandboxes, DeleteOwner(r) PROVE UNCHANGED Contract!vars
  BY <1>b, SameListing, SameSession, SameLeaving DEF DeleteOwner, Contract!vars
<1>9. ASSUME NEW h \in Sandboxes \cup Stops, HangUp(h) PROVE UNCHANGED Contract!vars
  BY <1>9, SameListing, SameSession, SameLeaving DEF HangUp, Contract!vars
<1>10. ASSUME RecRead \/ RecList PROVE UNCHANGED Contract!vars
  BY <1>10, SameListing, SameSession, SameLeaving DEF RecRead, RecList, Contract!vars
<1>11. ASSUME NEW e \in Sandboxes, RecUpdate(e)
       PROVE  Contract!Retire(e) \/ UNCHANGED Contract!vars
  <2>1. PICK o : MarkGone(e, o)
    BY <1>11 DEF RecUpdate
  <2>2. claim[e] = "deleted"
    BY <1>11 DEF RecUpdate, ReconcilerInv
  <2>3. QED
    BY <1>11, <2>1, <2>2, SameLeaving, MarkRetires DEF RecUpdate
<1>12. ASSUME Crash PROVE UNCHANGED Contract!vars
  <2>1. beingStopped' = beingStopped
    BY <1>12 DEF Crash, beingStopped, TypeOK, StopInFlight
  <2>2. QED
    BY <1>12, <2>1, SameListing, SameSession DEF Crash, Contract!vars
<1>13. ASSUME NEW r \in Sandboxes, NEW p \in Pods, Bind(r, p) PROVE UNCHANGED Contract!vars
  <2>1. sessionOf' = sessionOf
    BY <1>13 DEF Bind, sessionOf, Launched, TypeOK
  <2>2. QED
    BY <1>13, <2>1, SameListing, SameLeaving DEF Bind, Contract!vars
<1>14. ASSUME NEW p \in Pods, HarnessExit(p) PROVE UNCHANGED Contract!vars
  BY <1>14, SameListing, SameSession, SameLeaving DEF HarnessExit, Contract!vars
<1>15. ASSUME NEW r \in Sandboxes, ClaimRemoved(r) PROVE Contract!Finish(r)
  <2>1. sessionOf[r] # "over" /\ sessionOf' = [sessionOf EXCEPT ![r] = "over"]
    BY <1>15 DEF ClaimRemoved, Exists, sessionOf, Launched, TypeOK
  <2>2. QED
    BY <1>15, <2>1, SameListing, SameLeaving DEF ClaimRemoved, Contract!Finish
<1>16. ASSUME NEW r \in Sandboxes, Cascade(r) PROVE UNCHANGED Contract!vars
  BY <1>16, SameListing, SameSession, SameLeaving DEF Cascade, Contract!vars
<1>17. CASE UNCHANGED vars
  BY <1>17, SameListing, SameSession, SameLeaving DEF vars, Contract!vars
<1>18. QED
  BY <1>1, <1>2, <1>3, <1>4, <1>5, <1>6, <1>7, <1>8, <1>9, <1>10, <1>11, <1>12,
     <1>13, <1>14, <1>15, <1>16, <1>17, <1>a, <1>b, StopsTyped DEF Next, Contract!Next

\* The handlers, the reconciler and every failure between them implement the
\* contract.
THEOREM Refinement == Spec => ImplementsContract
<1>1. Spec => Init /\ [][Next]_vars
  BY DEF Spec, Safety
<1>2. IInv /\ [Next]_vars => [Contract!Next]_(Contract!vars)
  BY ContractStep
<1>3. QED
  BY <1>1, <1>2, InitContract, Invariance, PTL DEF ImplementsContract, Contract!Spec

\* A row is listed only once its pod was launched, goes from running only to gone, and
\* only if its claim is deleted or a stop has found the row; and it never comes back.
THEOREM RowsMoveForAReason ==
  Spec => [][\A r \in Sandboxes : row'[r] # row[r] =>
               \/ row[r] = "absent" /\ row'[r] = "running" /\ Launched(r)'
               \/ /\ row[r] = "running" /\ row'[r] = "gone"
                  /\ \/ claim[r] = "deleted"
                     \/ \E s \in Stops : s[1] = r /\ stop[s] \notin {"new", "rejected"}]_vars
<1> DEFINE Reason == \A r \in Sandboxes : row'[r] # row[r] =>
             \/ row[r] = "absent" /\ row'[r] = "running" /\ Launched(r)'
             \/ /\ row[r] = "running" /\ row'[r] = "gone"
                /\ \/ claim[r] = "deleted"
                   \/ \E s \in Stops : s[1] = r /\ stop[s] \notin {"new", "rejected"}
<1>1. ASSUME IInv, [Next]_vars PROVE Reason
  <2> SUFFICES ASSUME NEW r \in Sandboxes, row'[r] # row[r]
               PROVE  \/ /\ row[r] = "absent" /\ row'[r] = "running"
                         /\ Launched(r)'
                      \/ /\ row[r] = "running" /\ row'[r] = "gone"
                         /\ \/ claim[r] = "deleted"
                            \/ \E s \in Stops : s[1] = r /\ stop[s] \notin {"new", "rejected"}
    OBVIOUS
  <2>1. [Contract!Next]_(Contract!vars) /\ TypeOK /\ TypeOK' /\ HandlerInv'
    BY <1>1, ContractStep, IInvStep DEF IInv
  <2>2. listedAs'[r] # listedAs[r]
    BY <2>1 DEF listedAs, TypeOK
  <2>3. PICK q \in Sandboxes : Contract!Publish(q) \/ Contract!Retire(q)
    BY <2>1, <2>2 DEF Contract!Next, Contract!vars, Contract!Start, Contract!Finish, Contract!AskToStop
  <2>4. q = r
    BY <2>2, <2>3 DEF Contract!Publish, Contract!Retire, listedAs
  <2>5. CASE Contract!Publish(r)
    <3>1. listedAs[r] = "no" /\ listedAs'[r] = "running"
      BY <2>5 DEF Contract!Publish, listedAs
    <3>2. QED
      BY <2>1, <3>1 DEF listedAs, TypeOK, HandlerInv, Launched
  <2>6. CASE Contract!Retire(r)
    <3>1. /\ listedAs[r] = "running" /\ listedAs'[r] = "gone"
          /\ sessionOf[r] = "over" \/ r \in beingStopped
      BY <2>6 DEF Contract!Retire, listedAs
    <3>2. QED
      BY <2>1, <3>1 DEF listedAs, sessionOf, beingStopped, TypeOK
  <2>7. QED
    BY <2>3, <2>4, <2>5, <2>6
<1>2. Spec => []IInv /\ [][Next]_vars
  BY Invariance DEF Spec, Safety
<1>3. IInv /\ [Next]_vars => [Reason]_vars
  BY <1>1
<1>4. QED
  BY <1>2, <1>3, PTL
=============================================================================
