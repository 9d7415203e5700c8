------------------------- MODULE SessionSetupProofs -------------------------
(* What a session starts with is what is stored over what it resumes, lone   *)
(* stores of a key leave one row, secrets stay with their servers and texts  *)
(* with their names, for any number of names, edits and sessions that        *)
(* overlap in any way.                                                       *)
EXTENDS SessionSetup, TLAPS

\* Nothing is stored at first.
LEMMA InitIInv == Init => IInv
<1> SUFFICES ASSUME Init PROVE IInv
  OBVIOUS
<1>1. /\ NoSkills \in [Names -> Value] /\ NoServer \in Server
      /\ NoServers \in [Names -> Server] /\ EmptyHome \in Home
  BY DEF NoSkills, NoServer, NoServers, EmptyHome, Value, Server, Home
<1>2. TypeOK
  BY <1>1 DEF Init, TypeOK, NoOrder, Stages, Value
<1>3. OrdersAreCurrent /\ SessionsAreCurrent
  BY DEF Init, OrdersAreCurrent, SessionsAreCurrent
<1>4. EditsAreInOrder /\ LoneKeysReplace
  BY NoneAssumption DEF Init, EditsAreInOrder, LoneKeysReplace, Storing
<1>5. SecretsAreKept
  BY NoneAssumption DEF Init, SecretsAreKept, NoServers, NoServer
<1>6. TextsKeepTheirNames
  BY NoneAssumption
     DEF Init, TextsKeepTheirNames, Named, NoOrder, EmptyHome, NoSkills, NoServers, NoServer
<1>7. QED
  BY <1>2, <1>3, <1>4, <1>5, <1>6 DEF IInv

\* Once something is edited, no session is known to be current.
LEMMA EditedSessions ==
  ASSUME clean' = {}
  PROVE  OrdersAreCurrent' /\ SessionsAreCurrent'
  BY DEF OrdersAreCurrent, SessionsAreCurrent

\* What touches neither the tables nor the sessions keeps these current.
LEMMA QuietSessions ==
  ASSUME IInv, UNCHANGED <<tables, sessionVars, clean>>
  PROVE  OrdersAreCurrent' /\ SessionsAreCurrent'
  BY DEF IInv, OrdersAreCurrent, SessionsAreCurrent, StartSkills, StartServers, tables, sessionVars

\* Sessions only read what is stored.
LEMMA QuietEdits ==
  ASSUME IInv, UNCHANGED <<tables, editVars, alone, sound>>
  PROVE  EditsAreInOrder' /\ LoneKeysReplace' /\ SecretsAreKept'
<1>1. UNCHANGED <<skills, servers, keys, step, name, kept, alone, sound>>
  BY DEF tables, editVars
<1>2. Storing' = Storing
  BY <1>1 DEF Storing
<1>3. EditsAreInOrder'
  BY <1>1, <1>2 DEF IInv, EditsAreInOrder
<1>4. LoneKeysReplace' /\ SecretsAreKept'
  BY <1>1 DEF IInv, LoneKeysReplace, SecretsAreKept
<1>5. QED
  BY <1>3, <1>4

\* What is over stays over.
EditsGoOn == \A e \in Edits : step[e] = "done" => step'[e] = "done"

\* An edit of the tables does not touch what sessions have.
LEMMA SessionTexts ==
  ASSUME IInv, EditsGoOn, UNCHANGED <<name, order, home, snapshot>>, Named(skills, servers)'
  PROVE  TextsKeepTheirNames'
<1>1. Named(snapshot.skills, snapshot.servers)'
  BY DEF IInv, TextsKeepTheirNames, Named, EditsGoOn
<1>2. ASSUME NEW s \in Sessions
      PROVE  /\ Named(order[s].skills, order[s].servers)'
             /\ Named(order[s].resume.skills, order[s].resume.servers)'
             /\ Named(home[s].skills, home[s].servers)'
  BY DEF IInv, TextsKeepTheirNames, Named, EditsGoOn
<1>3. QED
  BY <1>1, <1>2 DEF TextsKeepTheirNames

\* What is put together from named texts, or left out, is named.
LEMMA NamedMix ==
  ASSUME NEW t, NEW c, NEW u, NEW d, NEW v, NEW w, Named(t, c), Named(u, d),
         \A n \in Names : /\ v[n] \in {t[n], u[n], None}
                         /\ w[n].def \in {c[n].def, d[n].def, None}
                         /\ w[n].secret \in {c[n].secret, d[n].secret, None}
  PROVE  Named(v, w)
  BY NoneAssumption DEF Named

\* A step of one session brings it named texts, and leaves all others alone.
LEMMA OneSessionTexts ==
  ASSUME IInv, UNCHANGED <<tables, editVars>>, NEW s \in Sessions,
         \A r \in Sessions : r # s => order'[r] = order[r] /\ home'[r] = home[r],
         Named(snapshot'.skills, snapshot'.servers),
         Named(order'[s].skills, order'[s].servers),
         Named(order'[s].resume.skills, order'[s].resume.servers),
         Named(home'[s].skills, home'[s].servers)
  PROVE  TextsKeepTheirNames'
<1>1. UNCHANGED <<skills, servers, step, name>>
  BY DEF tables, editVars
<1>2. Named(skills, servers)' /\ Named(snapshot.skills, snapshot.servers)'
  BY <1>1 DEF IInv, TextsKeepTheirNames, Named
<1>3. ASSUME NEW r \in Sessions
      PROVE  /\ Named(order[r].skills, order[r].servers)'
             /\ Named(order[r].resume.skills, order[r].resume.servers)'
             /\ Named(home[r].skills, home[r].servers)'
  <2>1. /\ Named(order'[r].skills, order'[r].servers)
        /\ Named(order'[r].resume.skills, order'[r].resume.servers)
        /\ Named(home'[r].skills, home'[r].servers)
    BY DEF IInv, TextsKeepTheirNames
  <2>2. QED
    BY <1>1, <2>1 DEF Named
<1>4. QED
  BY <1>2, <1>3 DEF TextsKeepTheirNames

\* An edit moves no other one.
LEMMA MoveKeeps ==
  ASSUME TypeOK, NEW e \in Edits, NEW from, NEW to \in {"new", "read", "cleared", "done"},
         Move(e, from, to)
  PROVE  /\ step' \in [Edits -> {"new", "read", "cleared", "done"}]
         /\ step[e] = from /\ step'[e] = to
         /\ \A f \in Edits : f # e => step'[f] = step[f]
  BY DEF TypeOK, Move

\* The skills of the user.
LEMMA SkillStep ==
  ASSUME IInv, \/ \E e \in Edits : PutSkill(e)
               \/ \E n \in Names : DeleteSkill(n)
  PROVE  IInv'
<1>1. /\ UNCHANGED <<servers, keys, name, kept, session, order, home, snapshot, alone, sound>>
      /\ clean' = {}
  BY DEF PutSkill, DeleteSkill, sessionVars, editVars
<1>2. skills' \in [Names -> Value]
  BY DEF IInv, TypeOK, PutSkill, DeleteSkill, Value
<1>3. /\ step' \in [Edits -> {"new", "read", "cleared", "done"}]
      /\ \A e \in Edits : step'[e] = step[e] \/ (step[e] = "new" /\ step'[e] = "done")
  BY DEF IInv, TypeOK, PutSkill, DeleteSkill, Move, editVars
<1>4. TypeOK'
  BY <1>1, <1>2, <1>3 DEF IInv, TypeOK
<1>5. Storing' = Storing
  BY <1>3 DEF Storing
<1>6. EditsAreInOrder'
  BY <1>1, <1>3, <1>5 DEF IInv, TypeOK, EditsAreInOrder
<1>7. LoneKeysReplace' /\ SecretsAreKept'
  BY <1>1 DEF IInv, LoneKeysReplace, SecretsAreKept
<1>8. EditsGoOn
  BY <1>3 DEF EditsGoOn
<1>9. Named(skills, servers)'
  <2>1. \A n \in Names : \A e \in {servers[n].def, servers[n].secret} \cap Edits :
           name'[e] = n /\ step'[e] = "done"
    BY <1>1, <1>8 DEF IInv, TextsKeepTheirNames, Named, EditsGoOn
  <2>2. ASSUME NEW n \in Names, skills'[n] \in Edits
        PROVE  name'[skills'[n]] = n /\ step'[skills'[n]] = "done"
    <3>1. CASE skills'[n] = skills[n]
      BY <1>1, <1>8, <2>2, <3>1 DEF IInv, TextsKeepTheirNames, Named, EditsGoOn
    <3>2. ASSUME NEW e \in Edits, PutSkill(e), skills'[n] # skills[n]
          PROVE  name[skills'[n]] = n /\ step'[skills'[n]] = "done"
      BY <3>2 DEF IInv, TypeOK, PutSkill, Move
    <3>3. ASSUME NEW m \in Names, DeleteSkill(m), skills'[n] # skills[n]
          PROVE  skills'[n] = None
      BY <3>3 DEF IInv, TypeOK, DeleteSkill
    <3>4. QED
      BY <1>1, <2>2, <3>1, <3>2, <3>3, NoneAssumption
  <2>3. QED
    BY <1>1, <2>1, <2>2 DEF Named
<1>10. TextsKeepTheirNames'
  BY <1>1, <1>8, <1>9, SessionTexts
<1>11. QED
  BY <1>1, <1>4, <1>6, <1>7, <1>10, EditedSessions DEF IInv

\* The secret that is read is the one of the server that will be written.
LEMMA ServerReadStep ==
  ASSUME IInv, NEW e \in Edits, PutServerRead(e)
  PROVE  IInv'
<1>1. /\ UNCHANGED <<skills, servers, keys, name, session, order, home, snapshot, alone, clean>>
      /\ Move(e, "new", "read")
  BY DEF PutServerRead, tables, sessionVars
<1>2. /\ step' \in [Edits -> {"new", "read", "cleared", "done"}]
      /\ step[e] = "new" /\ step'[e] = "read"
      /\ \A f \in Edits : f # e => step'[f] = step[f]
  BY <1>1, MoveKeeps DEF IInv
<1>3. /\ kept \in [Edits -> Value] /\ name \in [Edits -> Names] /\ e \notin sound
      /\ servers[name[e]].secret \in Value
  BY <1>2 DEF IInv, TypeOK, EditsAreInOrder, Server
<1>4. /\ kept' \in [Edits -> Value]
      /\ \A f \in Edits : f # e => kept'[f] = kept[f]
      /\ kept'[e] \in Edits => /\ name[kept'[e]] = name[e]
                               /\ kept'[e] = e \/ step[kept'[e]] = "done"
      /\ sound' \subseteq sound \cup {e}
      /\ e \in sound' => kept'[e] = servers[name[e]].secret
  <2>1. CASE kept' = [kept EXCEPT ![e] = e] /\ sound' = sound
    BY <2>1, <1>3 DEF Value
  <2>2. CASE kept' = [kept EXCEPT ![e] = servers[name[e]].secret] /\ sound' = sound \cup {e}
    BY <2>2, <1>3 DEF IInv, TextsKeepTheirNames, Named
  <2>3. CASE kept' = kept /\ sound' = sound
    BY <2>3, <1>3 DEF IInv, EditsAreInOrder
  <2>4. QED
    BY <2>1, <2>2, <2>3 DEF PutServerRead
<1>5. TypeOK'
  BY <1>1, <1>2, <1>4 DEF IInv, TypeOK
<1>6. Storing' = Storing
  BY <1>2 DEF Storing
<1>7. EditsAreInOrder'
  <2>1. \A f \in Edits : kept'[f] \in Edits =>
           name[kept'[f]] = name[f] /\ (kept'[f] = f \/ step'[kept'[f]] = "done")
    BY <1>2, <1>4 DEF IInv, EditsAreInOrder
  <2>2. /\ \A f \in sound' : step'[f] = "read"
        /\ \A f \in alone \cup keys : step'[f] \in {"cleared", "done"}
        /\ \A f \in keys : step'[f] = "done"
        /\ \A f \in alone : step'[f] = "cleared" => Storing = {f} /\ keys = {}
    BY <1>2, <1>4 DEF IInv, TypeOK, EditsAreInOrder
  <2>3. QED
    BY <1>1, <1>6, <2>1, <2>2 DEF IInv, EditsAreInOrder
<1>8. LoneKeysReplace' /\ SecretsAreKept'
  BY <1>1, <1>4 DEF IInv, TypeOK, LoneKeysReplace, SecretsAreKept
<1>9. UNCHANGED <<tables, sessionVars, clean>>
  BY <1>1 DEF tables, sessionVars
<1>10. EditsGoOn /\ Named(skills, servers)'
  BY <1>1, <1>2 DEF EditsGoOn, IInv, TextsKeepTheirNames, Named
<1>11. TextsKeepTheirNames'
  BY <1>1, <1>10, SessionTexts
<1>12. QED
  BY <1>5, <1>7, <1>8, <1>9, <1>11, QuietSessions DEF IInv

\* The server that is written keeps what was read, or has the secret it was sent.
LEMMA ServerWriteStep ==
  ASSUME IInv, NEW e \in Edits, PutServerWrite(e)
  PROVE  IInv'
<1>1. /\ UNCHANGED <<skills, keys, name, session, order, home, snapshot, alone>>
      /\ Move(e, "read", "done") /\ clean' = {}
      /\ servers' = [servers EXCEPT ![name[e]] = [def |-> e, secret |-> kept[e]]]
      /\ kept' = [kept EXCEPT ![e] = None] /\ sound' = {f \in sound : name[f] # name[e]}
  BY DEF PutServerWrite, sessionVars, Elsewhere
<1>2. /\ step' \in [Edits -> {"new", "read", "cleared", "done"}]
      /\ step[e] = "read" /\ step'[e] = "done"
      /\ \A f \in Edits : f # e => step'[f] = step[f]
  BY <1>1, MoveKeeps DEF IInv
<1>3. kept \in [Edits -> Value] /\ name \in [Edits -> Names] /\ servers \in [Names -> Server]
      /\ sound \subseteq Edits
  BY DEF IInv, TypeOK
<1>4. /\ servers' \in [Names -> Server] /\ kept' \in [Edits -> Value] /\ kept'[e] = None
      /\ \A f \in Edits : f # e => kept'[f] = kept[f]
      /\ \A n \in Names : n # name[e] => servers'[n] = servers[n]
      /\ servers'[name[e]].secret = kept[e]
  BY <1>1, <1>3 DEF Server, Value
<1>5. TypeOK'
  BY <1>1, <1>2, <1>4 DEF IInv, TypeOK
<1>6. Storing' = Storing
  BY <1>2 DEF Storing
<1>7. EditsAreInOrder'
  BY <1>1, <1>2, <1>3, <1>4, <1>6, NoneAssumption DEF IInv, TypeOK, EditsAreInOrder
<1>8. SecretsAreKept'
  <2>1. \A n \in Names : servers'[n].secret \in Edits => name[servers'[n].secret] = n
    BY <1>3, <1>4 DEF IInv, SecretsAreKept, EditsAreInOrder
  <2>2. \A f \in sound' : kept'[f] = servers'[name[f]].secret
    BY <1>1, <1>3, <1>4 DEF IInv, SecretsAreKept
  <2>3. QED
    BY <1>1, <2>1, <2>2 DEF SecretsAreKept
<1>9. LoneKeysReplace'
  BY <1>1 DEF IInv, LoneKeysReplace
<1>10. EditsGoOn
  BY <1>2 DEF EditsGoOn
<1>11. Named(skills, servers)'
  <2>1. ASSUME NEW n \in Names, n # name[e]
        PROVE  \A f \in {skills[n], servers'[n].def, servers'[n].secret} \cap Edits :
                 name[f] = n /\ step'[f] = "done"
    BY <1>4, <1>10, <2>1 DEF IInv, TextsKeepTheirNames, Named, EditsGoOn
  <2>2. \A f \in {skills[name[e]], e, kept[e]} \cap Edits : name[f] = name[e] /\ step'[f] = "done"
    BY <1>2, <1>3, <1>10 DEF IInv, TextsKeepTheirNames, Named, EditsGoOn, EditsAreInOrder
  <2>3. servers'[name[e]] = [def |-> e, secret |-> kept[e]]
    BY <1>1, <1>3
  <2>4. QED
    BY <1>1, <2>1, <2>2, <2>3 DEF Named
<1>12. TextsKeepTheirNames'
  BY <1>1, <1>10, <1>11, SessionTexts
<1>13. QED
  BY <1>1, <1>5, <1>7, <1>8, <1>9, <1>12, EditedSessions DEF IInv

\* A server that is deleted takes its secret along.
LEMMA ServerDeleteStep ==
  ASSUME IInv, NEW n \in Names, DeleteServer(n)
  PROVE  IInv'
<1>1. /\ UNCHANGED <<skills, keys, step, name, kept, session, order, home, snapshot, alone>>
      /\ clean' = {} /\ servers' = [servers EXCEPT ![n] = NoServer]
      /\ sound' = {f \in sound : name[f] # n}
  BY DEF DeleteServer, sessionVars, editVars, Elsewhere
<1>2. servers \in [Names -> Server] /\ name \in [Edits -> Names] /\ sound \subseteq Edits
  BY DEF IInv, TypeOK
<1>3. /\ servers' \in [Names -> Server] /\ servers'[n] = NoServer
      /\ servers'[n].def = None /\ servers'[n].secret = None
      /\ \A m \in Names : m # n => servers'[m] = servers[m]
  BY <1>1, <1>2 DEF NoServer, Server, Value
<1>4. TypeOK'
  BY <1>1, <1>3 DEF IInv, TypeOK
<1>5. Storing' = Storing
  BY <1>1 DEF Storing
<1>6. EditsAreInOrder'
  BY <1>1, <1>5 DEF IInv, EditsAreInOrder
<1>7. SecretsAreKept' /\ LoneKeysReplace'
  BY <1>1, <1>2, <1>3, NoneAssumption DEF IInv, SecretsAreKept, LoneKeysReplace
<1>8. EditsGoOn
  BY <1>1 DEF EditsGoOn
<1>9. Named(skills, servers)'
  BY <1>1, <1>3, NoneAssumption DEF IInv, TextsKeepTheirNames, Named
<1>10. TextsKeepTheirNames'
  BY <1>1, <1>8, <1>9, SessionTexts
<1>11. QED
  BY <1>1, <1>4, <1>6, <1>7, <1>10, EditedSessions DEF IInv

\* The DELETE of a store leaves no key, or nobody is known to be alone.
LEMMA KeyDeleteStep ==
  ASSUME IInv, NEW e \in Edits, StoreKeyDelete(e)
  PROVE  IInv'
<1>1. /\ UNCHANGED <<skills, servers, name, kept, session, order, home, snapshot, sound>>
      /\ Move(e, "new", "cleared") /\ clean' = {}
  BY DEF StoreKeyDelete, sessionVars
<1>2. /\ step' \in [Edits -> {"new", "read", "cleared", "done"}]
      /\ step[e] = "new" /\ step'[e] = "cleared"
      /\ \A f \in Edits : f # e => step'[f] = step[f]
  BY <1>1, MoveKeeps DEF IInv
<1>3. /\ keys \subseteq Edits /\ alone \subseteq Edits /\ sound \subseteq Edits
      /\ e \notin alone /\ e \notin keys /\ e \notin sound
  BY <1>2 DEF IInv, TypeOK, EditsAreInOrder
<1>4. Storing' = Storing \cup {e}
  BY <1>2 DEF Storing
<1>5. \/ keys' = {} /\ alone' = IF Storing = {} THEN alone \cup {e} ELSE alone \ Storing
      \/ keys' = keys /\ alone' = {}
  BY DEF StoreKeyDelete
<1>6. keys' \subseteq keys /\ alone' \subseteq alone \cup {e} /\ alone' \cap keys' = {}
  BY <1>5
<1>7. TypeOK'
  BY <1>1, <1>2, <1>3, <1>6 DEF IInv, TypeOK
<1>8. \A f \in alone' : step'[f] = "cleared" => Storing' = {f} /\ keys' = {}
  <2> SUFFICES ASSUME NEW f \in alone', step'[f] = "cleared" PROVE Storing' = {f} /\ keys' = {}
    OBVIOUS
  <2>1. keys' = {} /\ alone' = IF Storing = {} THEN alone \cup {e} ELSE alone \ Storing
    BY <1>5
  <2>2. CASE f = e
    BY <2>1, <2>2, <1>3, <1>4
  <2>3. CASE f # e
    <3>1. f \in alone /\ f \in Storing
      BY <2>3, <1>2, <1>3, <1>6 DEF Storing
    <3>2. QED
      BY <3>1, <2>1
  <2>4. QED
    BY <2>2, <2>3
<1>9. EditsAreInOrder'
  BY <1>1, <1>2, <1>3, <1>6, <1>8 DEF IInv, TypeOK, EditsAreInOrder
<1>10. LoneKeysReplace' /\ SecretsAreKept'
  BY <1>1, <1>6 DEF IInv, LoneKeysReplace, SecretsAreKept
<1>11. EditsGoOn /\ Named(skills, servers)'
  BY <1>1, <1>2 DEF EditsGoOn, IInv, TextsKeepTheirNames, Named
<1>12. TextsKeepTheirNames'
  BY <1>1, <1>11, SessionTexts
<1>13. QED
  BY <1>1, <1>7, <1>9, <1>10, <1>12, EditedSessions DEF IInv

\* The INSERT of a lone store finds no key; another one finds no lone key.
LEMMA KeyInsertStep ==
  ASSUME IInv, NEW e \in Edits, StoreKeyInsert(e)
  PROVE  IInv'
<1>1. /\ UNCHANGED <<skills, servers, name, kept, session, order, home, snapshot, alone, sound>>
      /\ Move(e, "cleared", "done") /\ clean' = {} /\ keys' = keys \cup {e}
  BY DEF StoreKeyInsert, sessionVars
<1>2. /\ step' \in [Edits -> {"new", "read", "cleared", "done"}]
      /\ step[e] = "cleared" /\ step'[e] = "done"
      /\ \A f \in Edits : f # e => step'[f] = step[f]
  BY <1>1, MoveKeeps DEF IInv
<1>3. /\ keys \subseteq Edits /\ alone \subseteq Edits /\ sound \subseteq Edits
      /\ e \in Storing /\ Storing' = Storing \ {e}
  BY <1>2 DEF IInv, TypeOK, Storing
<1>4. alone \cap keys = {} /\ (e \in alone => Storing = {e} /\ keys = {})
  BY <1>2, <1>3 DEF IInv, EditsAreInOrder
<1>5. TypeOK'
  BY <1>1, <1>2 DEF IInv, TypeOK
<1>6. \A f \in alone : step'[f] = "cleared" => Storing' = {f} /\ keys' = {}
  <2> SUFFICES ASSUME NEW f \in alone, step'[f] = "cleared" PROVE FALSE
    OBVIOUS
  <2>1. f # e /\ step[f] = "cleared"
    BY <1>2, <1>3
  <2>2. Storing = {f}
    BY <2>1 DEF IInv, EditsAreInOrder
  <2>3. QED
    BY <2>1, <2>2, <1>3
<1>7. Storing' # {} => alone \cap keys' = {}
  BY <1>1, <1>3, <1>4
<1>8. EditsAreInOrder'
  BY <1>1, <1>2, <1>3, <1>6, <1>7 DEF IInv, TypeOK, EditsAreInOrder
<1>9. LoneKeysReplace' /\ SecretsAreKept'
  BY <1>1, <1>4 DEF IInv, LoneKeysReplace, SecretsAreKept
<1>10. EditsGoOn /\ Named(skills, servers)'
  BY <1>1, <1>2 DEF EditsGoOn, IInv, TextsKeepTheirNames, Named
<1>11. TextsKeepTheirNames'
  BY <1>1, <1>10, SessionTexts
<1>12. QED
  BY <1>1, <1>5, <1>8, <1>9, <1>11, EditedSessions DEF IInv

\* Deleting the key leaves none.
LEMMA DeleteKeyStep == ASSUME IInv, DeleteKey PROVE IInv'
<1>1. /\ UNCHANGED <<skills, servers, step, name, kept, session, order, home, snapshot,
                     alone, sound>>
      /\ keys' = {} /\ clean' = {}
  BY DEF DeleteKey, sessionVars, editVars
<1>2. TypeOK'
  BY <1>1 DEF IInv, TypeOK
<1>3. Storing' = Storing
  BY <1>1 DEF Storing
<1>4. EditsAreInOrder'
  BY <1>1, <1>3 DEF IInv, EditsAreInOrder
<1>5. LoneKeysReplace' /\ SecretsAreKept'
  BY <1>1 DEF IInv, LoneKeysReplace, SecretsAreKept
<1>6. EditsGoOn /\ Named(skills, servers)'
  BY <1>1 DEF EditsGoOn, IInv, TextsKeepTheirNames, Named
<1>7. TextsKeepTheirNames'
  BY <1>1, <1>6, SessionTexts
<1>8. QED
  BY <1>1, <1>2, <1>4, <1>5, <1>7, EditedSessions DEF IInv

\* An edit that is given up stores nothing.
LEMMA DropStep ==
  ASSUME IInv, NEW e \in Edits, DropEdit(e)
  PROVE  IInv'
<1>1. /\ UNCHANGED <<skills, servers, keys, name, session, order, home, snapshot, alone, clean>>
      /\ step[e] \in {"read", "cleared"} /\ step' = [step EXCEPT ![e] = "done"]
      /\ kept' = [kept EXCEPT ![e] = None] /\ sound' = sound \ {e}
  BY DEF DropEdit, tables, sessionVars
<1>2. /\ step' \in [Edits -> {"new", "read", "cleared", "done"}] /\ step'[e] = "done"
      /\ kept' \in [Edits -> Value] /\ kept'[e] = None
      /\ \A f \in Edits : f # e => step'[f] = step[f] /\ kept'[f] = kept[f]
  BY <1>1 DEF IInv, TypeOK, Value
<1>3. TypeOK'
  BY <1>1, <1>2 DEF IInv, TypeOK
<1>4. Storing' = Storing \ {e} /\ alone \subseteq Edits /\ keys \subseteq Edits
  BY <1>1, <1>2 DEF Storing, IInv, TypeOK
<1>5. \A f \in alone : step'[f] = "cleared" => Storing' = {f} /\ keys = {}
  <2> SUFFICES ASSUME NEW f \in alone, step'[f] = "cleared" PROVE Storing' = {f} /\ keys = {}
    OBVIOUS
  <2>1. f # e /\ step[f] = "cleared"
    BY <1>2, <1>4
  <2>2. QED
    BY <2>1, <1>4 DEF IInv, EditsAreInOrder
<1>6. EditsAreInOrder'
  BY <1>1, <1>2, <1>4, <1>5, NoneAssumption DEF IInv, TypeOK, EditsAreInOrder
<1>7. LoneKeysReplace' /\ SecretsAreKept'
  BY <1>1, <1>2 DEF IInv, TypeOK, LoneKeysReplace, SecretsAreKept
<1>8. UNCHANGED <<tables, sessionVars, clean>>
  BY <1>1 DEF tables, sessionVars
<1>9. EditsGoOn /\ Named(skills, servers)'
  BY <1>1, <1>2 DEF EditsGoOn, IInv, TextsKeepTheirNames, Named
<1>10. TextsKeepTheirNames'
  BY <1>1, <1>9, SessionTexts
<1>11. QED
  BY <1>3, <1>6, <1>7, <1>8, <1>10, QuietSessions DEF IInv

\* A session moves on alone.
LEMMA AdvanceKeeps ==
  ASSUME TypeOK, NEW s \in Sessions, NEW from, NEW to \in Stages, Advance(s, from, to)
  PROVE  /\ session' \in [Sessions -> Stages]
         /\ session[s] = from /\ session'[s] = to
         /\ \A r \in Sessions : r # s => session'[r] = session[r]
  BY DEF TypeOK, Advance

\* What is said of a session that is current.
CurrentAt(s) ==
    /\ session[s] \in ReadSkillsBefore => order[s].skills = skills
    /\ session[s] \in ReadServersBefore => order[s].servers = servers
    /\ session[s] = "restored" => home[s] = order[s].resume
    /\ session[s] = "configured" =>
         home[s] = [skills |-> order[s].resume.skills, servers |-> StartServers(s)]
    /\ session[s] = "ready" => home[s] = [skills |-> StartSkills(s), servers |-> StartServers(s)]

\* A step of one session says nothing new of the others.
LEMMA OneSession ==
  ASSUME IInv, UNCHANGED <<tables, editVars, alone, sound>>, NEW s \in Sessions,
         \A r \in Sessions : r # s => /\ session'[r] = session[r] /\ order'[r] = order[r]
                                      /\ home'[r] = home[r],
         clean' \subseteq clean \cup {s},
         s \in clean' => CurrentAt(s)',
         TypeOK', TextsKeepTheirNames'
  PROVE  IInv'
<1>1. UNCHANGED <<skills, servers>> /\ clean \subseteq Sessions
  BY DEF tables, IInv, TypeOK
<1>2. \A r \in clean : CurrentAt(r)
  BY DEF IInv, OrdersAreCurrent, SessionsAreCurrent, CurrentAt
<1>3. \A r \in clean' : CurrentAt(r)'
  <2> SUFFICES ASSUME NEW r \in clean', r # s PROVE CurrentAt(r)'
    OBVIOUS
  <2>1. r \in clean /\ r \in Sessions
    BY <1>1
  <2>2. QED
    BY <1>1, <1>2, <2>1 DEF CurrentAt, StartSkills, StartServers
<1>4. OrdersAreCurrent' /\ SessionsAreCurrent'
  BY <1>3 DEF OrdersAreCurrent, SessionsAreCurrent, CurrentAt
<1>5. QED
  BY <1>4, QuietEdits DEF IInv

\* The order of a session is read piece by piece.
LEMMA ReadStep ==
  ASSUME IInv, NEW s \in Sessions,
         ReadKey(s) \/ ReadSnapshot(s) \/ ReadSkills(s) \/ ReadServers(s) \/ Claim(s)
  PROVE  IInv'
<1>1. UNCHANGED <<tables, editVars, alone, sound>> /\ UNCHANGED <<home, snapshot>>
  BY DEF ReadKey, ReadSnapshot, ReadSkills, ReadServers, Claim
<1>2. UNCHANGED <<skills, servers, keys, step, name, kept>>
  BY <1>1 DEF tables, editVars
<1>3. /\ order \in [Sessions -> [key : Value, resume : Home, skills : [Names -> Value],
                                 servers : [Names -> Server]]]
      /\ skills \in [Names -> Value] /\ servers \in [Names -> Server] /\ snapshot \in Home
      /\ keys \subseteq Edits /\ clean \subseteq Sessions
  BY DEF IInv, TypeOK
<1>4. NoServer \in Server /\ EmptyHome \in Home /\ None \in Value
  BY DEF NoServer, Server, Value, EmptyHome, NoSkills, NoServers, Home
<1>5. s \in clean => CurrentAt(s)
  BY DEF IInv, OrdersAreCurrent, SessionsAreCurrent, CurrentAt
<1>6. /\ Named(skills, servers) /\ Named(snapshot.skills, snapshot.servers)
      /\ Named(order[s].skills, order[s].servers)
      /\ Named(order[s].resume.skills, order[s].resume.servers)
      /\ Named(home[s].skills, home[s].servers) /\ Named(EmptyHome.skills, EmptyHome.servers)
  <2>1. Named(EmptyHome.skills, EmptyHome.servers)
    BY NoneAssumption DEF Named, EmptyHome, NoSkills, NoServers, NoServer
  <2>2. QED
    BY <2>1 DEF IInv, TextsKeepTheirNames
<1> DEFINE Moved(to) == /\ session' \in [Sessions -> Stages] /\ session'[s] = to
                        /\ \A r \in Sessions : r # s => session'[r] = session[r]
           Ordered == /\ order' \in [Sessions -> [key : Value, resume : Home,
                                      skills : [Names -> Value], servers : [Names -> Server]]]
                      /\ \A r \in Sessions : r # s => order'[r] = order[r]
<1>7. ASSUME ReadKey(s) PROVE IInv'
  <2>1. Moved("key")
    BY <1>7, AdvanceKeeps DEF ReadKey, IInv, Stages
  <2>2. PICK k \in Value : /\ order' = [order EXCEPT ![s].key = k]
                           /\ clean' \subseteq clean \cup {s}
    BY <1>7 DEF ReadKey
  <2>3. Ordered
    BY <1>3, <2>2
  <2>4. TypeOK'
    BY <1>1, <1>2, <1>3, <2>1, <2>2, <2>3 DEF IInv, TypeOK
  <2>5. CurrentAt(s)'
    BY <2>1 DEF CurrentAt, ReadSkillsBefore, ReadServersBefore, Stages
  <2>6. /\ order'[s].skills = order[s].skills /\ order'[s].servers = order[s].servers
        /\ order'[s].resume = order[s].resume
    BY <1>3, <2>2
  <2>7. TextsKeepTheirNames'
    BY <1>1, <1>6, <2>3, <2>6, OneSessionTexts
  <2>8. QED
    BY <1>1, <2>1, <2>2, <2>3, <2>4, <2>5, <2>7, OneSession
<1>8. ASSUME ReadSnapshot(s) PROVE IInv'
  <2>1. Moved("snapshot") /\ clean' = clean
    BY <1>8, AdvanceKeeps DEF ReadSnapshot, IInv, Stages
  <2>2. PICK old \in {snapshot, EmptyHome} : order' = [order EXCEPT ![s].resume = old]
    BY <1>8 DEF ReadSnapshot
  <2>3. old \in Home /\ Ordered
    BY <1>3, <1>4, <2>2
  <2>4. TypeOK'
    BY <1>1, <1>2, <1>3, <2>1, <2>3 DEF IInv, TypeOK
  <2>5. CurrentAt(s)'
    BY <2>1 DEF CurrentAt, ReadSkillsBefore, ReadServersBefore, Stages
  <2>6. /\ order'[s].skills = order[s].skills /\ order'[s].servers = order[s].servers
        /\ order'[s].resume = old
    BY <1>3, <2>2
  <2>7. TextsKeepTheirNames'
    BY <1>1, <1>6, <2>3, <2>6, OneSessionTexts
  <2>8. QED
    BY <1>1, <2>1, <2>3, <2>4, <2>5, <2>7, OneSession
<1>9. ASSUME ReadSkills(s) PROVE IInv'
  <2>1. Moved("skills")
    BY <1>9, AdvanceKeeps DEF ReadSkills, IInv, Stages
  <2>2. PICK lost \in SUBSET {n \in Names : skills[n] # None} :
          /\ order' = [order EXCEPT ![s].skills =
                          [n \in Names |-> IF n \in lost THEN None ELSE skills[n]]]
          /\ clean' = IF lost = {} THEN clean ELSE clean \ {s}
    BY <1>9 DEF ReadSkills
  <2>3. [n \in Names |-> IF n \in lost THEN None ELSE skills[n]] \in [Names -> Value]
    BY <1>3, <1>4
  <2>4. Ordered /\ clean' \subseteq clean \cup {s}
    BY <1>3, <2>2, <2>3
  <2>5. TypeOK'
    BY <1>1, <1>2, <1>3, <2>1, <2>2, <2>4 DEF IInv, TypeOK
  <2>6. s \in clean' => order'[s].skills = skills'
    BY <1>2, <1>3, <2>2
  <2>7. s \in clean' => CurrentAt(s)'
    BY <2>1, <2>6 DEF CurrentAt, ReadServersBefore, ReadSkillsBefore, Stages
  <2>8. /\ \A n \in Names : order'[s].skills[n] \in {skills[n], None}
        /\ order'[s].servers = order[s].servers /\ order'[s].resume = order[s].resume
    BY <1>3, <2>2
  <2>9. Named(order'[s].skills, order'[s].servers)
    BY <1>6, <2>8, NamedMix
  <2>10. TextsKeepTheirNames'
    BY <1>1, <1>6, <2>4, <2>8, <2>9, OneSessionTexts
  <2>11. QED
    BY <1>1, <2>1, <2>4, <2>5, <2>7, <2>10, OneSession
<1>10. ASSUME ReadServers(s) PROVE IInv'
  <2>1. Moved("servers") /\ session[s] = "skills"
    BY <1>10, AdvanceKeeps DEF ReadServers, IInv, Stages
  <2>2. PICK lost \in SUBSET {n \in Names : servers[n] # NoServer},
             bare \in SUBSET {n \in Names : servers[n].secret # None} :
          /\ order' = [order EXCEPT ![s].servers =
                [n \in Names |-> IF n \in lost THEN NoServer
                                 ELSE IF n \in bare THEN [servers[n] EXCEPT !.secret = None]
                                 ELSE servers[n]]]
          /\ clean' = IF lost \cup bare = {} THEN clean ELSE clean \ {s}
    BY <1>10 DEF ReadServers
  <2>3. [n \in Names |-> IF n \in lost THEN NoServer
                         ELSE IF n \in bare THEN [servers[n] EXCEPT !.secret = None]
                         ELSE servers[n]] \in [Names -> Server]
    BY <1>3, <1>4 DEF Server
  <2>4. Ordered /\ clean' \subseteq clean
    BY <1>3, <2>2, <2>3
  <2>5. TypeOK'
    BY <1>1, <1>2, <1>3, <2>1, <2>2, <2>4 DEF IInv, TypeOK
  <2>6. s \in clean' => order'[s].servers = servers' /\ order'[s].skills = order[s].skills
    BY <1>2, <1>3, <2>2
  <2>7. s \in clean' => CurrentAt(s)'
    BY <1>2, <1>5, <2>1, <2>4, <2>6 DEF CurrentAt, ReadServersBefore, ReadSkillsBefore, Stages
  <2>8. \A n \in Names : /\ order'[s].servers[n].def \in {servers[n].def, None}
                         /\ order'[s].servers[n].secret \in {servers[n].secret, None}
    BY <1>3, <2>2 DEF Server, NoServer
  <2>9. order'[s].skills = order[s].skills /\ order'[s].resume = order[s].resume
    BY <1>3, <2>2
  <2>10. Named(order'[s].skills, order'[s].servers)
    BY <1>6, <2>8, <2>9, NamedMix
  <2>11. TextsKeepTheirNames'
    BY <1>1, <1>6, <2>4, <2>9, <2>10, OneSessionTexts
  <2>12. QED
    BY <1>1, <2>1, <2>4, <2>5, <2>7, <2>11, OneSession
<1>11. ASSUME Claim(s) PROVE IInv'
  <2>1. Moved("claimed") /\ session[s] = "servers" /\ order' = order /\ clean' = clean
    BY <1>11, AdvanceKeeps DEF Claim, IInv, Stages
  <2>2. TypeOK'
    BY <1>1, <1>2, <2>1 DEF IInv, TypeOK
  <2>3. s \in clean' => CurrentAt(s)'
    BY <1>2, <1>5, <2>1 DEF CurrentAt, ReadServersBefore, ReadSkillsBefore, Stages
  <2>4. TextsKeepTheirNames'
    BY <1>1, <1>6, <2>1, OneSessionTexts
  <2>5. QED
    BY <1>1, <2>1, <2>2, <2>3, <2>4, OneSession
<1>12. QED
  BY <1>7, <1>8, <1>9, <1>10, <1>11

\* launch writes what the order says over what the snapshot brought.
LEMMA LaunchStep ==
  ASSUME IInv, NEW s \in Sessions, Restore(s) \/ WriteServers(s) \/ WriteSkills(s)
  PROVE  IInv'
<1>1. UNCHANGED <<tables, editVars, alone, sound>> /\ UNCHANGED <<order, snapshot>>
  BY DEF Restore, WriteServers, WriteSkills
<1>2. UNCHANGED <<skills, servers, keys, step, name, kept>>
  BY <1>1 DEF tables, editVars
<1>3. /\ order[s] \in [key : Value, resume : Home, skills : [Names -> Value],
                       servers : [Names -> Server]]
      /\ home \in [Sessions -> Home] /\ clean \subseteq Sessions
  BY DEF IInv, TypeOK
<1>4. NoServers \in [Names -> Server] /\ None \in Value
  BY DEF NoServers, NoServer, Server, Value
<1>5. s \in clean => CurrentAt(s)
  BY DEF IInv, OrdersAreCurrent, SessionsAreCurrent, CurrentAt
<1>6. /\ Named(snapshot.skills, snapshot.servers) /\ Named(order[s].skills, order[s].servers)
      /\ Named(order[s].resume.skills, order[s].resume.servers)
      /\ Named(home[s].skills, home[s].servers)
  BY DEF IInv, TextsKeepTheirNames
<1> DEFINE Moved(to) == /\ session' \in [Sessions -> Stages] /\ session'[s] = to
                        /\ \A r \in Sessions : r # s => session'[r] = session[r]
           Housed == /\ home' \in [Sessions -> Home]
                     /\ \A r \in Sessions : r # s => home'[r] = home[r]
<1>7. ASSUME Restore(s) PROVE IInv'
  <2>1. Moved("restored") /\ session[s] = "claimed"
    BY <1>7, AdvanceKeeps DEF Restore, IInv, Stages
  <2>2. \/ home' = [home EXCEPT ![s] = order[s].resume] /\ clean' = clean
        \/ /\ \E cut \in SUBSET Names :
                home' = [home EXCEPT ![s] = [order[s].resume EXCEPT !.skills =
                            [n \in Names |-> IF n \in cut THEN None ELSE @[n]]]]
           /\ clean' = clean \ {s}
        \/ home' = home /\ clean' = clean \ {s}
    BY <1>7 DEF Restore
  <2>3. /\ Housed /\ clean' \subseteq clean /\ (s \in clean' => home'[s] = order[s].resume)
        /\ Named(home'[s].skills, home'[s].servers)
    <3>1. CASE home' = [home EXCEPT ![s] = order[s].resume] /\ clean' = clean
      <4>1. Housed /\ home'[s] = order[s].resume
        BY <1>3, <3>1
      <4>2. QED
        BY <1>6, <3>1, <4>1
    <3>2. ASSUME NEW cut \in SUBSET Names, clean' = clean \ {s},
                 home' = [home EXCEPT ![s] = [order[s].resume EXCEPT !.skills =
                             [n \in Names |-> IF n \in cut THEN None ELSE @[n]]]]
          PROVE  Housed /\ Named(home'[s].skills, home'[s].servers)
      <4>1. Housed
        BY <1>3, <1>4, <3>2 DEF Home
      <4>2. /\ \A n \in Names : home'[s].skills[n] \in {order[s].resume.skills[n], None}
            /\ home'[s].servers = order[s].resume.servers
        BY <1>3, <3>2 DEF Home
      <4>3. QED
        BY <1>6, <4>1, <4>2, NamedMix
    <3>3. CASE home' = home /\ clean' = clean \ {s}
      BY <1>3, <1>6, <3>3
    <3>4. QED
      BY <2>2, <3>1, <3>2, <3>3
  <2>4. TypeOK'
    BY <1>1, <1>2, <1>3, <2>1, <2>3 DEF IInv, TypeOK
  <2>5. s \in clean' => CurrentAt(s)'
    BY <1>1, <1>2, <1>5, <2>1, <2>3 DEF CurrentAt, ReadServersBefore, ReadSkillsBefore, Stages
  <2>6. TextsKeepTheirNames'
    BY <1>1, <1>6, <2>3, OneSessionTexts
  <2>7. QED
    BY <1>1, <2>1, <2>3, <2>4, <2>5, <2>6, OneSession
<1>8. ASSUME WriteServers(s) PROVE IInv'
  <2>1. Moved("configured") /\ session[s] = "restored"
    BY <1>8, AdvanceKeeps DEF WriteServers, IInv, Stages
  <2>2. \/ /\ home' = IF order[s].servers = NoServers THEN home
                      ELSE [home EXCEPT ![s].servers = order[s].servers]
           /\ clean' = clean
        \/ /\ \E left \in {home[s].servers, NoServers} :
                home' = [home EXCEPT ![s].servers = left]
           /\ clean' = clean \ {s}
    BY <1>8 DEF WriteServers
  <2>3. PICK left \in {home[s].servers, order[s].servers, NoServers} :
          home' = [home EXCEPT ![s].servers = left]
    <3>1. home = [home EXCEPT ![s].servers = home[s].servers]
      BY <1>3 DEF Home
    <3>2. QED
      BY <2>2, <3>1
  <2>4. /\ Housed /\ clean' \subseteq clean /\ home'[s].servers = left
        /\ home'[s].skills = home[s].skills
    <3>1. left \in [Names -> Server]
      BY <1>3, <1>4 DEF Home
    <3>2. QED
      BY <1>3, <2>2, <2>3, <3>1 DEF Home
  <2>5. TypeOK'
    BY <1>1, <1>2, <1>3, <2>1, <2>4 DEF IInv, TypeOK
  <2>6. s \in clean' => CurrentAt(s)'
    <3>1. SUFFICES ASSUME s \in clean' PROVE CurrentAt(s)'
      OBVIOUS
    <3>2. /\ order[s].skills = skills /\ order[s].servers = servers
          /\ home[s] = order[s].resume
      BY <1>5, <2>1, <2>4, <3>1 DEF CurrentAt, ReadServersBefore, ReadSkillsBefore, Stages
    <3>3. home'[s].servers = IF servers # NoServers THEN servers ELSE order[s].resume.servers
      BY <1>3, <2>2, <3>1, <3>2 DEF Home
    <3>4. home'[s] = [skills |-> home'[s].skills, servers |-> home'[s].servers]
      BY <2>4 DEF Home
    <3>5. home'[s] = [skills |-> order[s].resume.skills, servers |-> StartServers(s)]
      BY <2>4, <3>2, <3>3, <3>4 DEF StartServers
    <3>6. QED
      BY <1>1, <1>2, <2>1, <3>2, <3>5
         DEF CurrentAt, ReadServersBefore, ReadSkillsBefore, Stages, StartServers
  <2>7. Named(home'[s].skills, home'[s].servers)
    <3>1. Named(home[s].skills, NoServers)
      BY <1>6, NoneAssumption, NamedMix DEF NoServers, NoServer
    <3>2. Named(home[s].skills, left)
      BY <1>6, <2>3, <3>1, NamedMix
    <3>3. QED
      BY <2>4, <3>2
  <2>8. TextsKeepTheirNames'
    BY <1>1, <1>6, <2>4, <2>7, OneSessionTexts
  <2>9. QED
    BY <1>1, <2>1, <2>4, <2>5, <2>6, <2>8, OneSession
<1>9. ASSUME WriteSkills(s) PROVE IInv'
  <2>1. Moved("ready") /\ session[s] = "configured"
    BY <1>9, AdvanceKeeps DEF WriteSkills, IInv, Stages
  <2>2. PICK lost \in SUBSET Wanted(s) :
          /\ home' = [home EXCEPT ![s].skills =
                         [n \in Names |-> IF n \in Wanted(s) \ lost THEN order[s].skills[n]
                                          ELSE @[n]]]
          /\ clean' = IF lost = {} THEN clean ELSE clean \ {s}
    BY <1>9 DEF WriteSkills
  <2>3. Housed /\ clean' \subseteq clean
    BY <1>3, <2>2 DEF Home
  <2>4. TypeOK'
    BY <1>1, <1>2, <1>3, <2>1, <2>3 DEF IInv, TypeOK
  <2>5. home'[s].servers = home[s].servers
    BY <1>3, <2>2 DEF Home
  <2>6. \A n \in Names :
           home'[s].skills[n] = IF n \in Wanted(s) \ lost THEN order[s].skills[n]
                                ELSE home[s].skills[n]
    BY <1>3, <2>2 DEF Home
  <2>7. s \in clean' => CurrentAt(s)'
    <3>1. SUFFICES ASSUME s \in clean' PROVE CurrentAt(s)'
      OBVIOUS
    <3>2. /\ order[s].skills = skills /\ lost = {}
          /\ home[s] = [skills |-> order[s].resume.skills, servers |-> StartServers(s)]
      BY <1>3, <1>5, <2>1, <2>2, <2>3, <3>1 DEF CurrentAt, ReadServersBefore, ReadSkillsBefore, Stages
    <3>3. \A n \in Names : home'[s].skills[n] = StartSkills(s)[n]
      BY <2>6, <3>2 DEF Wanted, StartSkills
    <3>4. home'[s].skills = StartSkills(s)
      BY <2>3, <3>3 DEF Home, StartSkills
    <3>5. home'[s] = [skills |-> home'[s].skills, servers |-> home'[s].servers]
      BY <2>3 DEF Home
    <3>6. home'[s] = [skills |-> StartSkills(s), servers |-> StartServers(s)]
      BY <2>5, <3>2, <3>4, <3>5
    <3>7. StartSkills(s)' = StartSkills(s) /\ StartServers(s)' = StartServers(s)
      BY <1>1, <1>2 DEF StartSkills, StartServers
    <3>8. QED
      BY <1>1, <1>2, <1>5, <2>1, <2>3, <3>1, <3>6, <3>7
         DEF CurrentAt, ReadServersBefore, ReadSkillsBefore, Stages
  <2>8. Named(home'[s].skills, home'[s].servers)
    BY <1>6, <2>5, <2>6, NamedMix
  <2>9. TextsKeepTheirNames'
    BY <1>1, <1>6, <2>3, <2>8, OneSessionTexts
  <2>10. QED
    BY <1>1, <2>1, <2>3, <2>4, <2>7, <2>9, OneSession
<1>10. QED
  BY <1>7, <1>8, <1>9

\* A session that ends, or is saved, says nothing of what is stored.
LEMMA EndStep ==
  ASSUME IInv, NEW s \in Sessions, End(s) \/ Save(s)
  PROVE  IInv'
<1>1. UNCHANGED <<tables, editVars, alone, sound>>
  BY DEF End, Save
<1>2. UNCHANGED <<skills, servers, keys, step, name, kept>>
  BY <1>1 DEF tables, editVars
<1>3. CASE End(s)
  <2>1. /\ session' = [session EXCEPT ![s] = "over"] /\ order' = [order EXCEPT ![s] = NoOrder]
        /\ home' = [home EXCEPT ![s] = EmptyHome] /\ clean' = clean \ {s} /\ snapshot' = snapshot
    BY <1>3 DEF End
  <2>2. /\ EmptyHome \in Home
        /\ NoOrder \in [key : Value, resume : Home, skills : [Names -> Value],
                        servers : [Names -> Server]]
    BY DEF NoOrder, EmptyHome, Home, NoSkills, NoServers, NoServer, Server, Value
  <2>3. "over" \in Stages
    BY DEF Stages
  <2>4. TypeOK'
    BY <1>1, <1>2, <2>1, <2>2, <2>3 DEF IInv, TypeOK
  <2>5. \A r \in Sessions : r # s => /\ session'[r] = session[r] /\ order'[r] = order[r]
                                     /\ home'[r] = home[r]
    BY <2>1 DEF IInv, TypeOK
  <2>6. /\ Named(EmptyHome.skills, EmptyHome.servers)
        /\ Named(NoOrder.skills, NoOrder.servers) /\ NoOrder.resume = EmptyHome
    BY NoneAssumption DEF Named, NoOrder, EmptyHome, NoSkills, NoServers, NoServer
  <2>7. order'[s] = NoOrder /\ home'[s] = EmptyHome
    BY <2>1 DEF IInv, TypeOK
  <2>8. Named(snapshot.skills, snapshot.servers)
    BY DEF IInv, TextsKeepTheirNames
  <2>9. TextsKeepTheirNames'
    BY <1>1, <2>1, <2>5, <2>6, <2>7, <2>8, OneSessionTexts
  <2>10. QED
    BY <1>1, <2>1, <2>4, <2>5, <2>9, OneSession
<1>4. CASE Save(s)
  <2>1. UNCHANGED <<session, order, home, clean>> /\ snapshot' = home[s]
    BY <1>4 DEF Save
  <2>2. TypeOK'
    <3>1. home[s] \in Home
      BY DEF IInv, TypeOK
    <3>2. QED
      BY <1>1, <1>2, <2>1, <3>1 DEF IInv, TypeOK
  <2>3. s \in clean => CurrentAt(s)'
    BY <1>2, <2>1 DEF IInv, OrdersAreCurrent, SessionsAreCurrent, CurrentAt, StartSkills, StartServers
  <2>4. TextsKeepTheirNames'
    <3>1. /\ Named(order[s].skills, order[s].servers)
          /\ Named(order[s].resume.skills, order[s].resume.servers)
          /\ Named(home[s].skills, home[s].servers)
      BY DEF IInv, TextsKeepTheirNames
    <3>2. QED
      BY <1>1, <2>1, <3>1, OneSessionTexts
  <2>5. QED
    BY <1>1, <2>1, <2>2, <2>3, <2>4, OneSession
<1>5. QED
  BY <1>3, <1>4

\* Every step keeps the inductive invariant.
LEMMA IInvStep == IInv /\ [Next]_vars => IInv'
<1> SUFFICES ASSUME IInv, [Next]_vars PROVE IInv'
  OBVIOUS
<1>1. ASSUME NEW e \in Edits, \/ PutSkill(e) \/ PutServerRead(e) \/ PutServerWrite(e)
                              \/ StoreKeyDelete(e) \/ StoreKeyInsert(e) \/ DropEdit(e)
      PROVE  IInv'
  BY <1>1, SkillStep, ServerReadStep, ServerWriteStep, KeyDeleteStep, KeyInsertStep, DropStep
<1>2. ASSUME NEW n \in Names, DeleteSkill(n) \/ DeleteServer(n) PROVE IInv'
  BY <1>2, SkillStep, ServerDeleteStep
<1>3. CASE DeleteKey
  BY <1>3, DeleteKeyStep
<1>4. ASSUME NEW s \in Sessions,
             \/ ReadKey(s) \/ ReadSnapshot(s) \/ ReadSkills(s) \/ ReadServers(s) \/ Claim(s)
             \/ End(s) \/ Restore(s) \/ WriteServers(s) \/ WriteSkills(s) \/ Save(s)
      PROVE  IInv'
  BY <1>4, ReadStep, EndStep, LaunchStep
<1>5. CASE UNCHANGED vars
  <2>1. /\ UNCHANGED <<tables, sessionVars, clean>> /\ UNCHANGED <<tables, editVars, alone, sound>>
        /\ UNCHANGED <<skills, servers, keys, snapshot, step, name, kept, session, order, home>>
    BY <1>5 DEF vars, tables, sessionVars, editVars
  <2>2. TypeOK'
    BY <2>1 DEF IInv, TypeOK
  <2>3. EditsGoOn /\ Named(skills, servers)'
    BY <2>1 DEF EditsGoOn, IInv, TextsKeepTheirNames, Named
  <2>4. TextsKeepTheirNames'
    BY <2>1, <2>3, SessionTexts
  <2>5. QED
    BY <2>1, <2>2, <2>4, QuietSessions, QuietEdits DEF IInv
<1>6. QED
  BY <1>1, <1>2, <1>3, <1>4, <1>5 DEF Next

\* The conjunction that is inductive holds in every behaviour.
THEOREM Invariance == Spec => []IInv
  BY InitIInv, IInvStep, PTL DEF Spec

\* A session starts with the stored skills and servers, whatever its snapshot held.
THEOREM SessionsStartCurrent == Spec => []SessionsAreCurrent
<1>1. IInv => SessionsAreCurrent
  BY DEF IInv
<1>2. QED
  BY <1>1, Invariance, PTL

\* Only stores that overlap, or a failed DELETE, leave two rows of api_keys.
THEOREM LoneStoresReplace == Spec => []LoneKeysReplace
<1>1. IInv => LoneKeysReplace
  BY DEF IInv
<1>2. QED
  BY <1>1, Invariance, PTL

\* Whatever way it takes, a text ends up under the name it was sent for.
THEOREM NamesAreKept == Spec => []TextsKeepTheirNames
<1>1. IInv => TextsKeepTheirNames
  BY DEF IInv
<1>2. QED
  BY <1>1, Invariance, PTL

\* Secrets never move to another server, nor get lost by an undisturbed edit.
THEOREM SecretsStay == Spec => []SecretsAreKept
<1>1. IInv => SecretsAreKept
  BY DEF IInv
<1>2. QED
  BY <1>1, Invariance, PTL
=============================================================================
