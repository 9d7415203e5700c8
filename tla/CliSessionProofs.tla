-------------------------- MODULE CliSessionProofs --------------------------
(* What the command leaves behind when it ends, and that it runs AttachInput *)
(* unchanged.                                                                *)
EXTENDS CliRun, AttachInputProofs, FiniteSetTheorems

\* A process that starts has sent nothing and holds nothing.
LEMMA CliInitInv == CliInit => CliInv
  BY DEF CliInit, CliInv, CliTypeOK, Commands, MainStages, RmStages, AttachStages, Connections, Ends,
     TtyInv, ExitInv

\* The steps of the main goroutine keep the invariant.
LEMMA MainKeepsInv == CliInv /\ Main => CliInv'
<1> SUFFICES ASSUME CliInv, Main PROVE CliInv'
  OBVIOUS
<1> USE DEF CliInv, CliTypeOK, TtyInv, ExitInv, MainStages, RmStages, AttachStages, Connections, Ends
<1>1. CASE Create
  BY <1>1 DEF Create
<1>2. CASE Created
  BY <1>2 DEF Created
<1>3. CASE Dial
  BY <1>3 DEF Dial
<1>4. CASE MakeRaw
  BY <1>4 DEF MakeRaw
<1>5. CASE Listen
  BY <1>5 DEF Listen
<1>6. CASE Select
  BY <1>6 DEF Select
<1>7. CASE Leave
  BY <1>7 DEF Leave
<1>8. CASE RemoveSandbox
  BY <1>8 DEF RemoveSandbox
<1>9. QED
  BY <1>1, <1>2, <1>3, <1>4, <1>5, <1>6, <1>7, <1>8 DEF Main, AfterCreate

\* So do those of the other goroutines, the signals and the connection.
LEMMA CliInvStep == CliInv /\ [CliNext]_allVars => CliInv'
<1> SUFFICES ASSUME CliInv, [CliNext]_allVars PROVE CliInv'
  OBVIOUS
<1>0. CliTypeOK /\ TtyInv /\ ExitInv
  BY DEF CliInv
<1>1. CASE Main
  BY <1>1, MainKeepsInv
<1>2. CASE cliVars' = cliVars
  <2>1. /\ cmd' = cmd /\ main' = main /\ rmSig' = rmSig /\ attachSig' = attachSig
        /\ tty' = tty /\ conn' = conn /\ asked' = asked /\ exit' = exit
    BY <1>2 DEF cliVars
  <2>2. CliTypeOK'
    BY <1>0, <2>1, Zenon DEF CliTypeOK
  <2>3. TtyInv'
    BY <1>0, <2>1 DEF TtyInv
  <2>4. ExitInv'
    BY <1>0, <2>1 DEF ExitInv
  <2>5. QED
    BY <2>2, <2>3, <2>4 DEF CliInv
<1>3. CASE Lose
  BY <1>0, <1>3 DEF Lose, CliInv, CliTypeOK, Connections, TtyInv, ExitInv
<1>4. CASE Signal
  <2>1. CliTypeOK'
    BY <1>0, <1>4 DEF Signal, CliTypeOK, RmStages, AttachStages, Ends
  <2>2. TtyInv'
    BY <1>0, <1>4 DEF Signal, CliTypeOK, TtyInv
  <2>3. ExitInv'
    BY <1>0, <1>4 DEF Signal, CliTypeOK, ExitInv
  <2>4. QED
    BY <2>1, <2>2, <2>3 DEF CliInv
<1>5. CASE RmHandler
  <2>1. CliTypeOK'
    BY <1>0, <1>5 DEF RmHandler, CliTypeOK, RmStages, Ends
  <2>2. TtyInv'
    BY <1>0, <1>5 DEF RmHandler, TtyInv
  <2>3. ExitInv'
    BY <1>0, <1>5 DEF RmHandler, CliTypeOK, ExitInv
  <2>4. QED
    BY <2>1, <2>2, <2>3 DEF CliInv
<1>6. CASE AttachHandler
  <2>1. CliTypeOK'
    BY <1>0, <1>6 DEF AttachHandler, CliTypeOK, AttachStages, Ends
  <2>2. TtyInv'
    BY <1>0, <1>6 DEF AttachHandler, CliTypeOK, TtyInv
  <2>3. ExitInv'
    BY <1>0, <1>6 DEF AttachHandler, CliTypeOK, ExitInv
  <2>4. QED
    BY <2>1, <2>2, <2>3 DEF CliInv
<1>7. CASE Hangup
  <2>1. CliTypeOK'
    BY <1>0, <1>7 DEF Hangup, CliTypeOK, Ends
  <2>2. TtyInv'
    BY <1>0, <1>7 DEF Hangup, TtyInv
  <2>3. ExitInv'
    BY <1>0, <1>7 DEF Hangup, ExitInv
  <2>4. QED
    BY <2>1, <2>2, <2>3 DEF CliInv
<1>8. CASE Keyboard
  BY <1>2, <1>8 DEF Keyboard
<1>9. CASE UNCHANGED allVars
  BY <1>2, <1>9 DEF allVars
<1>10. QED
  BY <1>1, <1>3, <1>4, <1>5, <1>6, <1>7, <1>8, <1>9 DEF CliNext

\* The command keeps its invariant through every order of its goroutines.
THEOREM CliInvariance == CliSpec => []CliInv
<1>1. QED
  BY CliInitInv, CliInvStep, PTL DEF CliSpec

\* Where the process ended tells whether the removal was asked for.
LEMMA EndsAreNamed == CliInv => RmCleansUp
  BY DEF CliInv, CliTypeOK, Ends, MainStages, TtyInv, ExitInv, RmCleansUp

\* A --rm ends without having asked for the removal in the three ways that are named.
THEOREM RemovalIsAskedFor == CliSpec => []RmCleansUp
  BY CliInvariance, EndsAreNamed, PTL

\* The terminal is given back but in the three ways that are named.
THEOREM TerminalIsRestored == CliSpec => []TerminalIsGivenBack
<1>1. CliInv => TerminalIsGivenBack
  BY DEF CliInv, CliTypeOK, MainStages, Ends, TtyInv, ExitInv, TerminalIsGivenBack
<1>2. QED
  BY CliInvariance, <1>1, PTL

\* The command implements AttachInput: its other goroutines do not touch the
\* keyboard's.
LEMMA CliRefinesInput ==
    /\ CliInit => Init
    /\ [CliNext]_allVars => [Next]_vars
<1>1. CliInit => Init
  BY DEF CliInit
<1>2. [CliNext]_allVars => [Next]_vars
  BY DEF CliNext, Main, AfterCreate, Create, Created, Dial, MakeRaw, Listen, Select, Leave, RemoveSandbox,
         Keyboard, Lose, Signal, RmHandler, AttachHandler, Hangup, allVars, vars, cliVars
<1>3. QED
  BY <1>1, <1>2

\* So what is typed in a session is kept too, and its detach stays out of the sandbox.
THEOREM SessionInputIsKept ==
    CliSpec => Spec /\ []NothingIsLost /\ []DetachIsNeverSent /\ ReadsDoNotMatter
<1>1. CliSpec => Spec
  BY CliRefinesInput, PTL DEF CliSpec, Spec
<1>2. QED
  BY <1>1, InputIsKept, DetachStaysHere, Refinement, PTL

-----------------------------------------------------------------------------
(* The pickers and the clone around the session.                           *)

\* A run of the command begins as a session does, and its steps are the session's or
\* leave it alone.
LEMMA RunRefines ==
    /\ RunInit => CliInit
    /\ [RunNext]_runVars => [CliNext]_allVars
<1>1. RunInit => CliInit
  BY DEF RunInit
<1>2. ASSUME [RunNext]_runVars PROVE [CliNext]_allVars
  <2>1. CASE UNCHANGED runVars
    BY <2>1 DEF runVars
  <2>2. CASE NothingPicked
    BY <2>2 DEF NothingPicked, CliNext, Main, Create
  <2>3. CASE Request \/ AfterCreate
    BY <2>3 DEF Request, CliNext, Main
  <2>4. CASE SelectRepo \/ Elsewhere
    BY <2>4 DEF SelectRepo, Elsewhere
  <2>5. CASE Keyboard \/ Lose \/ RunSignal \/ RmHandler \/ AttachHandler \/ Hangup
    BY <2>5 DEF RunSignal, CliNext
  <2>6. QED
    BY <1>2, <2>1, <2>2, <2>3, <2>4, <2>5 DEF RunNext, RunMain
<1>3. QED
  BY <1>1, <1>2

\* Of a finite set there is a list.
LEMMA ListOfRepos == SetToSeq(Repos) \in Seq(Repos) /\ IsInjective(SetToSeq(Repos))
<1>1. ExistsBijection(1..Cardinality(Repos), Repos) /\ Cardinality(Repos) \in Nat
  BY PagesAssumption, FS_CardinalityType
<1>2. PICK f \in [1..Cardinality(Repos) -> Repos] : \A i1, i2 \in 1..Cardinality(Repos) : f[i1] = f[i2] => i1 = i2
  BY <1>1 DEF ExistsBijection, Bijection, Injection, IsInjective
<1>3. SetToSeq(Repos) \in [1..Cardinality(Repos) -> Repos] /\ IsInjective(SetToSeq(Repos))
  <2>1. \E g \in [1..Cardinality(Repos) -> Repos] : IsInjective(g)
    BY <1>2 DEF IsInjective
  <2>2. QED
    BY <2>1, Zenon DEF SetToSeq
<1>4. QED
  BY <1>1, <1>3

\* The elements that stand somewhere in a list are elements of its set.
LEMMA PartOfList ==
    ASSUME NEW S, NEW s \in Seq(S), NEW I
    PROVE  {s[j] : j \in DOMAIN s \cap I} \subseteq S /\ {s[j] : j \in DOMAIN s} \subseteq S
<1>1. \A j \in DOMAIN s : s[j] \in S
  OBVIOUS
<1>2. QED
  BY <1>1

LEMMA RunInitInv == RunInit => RunInv
<1> SUFFICES ASSUME RunInit PROVE RunInv
  OBVIOUS
<1>1. CliInv
  BY CliInitInv DEF RunInit
<1>2. PickInit
  BY DEF RunInit
<1>3. listing \in Seq(Held)
  <2>1. ASSUME NEW s \in BranchLists PROVE s \in Seq(Branches)
    BY <2>1 DEF BranchLists, SeqOf
  <2>2. \/ pick = "off" /\ listing \in Seq(Branches)
        \/ pick = "repos" /\ repo = FALSE /\ listing \in Seq(Repos)
    BY <1>2, <2>1, ListOfRepos DEF PickInit
  <2>3. QED
    BY <2>2 DEF Held
<1>4. /\ steady = {listing[k] : k \in DOMAIN listing}
      /\ offered = {} /\ page = 1 /\ failed = {} /\ work = "no"
      /\ pick \in {"off", "repos"} /\ branch \in Branches \cup {Unknown, "none"}
  BY <1>2 DEF PickInit, ToSet
<1>5. PickTypeOK
  <2>1. steady \subseteq Held
    BY <1>3, <1>4, PartOfList
  <2>2. page \in Nat \ {0} /\ offered \subseteq Held
    BY <1>4
  <2>3. /\ pick \in {"off", "repos", "branches", "picked", "over"} \cup Pickers
        /\ work \in {"no", "clone", "fallback", "name", "confirm", "done"}
        /\ failed \subseteq {"absent", "clone", "fallback", "name"}
        /\ pick \notin {"branches", "branch"}
    BY <1>4 DEF Pickers
  <2>4. repo \in BOOLEAN
    BY <1>2 DEF PickInit
  <2>5. QED
    BY <1>3, <1>4, <2>1, <2>2, <2>3, <2>4, Zenon DEF PickTypeOK
<1>6. HeadInv /\ BranchIsCheckedOut /\ work = "no"
  BY <1>2 DEF PickInit, HeadInv, BranchIsCheckedOut
<1>7. PageInv
  <2>1. IsInjective(listing) /\ steady \subseteq ToSet(listing)
    BY <1>2, ListOfRepos DEF PickInit, BranchLists
  <2>2. (page - 1) * PageSize = 0
    BY <1>4, PagesAssumption
  <2>3. From(0, (page - 1) * PageSize) = {}
    BY <1>3, <2>2 DEF From
  <2>4. QED
    BY <2>1, <2>3 DEF PageInv
<1>8. QED
  BY <1>1, <1>5, <1>6, <1>7 DEF RunInv, PickInv

\* Where everything is after x was put before a list, and after its k-th was taken.
LEMMA Placed ==
    ASSUME NEW S, NEW s \in Seq(S), NEW x \in S
    PROVE  /\ <<x>> \o s \in Seq(S) /\ Len(<<x>> \o s) = Len(s) + 1
           /\ (<<x>> \o s)[1] = x
           /\ \A j \in 1..Len(s) : (<<x>> \o s)[j + 1] = s[j]
  OBVIOUS

LEMMA Taken ==
    ASSUME NEW S, NEW s \in Seq(S), NEW k \in 1..Len(s)
    PROVE  /\ RemoveAt(s, k) \in Seq(S) /\ Len(RemoveAt(s, k)) = Len(s) - 1
           /\ \A j \in 1..Len(s) - 1 : RemoveAt(s, k)[j] = IF j < k THEN s[j] ELSE s[j + 1]
<1> DEFINE a == SubSeq(s, 1, k - 1)
           b == SubSeq(s, k + 1, Len(s))
<1>1. Len(s) \in Nat /\ k \in Nat
  OBVIOUS
<1>2. a \in Seq(S) /\ Len(a) = k - 1 /\ \A j \in 1..k - 1 : a[j] = s[j]
  BY <1>1, SubSeqProperties
<1>3. b \in Seq(S) /\ Len(b) = Len(s) - k /\ \A j \in 1..Len(s) - k : b[j] = s[k + j]
  BY <1>1, SubSeqProperties
<1>4. RemoveAt(s, k) = a \o b
  BY DEF RemoveAt
<1> HIDE DEF a, b
<1>5. /\ a \o b \in Seq(S) /\ Len(a \o b) = Len(a) + Len(b)
      /\ \A j \in 1..Len(a) + Len(b) : (a \o b)[j] = IF j <= Len(a) THEN a[j] ELSE b[j - Len(a)]
  BY <1>2, <1>3, ConcatProperties
<1>6. ASSUME NEW j \in 1..Len(s) - 1 PROVE (a \o b)[j] = IF j < k THEN s[j] ELSE s[j + 1]
  <2>1. CASE j < k
    BY <1>1, <1>2, <1>3, <1>5, <2>1
  <2>2. CASE ~(j < k)
    <3>1. j - (k - 1) \in 1..Len(s) - k /\ k + (j - (k - 1)) = j + 1
      BY <1>1, <2>2
    <3>2. b[j - (k - 1)] = s[j + 1]
      BY <1>3, <3>1
    <3>3. QED
      BY <1>1, <1>2, <1>3, <1>5, <2>2, <3>2
  <2>3. QED
    BY <2>1, <2>2
<1>7. QED
  <2>1. Len(a \o b) = Len(s) - 1
    BY <1>1, <1>2, <1>3, <1>5
  <2>2. QED
    BY <1>4, <1>5, <1>6, <2>1

\* A list stays a list.
LEMMA ListChanges ==
    ASSUME NEW S, NEW s \in Seq(S)
    PROVE  /\ \A x \in S : <<x>> \o s \in Seq(S)
           /\ \A k \in 1..Len(s) : RemoveAt(s, k) \in Seq(S)
           /\ \A x \in S : \A k \in 1..Len(s) : <<x>> \o RemoveAt(s, k) \in Seq(S)
<1>1. ASSUME NEW k \in 1..Len(s) PROVE RemoveAt(s, k) \in Seq(S)
  BY <1>1, Taken
<1>2. ASSUME NEW x \in S, NEW t \in Seq(S) PROVE <<x>> \o t \in Seq(S)
  BY <1>2, Placed
<1>3. QED
  BY <1>1, <1>2

\* What stays of a list comes from a place that is no later: the change of a list keeps
\* what its pages hold of what stood still.
Steadily(s, t, st) ==
    /\ IsInjective(t) /\ st \subseteq ToSet(t)
    /\ \A j \in 1..Len(t) : t[j] \in st => \E m \in 1..j : m <= Len(s) /\ s[m] = t[j]

LEMMA NewcomerMoves ==
    ASSUME NEW S, NEW s \in Seq(S), NEW x \in S, NEW st,
           IsInjective(s), st \subseteq ToSet(s), x \notin ToSet(s)
    PROVE  Steadily(s, <<x>> \o s, st)
<1> DEFINE t == <<x>> \o s
<1>1. /\ t \in Seq(S) /\ Len(t) = Len(s) + 1 /\ Len(s) \in Nat /\ t[1] = x
      /\ \A j \in 1..Len(s) : t[j + 1] = s[j]
  BY Placed
<1> HIDE DEF t
<1>2. \A j \in 2..Len(t) : j - 1 \in 1..Len(s) /\ t[j] = s[j - 1]
  <2>1. ASSUME NEW j \in 2..Len(t) PROVE j - 1 \in 1..Len(s) /\ t[j] = s[j - 1]
    <3>1. j - 1 \in 1..Len(s) /\ (j - 1) + 1 = j
      BY <1>1, <2>1
    <3>2. QED
      BY <1>1, <3>1
  <2>2. QED
    BY <2>1
<1>3. \A m \in 1..Len(s) : s[m] # x
  BY DEF ToSet
<1>4. IsInjective(t)
  <2>1. ASSUME NEW j \in 1..Len(t), NEW m \in 1..Len(t), t[j] = t[m] PROVE j = m
    <3>1. CASE j = 1 \/ m = 1
      BY <1>1, <1>2, <1>3, <2>1, <3>1
    <3>2. CASE j # 1 /\ m # 1
      <4>1. j \in 2..Len(t) /\ m \in 2..Len(t)
        BY <1>1, <3>2
      <4>2. j - 1 = m - 1
        BY <1>2, <2>1, <4>1 DEF IsInjective
      <4>3. QED
        BY <4>1, <4>2
    <3>3. QED
      BY <3>1, <3>2
  <2>2. QED
    BY <1>1, <2>1 DEF IsInjective
<1>5. st \subseteq ToSet(t)
  <2>1. ASSUME NEW m \in 1..Len(s) PROVE s[m] \in ToSet(t)
    <3>1. m + 1 \in DOMAIN t /\ t[m + 1] = s[m]
      BY <1>1, <2>1
    <3>2. QED
      BY <3>1 DEF ToSet
  <2>2. QED
    BY <2>1 DEF ToSet
<1>6. ASSUME NEW j \in 1..Len(t), t[j] \in st PROVE \E m \in 1..j : m <= Len(s) /\ s[m] = t[j]
  <2>1. j # 1
    BY <1>1, <1>6
  <2>2. j - 1 \in 1..j /\ j - 1 <= Len(s) /\ s[j - 1] = t[j]
    BY <1>1, <1>2, <2>1
  <2>3. QED
    BY <2>2
<1>7. QED
  BY <1>4, <1>5, <1>6 DEF Steadily, t

LEMMA MoverMoves ==
    ASSUME NEW S, NEW s \in Seq(S), NEW k \in 1..Len(s), NEW st,
           IsInjective(s), st \subseteq ToSet(s)
    PROVE  /\ Steadily(s, <<s[k]>> \o RemoveAt(s, k), st \ {s[k]})
           /\ Steadily(s, RemoveAt(s, k), st \cap {s[j] : j \in DOMAIN s \cap 1..k - 1})
<1> DEFINE u == RemoveAt(s, k)
           t == <<s[k]>> \o u
<1>1. /\ u \in Seq(S) /\ Len(u) = Len(s) - 1 /\ Len(s) \in Nat /\ k \in Nat /\ s[k] \in S
      /\ \A j \in 1..Len(s) - 1 : u[j] = IF j < k THEN s[j] ELSE s[j + 1]
  BY Taken
<1> HIDE DEF u
<1>2. \A j, m \in 1..Len(s) : s[j] = s[m] => j = m
  BY DEF IsInjective
<1>3. /\ IsInjective(u) /\ s[k] \notin ToSet(u)
      /\ \A m \in 1..Len(s) : m # k => s[m] \in ToSet(u)
  <2>1. ASSUME NEW j \in 1..Len(u) PROVE \E i1 \in 1..Len(s) : i1 # k /\ i1 = (IF j < k THEN j ELSE j + 1) /\ u[j] = s[i1]
    BY <1>1, <2>1
  <2>2. ASSUME NEW j \in 1..Len(u), NEW m \in 1..Len(u), u[j] = u[m] PROVE j = m
    BY <1>1, <1>2, <2>1, <2>2
  <2>3. ASSUME NEW j \in 1..Len(u) PROVE u[j] # s[k]
    BY <1>1, <1>2, <2>1, <2>3
  <2>4. ASSUME NEW m \in 1..Len(s), m # k PROVE s[m] \in ToSet(u)
    <3>1. CASE m < k
      BY <1>1, <2>4, <3>1 DEF ToSet
    <3>2. CASE ~(m < k)
      <4>1. m - 1 \in 1..Len(u) /\ ~(m - 1 < k) /\ (m - 1) + 1 = m
        BY <1>1, <2>4, <3>2
      <4>2. u[m - 1] = s[m]
        BY <1>1, <4>1
      <4>3. QED
        BY <1>1, <4>1, <4>2 DEF ToSet
    <3>3. QED
      BY <3>1, <3>2
  <2>5. QED
    BY <1>1, <2>2, <2>3, <2>4 DEF IsInjective, ToSet
<1>4. Steadily(s, u, st \cap {s[j] : j \in DOMAIN s \cap 1..k - 1})
  <2> DEFINE st2 == st \cap {s[j] : j \in DOMAIN s \cap 1..k - 1}
  <2>1. st2 \subseteq ToSet(u)
    BY <1>1, <1>3
  <2>2. ASSUME NEW j \in 1..Len(u), u[j] \in st2 PROVE \E m \in 1..j : m <= Len(s) /\ s[m] = u[j]
    <3>1. PICK m \in 1..k - 1 : m \in 1..Len(s) /\ u[j] = s[m]
      BY <1>1, <2>2
    <3>2. j < k
      BY <1>1, <1>2, <2>2, <3>1
    <3>3. QED
      BY <1>1, <2>2, <3>2
  <2>3. QED
    BY <1>3, <2>1, <2>2 DEF Steadily
<1>5. Steadily(u, t, st \ {s[k]})
  <2>1. ASSUME NEW v \in st \ {s[k]} PROVE v \in ToSet(u)
    BY <1>1, <1>3, <2>1 DEF ToSet
  <2>2. QED
    BY <1>1, <1>3, <2>1, NewcomerMoves
<1>6. Steadily(s, t, st \ {s[k]})
  <2>1. IsInjective(t) /\ st \ {s[k]} \subseteq ToSet(t)
    BY <1>5 DEF Steadily
  <2>2. /\ Len(t) = Len(u) + 1 /\ t[1] = s[k]
        /\ \A j \in 1..Len(u) : t[j + 1] = u[j]
    BY <1>1, Placed
  <2> HIDE DEF t
  <2>3. ASSUME NEW j \in 1..Len(t), t[j] \in st \ {s[k]} PROVE \E m \in 1..j : m <= Len(s) /\ s[m] = t[j]
    <3>1. j - 1 \in 1..Len(u) /\ (j - 1) + 1 = j /\ Len(u) = Len(s) - 1
      BY <1>1, <2>2, <2>3
    <3>2. t[j] = u[j - 1]
      BY <2>2, <3>1
    <3>3. CASE j - 1 < k
      BY <1>1, <3>1, <3>2, <3>3
    <3>4. CASE ~(j - 1 < k)
      BY <1>1, <3>1, <3>2, <3>4
    <3>5. QED
      BY <3>3, <3>4
  <2>4. QED
    BY <2>1, <2>3 DEF Steadily
<1>7. QED
  BY <1>4, <1>6 DEF t, u

\* GitHub changes its list and what stood still; nobody else's variables.
LEMMA GitHubStep ==
    ASSUME PickInv, GitHub
    PROVE  PickInv' /\ work' = work
<1>1. PICK x \in Held : Push(x) \/ Delete(x)
  BY DEF GitHub
<1>2. /\ PickTypeOK /\ PageInv /\ HeadInv /\ BranchIsCheckedOut
      /\ listing \in Seq(Held) /\ page \in Nat \ {0} /\ PageSize \in Nat \ {0}
      /\ IsInjective(listing) /\ steady \subseteq ToSet(listing)
  BY PagesAssumption DEF PickInv, PickTypeOK, PageInv
<1> DEFINE Moved == \E list, still : list \in Seq(Held) /\ Change(list, still) /\ Steadily(listing, list, steady \cap still)
<1>3. Moved
  <2>1. CASE x \notin ToSet(listing) /\ Change(<<x>> \o listing, steady)
    <3>1. Steadily(listing, <<x>> \o listing, steady \cap steady)
      BY <1>2, <2>1, NewcomerMoves
    <3>2. QED
      BY <1>2, <2>1, <3>1, ListChanges
  <2>2. ASSUME NEW k \in DOMAIN listing, listing[k] = x, Change(<<x>> \o RemoveAt(listing, k), steady \ {x})
        PROVE  Moved
    <3>1. k \in 1..Len(listing) /\ steady \cap (steady \ {x}) = steady \ {x}
      BY <1>2, <2>2
    <3>2. Steadily(listing, <<listing[k]>> \o RemoveAt(listing, k), steady \ {listing[k]})
      BY <1>2, <3>1, MoverMoves
    <3>3. Steadily(listing, <<x>> \o RemoveAt(listing, k), steady \cap (steady \ {x}))
      BY <2>2, <3>1, <3>2, Zenon
    <3>4. <<x>> \o RemoveAt(listing, k) \in Seq(Held)
      BY <1>2, <3>1, ListChanges
    <3>5. QED
      BY <2>2, <3>3, <3>4, Zenon
  <2>3. ASSUME NEW k \in DOMAIN listing, Change(RemoveAt(listing, k), From(0, k - 1))
        PROVE  Moved
    <3>1. k \in 1..Len(listing) /\ From(0, k - 1) = {listing[j] : j \in DOMAIN listing \cap 1..k - 1}
      BY <1>2, <2>3 DEF From
    <3>2. Steadily(listing, RemoveAt(listing, k), steady \cap {listing[j] : j \in DOMAIN listing \cap 1..k - 1})
      BY <1>2, <3>1, MoverMoves
    <3>3. Steadily(listing, RemoveAt(listing, k), steady \cap From(0, k - 1))
      BY <3>1, <3>2, Zenon
    <3>4. RemoveAt(listing, k) \in Seq(Held)
      BY <1>2, <3>1, ListChanges
    <3>5. QED
      BY <2>3, <3>3, <3>4, Zenon
  <2>4. QED
    BY <1>1, <2>1, <2>2, <2>3 DEF Push, Delete
<1>4. PICK list, still : list \in Seq(Held) /\ Change(list, still) /\ Steadily(listing, list, steady \cap still)
  BY <1>3
<1>5. /\ listing' = list /\ steady' = steady \cap still
      /\ pick' = pick /\ page' = page /\ offered' = offered /\ repo' = repo /\ branch' = branch
      /\ work' = work /\ head' = head /\ failed' = failed
  BY <1>4 DEF Change, choiceVars, podVars
<1>6. Held' = Held
  BY <1>5 DEF Held
<1>7. PickTypeOK'
  BY <1>2, <1>4, <1>5, <1>6, Zenon DEF PickTypeOK
<1>8. HeadInv' /\ BranchIsCheckedOut'
  BY <1>2, <1>5, Zenon DEF HeadInv, BranchIsCheckedOut, On, NoHead
<1>9. PageInv'
  <2>1. IsInjective(listing') /\ steady' \subseteq ToSet(listing')
    BY <1>4, <1>5 DEF Steadily
  <2>2. ASSUME NEW c \in Int PROVE steady' \cap From(0, c)' \subseteq steady \cap From(0, c)
    <3>1. ASSUME NEW j \in DOMAIN list, j \in 1..c, list[j] \in steady' PROVE list[j] \in From(0, c)
      <4>1. PICK m \in 1..j : m <= Len(listing) /\ listing[m] = list[j]
        BY <1>4, <1>5, <3>1 DEF Steadily
      <4>2. m \in DOMAIN listing /\ m \in 0 + 1..c
        BY <1>2, <3>1, <4>1
      <4>3. QED
        BY <4>1, <4>2 DEF From
    <3>2. From(0, c)' = {list[j] : j \in DOMAIN list \cap 1..c}
      BY <1>5 DEF From
    <3>3. QED
      BY <1>5, <3>1, <3>2
  <2>3. (page - 1) * PageSize \in Int
    BY <1>2
  <2>4. (page' - 1) * PageSize = (page - 1) * PageSize
    BY <1>5
  <2>5. pick' \in {"repos", "branches"} => steady' \cap From(0, (page - 1) * PageSize)' \subseteq offered'
    BY <1>2, <1>5, <2>2, <2>3 DEF PageInv
  <2>6. QED
    BY <1>5, <2>1, <2>5 DEF PageInv, From
<1>10. QED
  BY <1>5, <1>7, <1>8, <1>9 DEF PickInv

\* The page that is read next adds what the ones before it leave.
LEMMA PageCovers ==
    ASSUME PickInv, pick \in {"repos", "branches"}
    PROVE  steady \cap From(0, page * PageSize) \subseteq offered \cup Page(page)
<1>1. /\ steady \cap From(0, (page - 1) * PageSize) \subseteq offered
      /\ page \in Nat \ {0} /\ PageSize \in Nat \ {0}
  BY PagesAssumption DEF PickInv, PickTypeOK, PageInv
<1>2. (page - 1) * PageSize \in Nat /\ page * PageSize \in Nat
  BY <1>1
<1>3. ASSUME NEW a \in Nat, NEW b \in Nat PROVE From(0, b) \subseteq From(0, a) \cup From(a, b)
  <2>1. ASSUME NEW j \in DOMAIN listing, j \in 0 + 1..b PROVE j \in 0 + 1..a \/ j \in a + 1..b
    BY <2>1
  <2>2. QED
    BY <2>1 DEF From
<1>4. From(0, page * PageSize) \subseteq From(0, (page - 1) * PageSize) \cup Page(page)
  BY <1>2, <1>3 DEF Page
<1>5. QED
  BY <1>1, <1>4

\* The steps of --select-repo, before anything was asked of a pod.
LEMMA PickingStep ==
    ASSUME PickInv, Picking, work = "no"
    PROVE  PickInv' /\ work' = "no"
<1>1. /\ PickTypeOK /\ listing \in Seq(Held) /\ offered \subseteq Held /\ steady \subseteq Held
      /\ page \in Nat \ {0} /\ branch \in Branches \cup {Unknown, "none"}
      /\ pick \in {"branches", "branch"} => repo
      /\ HeadInv /\ BranchIsCheckedOut
  BY DEF PickInv, PickTypeOK
<1>2. work' = work /\ head' = head /\ failed' = failed
  BY DEF Picking, FetchRepos, PickRepo, FetchBranches, PickBranch, TypeBranch, Read, GiveUp, podVars
<1>3. HeadInv' /\ BranchIsCheckedOut'
  BY <1>1, <1>2 DEF HeadInv, BranchIsCheckedOut
<1>4. ASSUME NEW n PROVE Page(n) \subseteq Held
  BY <1>1, PartOfList DEF Page, From
<1>5. ASSUME NEW s \in BranchLists PROVE s \in Seq(Branches) /\ ToSet(s) \subseteq Branches
  <2>1. s \in Seq(Branches)
    BY <1>5 DEF BranchLists, SeqOf
  <2>2. QED
    BY <2>1, PartOfList DEF ToSet
<1> DEFINE Kept ==
       /\ listing' \in Seq(Held') /\ offered' \subseteq Held' /\ steady' \subseteq Held'
       /\ page' \in Nat \ {0} /\ branch' \in Branches \cup {Unknown, "none"}
       /\ pick' \in {"off", "repos", "branches", "picked", "over"} \cup Pickers
       /\ pick' \in {"branches", "branch"} => repo'
<1>6. Kept
  <2>1. ASSUME pick # "off", pick' # "off", repo' = repo PROVE Held' = Held
    BY <2>1 DEF Held
  <2>2. ASSUME GiveUp, pick # "off" PROVE Kept
    <3>1. /\ pick' = "over" /\ repo' = repo /\ branch' = branch /\ listing' = listing
          /\ page' = 1 /\ offered' = {} /\ steady' = {}
      BY <2>2 DEF GiveUp, Forget, githubVars, choiceVars
    <3>2. QED
      BY <1>1, <2>1, <2>2, <3>1
  <2>3. ASSUME NEW last, NEW next \in Pickers, Read(last, next), pick \in {"repos", "branches"},
               next = "branch" => pick = "branches"
        PROVE  Kept
    <3>1. /\ listing' = listing /\ steady' = steady /\ branch' = branch /\ repo' = repo
          /\ offered' = offered \cup Page(page)
          /\ page' \in {page, page + 1} /\ pick' \in {pick, next}
      BY <2>3 DEF Read, githubVars, choiceVars
    <3>2. Held' = Held
      BY <2>1, <2>3, <3>1 DEF Pickers
    <3>3. pick' \in {"branches", "branch"} => repo'
      BY <1>1, <2>3, <3>1 DEF Pickers
    <3>4. QED
      BY <1>1, <1>4, <2>3, <3>1, <3>2, <3>3
  <2>4. CASE FetchRepos
    BY <2>2, <2>3, <2>4 DEF FetchRepos, Pickers
  <2>5. CASE FetchBranches
    BY <2>2, <2>3, <2>5 DEF FetchBranches, Pickers
  <2>6. CASE PickRepo
    <3>1. CASE GiveUp
      BY <2>2, <2>6, <3>1 DEF PickRepo
    <3>2. CASE ~GiveUp
      <4>1. /\ repo' = TRUE /\ listing' \in BranchLists /\ offered' = {} /\ page' = 1
            /\ branch' = branch /\ pick' \in {"branches", "picked"}
            /\ steady' \in {ToSet(listing'), {}}
        BY <2>6, <3>2 DEF PickRepo
      <4>2. Held' = Branches
        BY <4>1 DEF Held
      <4>3. QED
        BY <1>1, <1>5, <4>1, <4>2
    <3>3. QED
      BY <3>1, <3>2
  <2>7. CASE PickBranch
    <3>1. /\ pick = "branch" /\ pick' \in {"picked", "typing", "over"} /\ repo' = repo
          /\ listing' = listing /\ page' = 1 /\ offered' = {} /\ steady' = {}
          /\ branch' \in {branch, "none"} \cup offered
      BY <2>7 DEF PickBranch, Forget, githubVars
    <3>2. Held = Branches /\ Held' = Held
      BY <1>1, <2>1, <3>1 DEF Held
    <3>3. QED
      BY <1>1, <3>1, <3>2 DEF Pickers
  <2>8. CASE TypeBranch
    <3>1. /\ pick = "typing" /\ pick' \in {"picked", "over"} /\ repo' = repo
          /\ listing' = listing /\ page' = page /\ offered' = offered /\ steady' = steady
          /\ branch' \in {branch, Unknown, "none"} \cup Branches
      BY <2>8 DEF TypeBranch, githubVars
    <3>2. QED
      BY <1>1, <2>1, <3>1
  <2>9. QED
    BY <2>4, <2>5, <2>6, <2>7, <2>8 DEF Picking
<1>7. repo' \in BOOLEAN
  <2>1. repo' = repo \/ repo' = TRUE
    BY DEF Picking, FetchRepos, PickRepo, FetchBranches, PickBranch, TypeBranch, Read, GiveUp, choiceVars
  <2>2. QED
    BY <1>1, <2>1, Zenon DEF PickTypeOK
<1>8. PickTypeOK'
  BY <1>1, <1>2, <1>6, <1>7, Zenon DEF PickTypeOK
<1>9. PageInv'
  <2>1. PageInv /\ PageSize \in Nat /\ IsInjective(listing) /\ steady \subseteq ToSet(listing)
    BY PagesAssumption DEF PickInv, PageInv
  <2>2. ASSUME listing' = listing, steady' \subseteq steady, pick' \notin {"repos", "branches"} PROVE PageInv'
    BY <2>1, <2>2 DEF PageInv
  <2>3. CASE GiveUp
    BY <2>2, <2>3 DEF GiveUp, Forget, githubVars
  <2>4. ASSUME NEW last, NEW next \in Pickers, Read(last, next), pick \in {"repos", "branches"} PROVE PageInv'
    <3>1. listing' = listing /\ steady' = steady /\ offered' = offered \cup Page(page)
      BY <2>4 DEF Read, githubVars
    <3>2. CASE last
      BY <2>2, <2>4, <3>1, <3>2 DEF Read, Pickers
    <3>3. CASE ~last
      <4>1. page' = page + 1 /\ pick' = pick
        BY <2>4, <3>3 DEF Read
      <4>2. page' - 1 = page
        BY <1>1, <4>1
      <4>3. From(0, (page - 1) * PageSize)' = From(0, page * PageSize)
        BY <3>1, <4>2 DEF From
      <4>4. steady' \cap From(0, (page - 1) * PageSize)' \subseteq offered'
        BY <2>4, <3>1, <4>3, PageCovers
      <4>5. QED
        BY <2>1, <3>1, <4>4 DEF PageInv
    <3>4. QED
      BY <3>2, <3>3
  <2>5. CASE FetchRepos
    BY <2>3, <2>4, <2>5 DEF FetchRepos, Pickers
  <2>6. CASE FetchBranches
    BY <2>3, <2>4, <2>6 DEF FetchBranches, Pickers
  <2>7. CASE PickRepo /\ ~GiveUp
    <3>1. listing' \in BranchLists /\ page' = 1 /\ steady' \in {ToSet(listing'), {}}
      BY <2>7 DEF PickRepo
    <3>2. IsInjective(listing')
      BY <3>1 DEF BranchLists
    <3>3. (page' - 1) * PageSize = 0
      BY <2>1, <3>1
    <3>4. From(0, (page - 1) * PageSize)' = {}
      BY <1>5, <3>1, <3>3 DEF From
    <3>5. QED
      BY <3>1, <3>2, <3>4 DEF PageInv
  <2>8. CASE PickBranch
    BY <2>2, <2>8 DEF PickBranch, Forget, githubVars
  <2>9. CASE TypeBranch
    BY <2>2, <2>9 DEF TypeBranch, githubVars
  <2>10. QED
    BY <2>3, <2>5, <2>6, <2>7, <2>8, <2>9 DEF Picking
<1>10. QED
  BY <1>2, <1>3, <1>8, <1>9 DEF PickInv

\* The claim, and what launch does with git, change nothing of what was asked for.
LEMMA WorkStep ==
    ASSUME PickInv, (Order /\ work = "no") \/ Pod
    PROVE  PickInv'
<1>1. PickTypeOK /\ HeadInv /\ BranchIsCheckedOut
  BY DEF PickInv
<1>2. /\ pick' = pick /\ listing' = listing /\ offered' = offered /\ steady' = steady
      /\ page' = page /\ repo' = repo /\ branch' = branch
  BY DEF Order, Pod, Clone, Fallback, NameBranch, Confirm, Git, githubVars, choiceVars
<1>3. work \in {"no", "clone", "fallback", "name", "confirm", "done"}
      /\ failed \subseteq {"absent", "clone", "fallback", "name"}
  BY <1>1 DEF PickTypeOK
<1>4. work' \in {"no", "clone", "fallback", "name", "confirm", "done"}
      /\ failed' \subseteq {"absent", "clone", "fallback", "name"}
  BY <1>3 DEF Order, Pod, Clone, Fallback, NameBranch, Confirm, Fails
<1>5. Held' = Held
  BY <1>2 DEF Held
<1>6. PickTypeOK'
  BY <1>1, <1>2, <1>4, <1>5, Zenon DEF PickTypeOK
<1>7. HeadInv' /\ BranchIsCheckedOut'
  <2>1. CASE Order /\ work = "no"
    BY <1>1, <1>2, <2>1 DEF Order, HeadInv, BranchIsCheckedOut
  <2>2. CASE Clone
    BY <1>1, <1>2, <2>2 DEF Clone, Git, Fails, On, NoHead, HeadInv, BranchIsCheckedOut
  <2>3. CASE Fallback
    BY <1>1, <1>2, <2>3 DEF Fallback, Git, Fails, On, NoHead, HeadInv, BranchIsCheckedOut
  <2>4. CASE NameBranch
    BY <1>1, <1>2, <2>4 DEF NameBranch, Git, Fails, On, NoHead, HeadInv, BranchIsCheckedOut
  <2>5. CASE Confirm
    BY <1>1, <1>2, <2>5 DEF Confirm, Git, On, NoHead, HeadInv, BranchIsCheckedOut
  <2>6. QED
    BY <2>1, <2>2, <2>3, <2>4, <2>5 DEF Pod
<1>8. PageInv'
  BY <1>2, Zenon DEF PickInv, PageInv, From
<1>9. QED
  BY <1>6, <1>7, <1>8 DEF PickInv

\* Nothing of the pickers and the pod changes with the session's own steps.
LEMMA PickUnchanged ==
    ASSUME PickInv, UNCHANGED pickVars
    PROVE  PickInv' /\ work' = work
<1>1. PickTypeOK /\ HeadInv /\ BranchIsCheckedOut
  BY DEF PickInv
<1>2. /\ pick' = pick /\ listing' = listing /\ page' = page /\ offered' = offered /\ steady' = steady
      /\ repo' = repo /\ branch' = branch /\ work' = work /\ head' = head /\ failed' = failed
  BY DEF pickVars
<1>3. Held' = Held
  BY <1>2 DEF Held
<1>4. PickTypeOK'
  BY <1>1, <1>2, <1>3, Zenon DEF PickTypeOK
<1>5. HeadInv' /\ BranchIsCheckedOut'
  BY <1>1, <1>2, Zenon DEF HeadInv, BranchIsCheckedOut, On, NoHead
<1>6. PageInv'
  BY <1>2, Zenon DEF PickInv, PageInv, From
<1>7. QED
  BY <1>2, <1>4, <1>5, <1>6 DEF PickInv

LEMMA RunInvStep == RunInv /\ [RunNext]_runVars => RunInv'
<1> SUFFICES ASSUME RunInv, [RunNext]_runVars PROVE RunInv'
  OBVIOUS
<1>1. CliInv /\ PickInv /\ (main = "start" => work = "no")
  BY DEF RunInv
<1>2. CliInv'
  BY <1>1, RunRefines, CliInvStep
<1>3. PickInv' /\ (main' = "start" => work' = "no")
  <2>1. CASE UNCHANGED pickVars /\ (main' = "start" => main = "start")
    BY <1>1, <2>1, PickUnchanged
  <2>2. CASE NothingPicked
    BY <2>1, <2>2 DEF NothingPicked
  <2>3. CASE Request
    <3>1. CASE main' = "created"
      BY <1>1, <2>3, <3>1, WorkStep DEF Request, Create
    <3>2. CASE main' # "created"
      BY <2>1, <2>3, <3>2 DEF Request, Create
    <3>3. QED
      BY <3>1, <3>2
  <2>4. CASE AfterCreate /\ UNCHANGED pickVars
    <3>1. main' # "start"
      BY <2>4 DEF AfterCreate, Created, Dial, MakeRaw, Listen, Select, Leave, RemoveSandbox
    <3>2. QED
      BY <2>1, <2>4, <3>1
  <2>5. CASE SelectRepo
    BY <1>1, <2>5, PickingStep DEF SelectRepo
  <2>6. CASE Elsewhere
    <3>1. main' = main
      BY <2>6 DEF Elsewhere, allVars, cliVars
    <3>2. CASE GitHub
      BY <1>1, <3>1, <3>2, GitHubStep
    <3>3. CASE Pod
      <4>1. work # "no"
        BY <3>3 DEF Pod, Clone, Fallback, NameBranch, Confirm, Git
      <4>2. QED
        BY <1>1, <3>1, <3>3, <4>1, WorkStep
    <3>4. QED
      BY <2>6, <3>2, <3>3 DEF Elsewhere
  <2>7. CASE /\ Keyboard \/ Lose \/ RunSignal \/ RmHandler \/ AttachHandler \/ Hangup
             /\ UNCHANGED pickVars
    <3>1. main' = main
      BY <2>7 DEF Keyboard, cliVars, Lose, RunSignal, Signal, RmHandler, AttachHandler, Hangup
    <3>2. QED
      BY <2>1, <2>7, <3>1
  <2>8. CASE UNCHANGED runVars
    BY <2>1, <2>8 DEF runVars, allVars, cliVars
  <2>9. QED
    BY <2>2, <2>3, <2>4, <2>5, <2>6, <2>7, <2>8 DEF RunNext, RunMain
<1>4. QED
  BY <1>2, <1>3 DEF RunInv

\* From its flags to its end the command keeps its invariant, and the pod its own.
THEOREM RunInvariance == RunSpec => []RunInv
<1>1. QED
  BY RunInitInv, RunInvStep, PTL DEF RunSpec

\* The session works on the branch that was asked for, or on what the failures leave of it.
THEOREM BranchesAreCheckedOut == RunSpec => []BranchIsCheckedOut
<1>1. RunInv => BranchIsCheckedOut
  BY DEF RunInv, PickInv
<1>2. QED
  BY <1>1, RunInvariance, PTL

\* Whatever the size and the number of the pages, none that stands still is missed.
THEOREM PagesMissNone == RunSpec => NoneIsMissed
<1> DEFINE A == /\ pick = "repos" /\ pick' = "repo" =>
                    steady \cap From(0, MaxPages * PageSize) \subseteq offered'
                /\ pick = "branches" /\ pick' = "branch" => steady \subseteq offered'
<1>1. RunInv /\ [RunNext]_runVars => [A]_pickVars
  <2> SUFFICES ASSUME RunInv, [RunNext]_runVars, pick \in {"repos", "branches"}, pick' \in Pickers
               PROVE  A
    BY DEF Pickers
  <2>1. PickInv /\ listing \in Seq(Held) /\ page \in Nat /\ PageSize \in Nat /\ steady \subseteq ToSet(listing)
    BY PagesAssumption DEF RunInv, PickInv, PickTypeOK, PageInv
  <2>2. FetchRepos \/ FetchBranches
    <3>1. pick' # pick /\ pick' # "over" /\ pick \notin Pickers
      BY DEF Pickers
    <3>2. ~UNCHANGED pickVars /\ ~UNCHANGED runVars
      BY <3>1 DEF pickVars, runVars
    <3>3. ~NothingPicked /\ ~Request
      BY <3>1, <3>2 DEF NothingPicked, Request, Order
    <3>4. ~Elsewhere
      BY <3>1 DEF Elsewhere, GitHub, Push, Delete, Change, Pod, Clone, Fallback, NameBranch, Confirm, Git
    <3>5. Picking
      BY <3>2, <3>3, <3>4 DEF RunNext, RunMain, SelectRepo
    <3>6. QED
      BY <3>1, <3>5 DEF Picking, PickRepo, PickBranch, TypeBranch, Pickers
  <2>3. /\ offered' = offered \cup Page(page)
        /\ \/ Len(listing) <= page * PageSize
           \/ pick = "repos" /\ page = MaxPages
    BY <2>1, <2>2 DEF FetchRepos, FetchBranches, Read, GiveUp, Pickers
  <2>4. steady \cap From(0, page * PageSize) \subseteq offered'
    BY <2>1, <2>3, PageCovers
  <2>5. CASE Len(listing) <= page * PageSize
    <3>1. page * PageSize \in Nat
      BY <2>1
    <3>2. ToSet(listing) \subseteq From(0, page * PageSize)
      BY <2>1, <2>5, <3>1 DEF ToSet, From
    <3>3. QED
      BY <2>1, <2>4, <3>2
  <2>6. CASE pick = "repos" /\ page = MaxPages
    BY <2>4, <2>6
  <2>7. QED
    BY <2>3, <2>5, <2>6
<1>2. QED
  BY <1>1, RunInvariance, PTL DEF RunSpec, NoneIsMissed

\* What a session promises holds of the whole run, pickers and clone included.
THEOREM RunsAreSessions ==
    RunSpec => /\ Spec /\ []NothingIsLost /\ []DetachIsNeverSent /\ ReadsDoNotMatter
               /\ []RmCleansUp /\ []TerminalIsGivenBack
<1>1. RunInit => Init
  BY RunRefines, CliRefinesInput
<1>2. [RunNext]_runVars => [Next]_vars
  BY RunRefines, CliRefinesInput
<1>3. RunSpec => Spec
  BY <1>1, <1>2, PTL DEF RunSpec, Spec
<1>4. RunInv => RmCleansUp
  BY EndsAreNamed DEF RunInv
<1>5. RunInv => TerminalIsGivenBack
  BY DEF RunInv, CliInv, CliTypeOK, MainStages, Ends, TtyInv, ExitInv, TerminalIsGivenBack
<1>6. QED
  BY <1>3, <1>4, <1>5, InputIsKept, DetachStaysHere, Refinement, RunInvariance, PTL
=============================================================================
