--------------------------- MODULE TerminalProofs ---------------------------
(* A client that keeps up misses nothing, however many clients there are,    *)
(* whatever the sizes of the scrollback, the channels and the connections.   *)
EXTENDS TerminalTunnel, SequenceTheorems, TLAPS

\* Chunk numbers are naturals, and a run of them grows at its end ...
LEMMA RunGrows ==
  ASSUME NEW s \in Seq(Int), NEW last \in Int, Run(s, last)
  PROVE  Run(Append(s, last + 1), last + 1)
<1>1. Len(s) \in Nat /\ Len(Append(s, last + 1)) = Len(s) + 1
  BY AppendProperties, LenProperties
<1>2. SUFFICES ASSUME NEW i \in 1..Len(s) + 1
               PROVE  Append(s, last + 1)[i] = last + 1 - (Len(s) + 1) + i
  BY <1>1 DEF Run
<1>3. CASE i = Len(s) + 1
  BY <1>1, <1>3, AppendProperties
<1>4. CASE i \in 1..Len(s)
  <2>1. Append(s, last + 1)[i] = s[i]
    BY <1>4, AppendProperties
  <2>2. s[i] = last - Len(s) + i
    BY <1>4 DEF Run
  <2>3. QED
    BY <1>1, <2>1, <2>2
<1>5. QED
  BY <1>1, <1>3, <1>4

\* ... and shrinks at its start, one chunk at a time.
LEMMA RunShrinks ==
  ASSUME NEW s \in Seq(Int), NEW last \in Int, Run(s, last), s # <<>>
  PROVE  /\ Len(s) > 0 /\ Len(Tail(s)) = Len(s) - 1
         /\ Head(s) = last - Len(s) + 1
         /\ Run(Tail(s), last)
<1>1. Len(s) \in Nat /\ Len(s) > 0
  BY EmptySeq, LenProperties
<1>2. Len(Tail(s)) = Len(s) - 1 /\ \A i \in 1..Len(s) - 1 : Tail(s)[i] = s[i + 1]
  BY <1>1, HeadTailProperties
<1>3. Head(s) = s[1]
  BY <1>1, HeadTailProperties
<1>4. \A i \in 1..Len(s) : s[i] = last - Len(s) + i
  BY DEF Run
<1>5. Run(Tail(s), last)
  <2>1. SUFFICES ASSUME NEW i \in 1..Len(s) - 1
                 PROVE  Tail(s)[i] = last - (Len(s) - 1) + i
    BY <1>2 DEF Run
  <2>2. i + 1 \in 1..Len(s)
    BY <1>1
  <2>3. QED
    BY <1>1, <1>2, <1>4, <2>2
<1>6. QED
  BY <1>1, <1>2, <1>3, <1>4, <1>5

\* A pod that starts is unclaimed and has no harness and no clients.
LEMMA TerminalInit == Init => IInv
<1> SUFFICES ASSUME Init PROVE IInv
  OBVIOUS
<1>1. TypeOK
  <2>1. <<>> \in Seq(1..MaxChunks) /\ Len(<<>>) = 0 /\ 0 <= QueueCap
    BY CapsAssumption
  <2>2. queue \in [Clients -> Seq(1..MaxChunks)] /\ tail \in [Clients -> Seq(1..MaxChunks)]
    BY <2>1 DEF Init
  <2>3. \A c \in Clients : Len(queue[c]) <= QueueCap
    BY <2>1 DEF Init
  <2>4. stage \in [Clients -> Stages]
    BY DEF Init, Stages
  <2>5. replay \in [Clients -> [first : 1..MaxChunks + 1, last : 0..MaxChunks]]
    BY CapsAssumption DEF Init, NoReplay
  <2>6. 0 \in 0..MaxClaims /\ 0 \in 0..MaxChunks /\ 0 \in 0..0
    BY CapsAssumption
  <2>7. QED
    BY <2>2, <2>3, <2>4, <2>5, <2>6, Zenon DEF Init, TypeOK
<1>2. OneLaunch /\ RegisteredChannelsAreOpen /\ ReaderInv
  BY DEF Init, OneLaunch, RegisteredChannelsAreOpen, ReaderInv, Started
<1>3. ChannelInv
  BY DEF Init, ChannelInv
<1>4. StreamInv
  BY DEF Init, StreamInv
<1>5. QED
  BY <1>1, <1>2, <1>3, <1>4 DEF IInv

-----------------------------------------------------------------------------
(* One lemma for each part of the invariant; the steps of a handler are those *)
(* of any client c.                                                           *)

\* The steps, by whom they are made.
LEMMA Steps ==
  ASSUME [Next]_vars
  PROVE  \/ Claim \/ Decode \/ Stop \/ StartHarness \/ Output \/ EndHarness \/ ReadPty \/ Exit
         \/ \E c \in Clients : \/ Connect(c) \/ GiveUpWaiting(c) \/ Subscribe(c)
                               \/ Replay(c) \/ Forward(c) \/ Leave(c)
         \/ UNCHANGED vars
  BY DEF Next

\* The claims and the launch.
LEMMA ClaimsStep ==
  ASSUME TypeOK, OneLaunch, [Next]_vars
  PROVE  OneLaunch' /\ claimed' \in BOOLEAN /\ decoding' \in 0..MaxClaims /\ launches' \in 0..MaxClaims
<1>0. MaxClaims \in Nat
  BY CapsAssumption
<1>1. CASE Claim
  BY <1>0, <1>1 DEF Claim, TypeOK, OneLaunch
<1>2. CASE Decode
  <2>1. decoding \in 0..MaxClaims /\ launches \in 0..MaxClaims /\ decoding > 0
    BY <1>2 DEF Decode, TypeOK
  <2>2. claimed = TRUE /\ decoding + launches = 1
    BY <2>1, <1>0 DEF OneLaunch, TypeOK
  <2>3. decoding = 1 /\ launches = 0 /\ decoding' = 0
    BY <1>0, <1>2, <2>1, <2>2 DEF Decode
  <2>4. CASE launches' = launches + 1 /\ claimed' = claimed
    <3>1. launches' = 1 /\ claimed' = TRUE /\ 1 \in 0..MaxClaims /\ 0 \in 0..MaxClaims
      BY <1>0, <2>1, <2>2, <2>3, <2>4
    <3>2. QED
      BY <2>3, <3>1 DEF OneLaunch
  <2>5. CASE claimed' = FALSE /\ launches' = launches
    <3>1. launches' = 0 /\ 0 \in 0..MaxClaims
      BY <1>0, <2>3, <2>5
    <3>2. launches' <= 1 /\ decoding' + launches' = 0
      BY <2>3, <3>1
    <3>3. QED
      BY <2>3, <2>5, <3>1, <3>2, Zenon DEF OneLaunch
  <2>6. QED
    BY <1>2, <2>4, <2>5 DEF Decode
<1>3. CASE UNCHANGED claimVars
  BY <1>3 DEF claimVars, TypeOK, OneLaunch
<1>4. CASE UNCHANGED vars
  BY <1>3, <1>4 DEF vars, claimVars
<1>5. CASE Stop \/ Exit
  BY <1>3, <1>5 DEF Stop, Exit
<1>6. CASE StartHarness \/ Output \/ EndHarness \/ ReadPty
  BY <1>3, <1>6 DEF StartHarness, Output, EndHarness, ReadPty
<1>7. ASSUME NEW c \in Clients, Connect(c) \/ GiveUpWaiting(c) \/ Subscribe(c)
                                \/ Replay(c) \/ Forward(c) \/ Leave(c)
      PROVE  UNCHANGED claimVars
  BY <1>7 DEF Connect, GiveUpWaiting, Subscribe, Replay, Forward, Leave
<1>8. QED
  BY <1>1, <1>2, <1>3, <1>4, <1>5, <1>6, <1>7, Steps

\* The reader.
LEMMA ReaderStep ==
  ASSUME TypeOK, ReaderInv, [Next]_vars
  PROVE  ReaderInv'
<1>0. produced \in Nat /\ n \in Nat /\ launches \in Nat
  BY CapsAssumption DEF TypeOK
<1>1. CASE StartHarness
  BY <1>0, <1>1 DEF StartHarness, bcastVars, claimVars, ReaderInv, Started
<1>2. CASE Output
  BY <1>0, <1>2 DEF Output, bcastVars, claimVars, ReaderInv, Started
<1>3. CASE EndHarness
  BY <1>0, <1>3 DEF EndHarness, bcastVars, claimVars, ReaderInv, Started
<1>4. CASE ReadPty
  BY <1>0, <1>4 DEF ReadPty, SendChunk, CloseAll, bcastVars, claimVars, ReaderInv, Started
<1>5. CASE Claim \/ Decode
  BY <1>0, <1>5 DEF Claim, Decode, bcastVars, ptyVars, ReaderInv, Started
<1>6. CASE UNCHANGED <<claimVars, ptyVars, closed>>
  BY <1>6 DEF claimVars, ptyVars, ReaderInv, Started
<1>7. CASE UNCHANGED vars
  BY <1>6, <1>7 DEF vars, claimVars, ptyVars
<1>8. CASE Stop \/ Exit
  BY <1>6, <1>8 DEF Stop, Exit, bcastVars
<1>9. ASSUME NEW c \in Clients, Connect(c) \/ GiveUpWaiting(c) \/ Subscribe(c)
                                \/ Replay(c) \/ Forward(c) \/ Leave(c)
      PROVE  UNCHANGED <<claimVars, ptyVars, closed>>
  BY <1>9 DEF Connect, GiveUpWaiting, Subscribe, Replay, Forward, Leave, bcastVars
<1>10. QED
  BY <1>1, <1>2, <1>3, <1>4, <1>5, <1>6, <1>7, <1>8, <1>9, Steps

\* A channel takes a chunk only when it has room.
LEMMA SendTyped ==
  ASSUME TypeOK, NEW k \in 1..MaxChunks, SendChunk(k)
  PROVE  /\ queue' \in [Clients -> Seq(1..MaxChunks)]
         /\ \A c \in Clients : Len(queue'[c]) <= QueueCap
         /\ dropped' \subseteq Clients
<1>1. \A c \in Clients :
        /\ queue[c] \in Seq(1..MaxChunks)
        /\ Len(queue[c]) <= QueueCap
        /\ Append(queue[c], k) \in Seq(1..MaxChunks)
        /\ Len(Append(queue[c], k)) = Len(queue[c]) + 1
        /\ Len(queue[c]) \in Nat
  BY AppendProperties, LenProperties DEF TypeOK
<1>2. QueueCap \in Nat
  BY CapsAssumption
<1> DEFINE room == {c \in clients : Len(queue[c]) < QueueCap}
<1>3. /\ queue' = [c \in Clients |-> IF c \in room THEN Append(queue[c], k) ELSE queue[c]]
      /\ dropped' = dropped \cup (clients \ room)
  BY DEF SendChunk
<1>4. \A c \in room : Len(queue[c]) < QueueCap
  OBVIOUS
<1>5. dropped' \subseteq Clients
  BY <1>3 DEF TypeOK
<1> HIDE DEF room
<1>6. queue' \in [Clients -> Seq(1..MaxChunks)]
  BY <1>1, <1>3
<1>7. ASSUME NEW c \in Clients PROVE Len(queue'[c]) <= QueueCap
  <2>1. CASE c \in room
    BY <1>1, <1>2, <1>3, <1>4, <2>1
  <2>2. CASE c \notin room
    BY <1>1, <1>3, <2>2
  <2>3. QED
    BY <2>1, <2>2
<1>8. QED
  BY <1>5, <1>6, <1>7

\* The last chunk that was written can be broadcast.
LEMMA WrittenIsChunk ==
  ASSUME TypeOK, ReaderInv, reader = "sending"
  PROVE  n \in 1..MaxChunks
  BY CapsAssumption DEF TypeOK, ReaderInv

\* Types.
LEMMA TypeStep ==
  ASSUME TypeOK, OneLaunch, ReaderInv, [Next]_vars
  PROVE  TypeOK'
<1>1. claimed' \in BOOLEAN /\ decoding' \in 0..MaxClaims /\ launches' \in 0..MaxClaims
  BY ClaimsStep
<1>2. MaxChunks \in Nat /\ produced \in 0..MaxChunks /\ n \in 0..produced
  BY CapsAssumption DEF TypeOK
<1>3. CASE UNCHANGED <<ptyVars, bcastVars, clientVars, alive>>
  BY <1>1, <1>3 DEF TypeOK, ptyVars, bcastVars, clientVars
<1>4. CASE StartHarness \/ Output \/ EndHarness
  <2>1. /\ harness' \in {"none", "failed", "running", "exited"}
        /\ reader' \in {"off", "reading", "sending", "done"}
        /\ produced' \in 0..MaxChunks /\ n' \in 0..produced'
    BY <1>2, <1>4 DEF StartHarness, Output, EndHarness, TypeOK
  <2>2. UNCHANGED <<bcastVars, clientVars, alive>>
    BY <1>4 DEF StartHarness, Output, EndHarness
  <2>3. QED
    BY <1>1, <2>1, <2>2 DEF TypeOK, bcastVars, clientVars
<1>5. CASE ReadPty
  <2>1. /\ harness' = harness /\ produced' = produced /\ n' \in 0..produced
        /\ reader' \in {"off", "reading", "sending", "done"}
    BY <1>2, <1>5 DEF ReadPty, TypeOK
  <2>2. /\ clients' \subseteq Clients /\ shut' \subseteq Clients /\ closed' \in BOOLEAN
    BY <1>5 DEF ReadPty, CloseAll, bcastVars, TypeOK
  <2>3. /\ queue' \in [Clients -> Seq(1..MaxChunks)]
        /\ \A c \in Clients : Len(queue'[c]) <= QueueCap
        /\ dropped' \subseteq Clients
    <3>1. CASE reader = "sending" /\ SendChunk(n)
      BY <3>1, WrittenIsChunk, SendTyped
    <3>2. CASE UNCHANGED <<queue, dropped>>
      BY <3>2 DEF TypeOK
    <3>3. QED
      BY <1>5, <3>1, <3>2 DEF ReadPty, bcastVars
  <2>4. UNCHANGED <<clientVars, alive>>
    BY <1>5 DEF ReadPty
  <2>5. QED
    BY <1>1, <2>1, <2>2, <2>3, <2>4 DEF TypeOK, clientVars
<1>6. CASE Stop \/ Exit
  <2>1. stage' \in [Clients -> Stages] /\ alive' \in BOOLEAN
    BY <1>6 DEF Stop, Exit, Die, TypeOK, Stages
  <2>2. UNCHANGED <<ptyVars, bcastVars, replay, tail>>
    BY <1>6 DEF Stop, Exit
  <2>3. QED
    BY <1>1, <2>1, <2>2 DEF TypeOK, ptyVars, bcastVars
<1>7. ASSUME NEW c \in Clients, Connect(c) \/ GiveUpWaiting(c) \/ Subscribe(c) \/ Leave(c)
      PROVE  TypeOK'
  <2>1. stage' \in [Clients -> Stages] /\ clients' \subseteq Clients /\ shut' \subseteq Clients
    <3>1. PICK x \in Stages : stage' = [stage EXCEPT ![c] = x]
      BY <1>7 DEF Connect, GiveUpWaiting, Subscribe, Leave, Stages
    <3>2. stage' \in [Clients -> Stages]
      BY <3>1 DEF TypeOK
    <3>3. clients' \subseteq Clients /\ shut' \subseteq Clients
      BY <1>7 DEF Connect, GiveUpWaiting, Subscribe, Leave, bcastVars, TypeOK
    <3>4. QED
      BY <3>2, <3>3
  <2>2. UNCHANGED <<ptyVars, closed, queue, dropped, replay, tail, alive>>
    BY <1>7 DEF Connect, GiveUpWaiting, Subscribe, Leave, bcastVars
  <2>3. QED
    BY <1>1, <2>1, <2>2 DEF TypeOK, ptyVars
<1>8. ASSUME NEW c \in Clients, Replay(c)
      PROVE  TypeOK'
  <2>1. Scrollback \in [first : 1..MaxChunks + 1, last : 0..MaxChunks]
    BY <1>2, CapsAssumption DEF Scrollback
  <2>2. /\ stage' \in [Clients -> Stages]
        /\ replay' \in [Clients -> [first : 1..MaxChunks + 1, last : 0..MaxChunks]]
    BY <1>8, <2>1 DEF Replay, TypeOK, Stages
  <2>3. UNCHANGED <<ptyVars, bcastVars, tail, alive>>
    BY <1>8 DEF Replay
  <2>4. QED
    BY <1>1, <2>2, <2>3 DEF TypeOK, ptyVars, bcastVars
<1>9. ASSUME NEW c \in Clients, Forward(c)
      PROVE  TypeOK'
  <2>1. UNCHANGED <<ptyVars, clients, closed, shut, dropped, replay, alive>>
    BY <1>9 DEF Forward
  <2>2. stage' \in [Clients -> Stages]
    BY <1>9 DEF Forward, TypeOK, Stages
  <2>3. /\ queue' \in [Clients -> Seq(1..MaxChunks)] /\ tail' \in [Clients -> Seq(1..MaxChunks)]
        /\ \A d \in Clients : Len(queue'[d]) <= QueueCap
    <3>1. CASE queue[c] # <<>> /\ tail' = [tail EXCEPT ![c] = Append(@, Head(queue[c]))]
                               /\ queue' = [queue EXCEPT ![c] = Tail(@)]
      <4>1. queue[c] \in Seq(1..MaxChunks) /\ tail[c] \in Seq(1..MaxChunks) /\ Len(queue[c]) <= QueueCap
        BY DEF TypeOK
      <4>2. /\ Head(queue[c]) \in 1..MaxChunks
            /\ Tail(queue[c]) \in Seq(1..MaxChunks) /\ Len(Tail(queue[c])) = Len(queue[c]) - 1
            /\ Len(queue[c]) \in Nat
        BY <3>1, <4>1, HeadTailProperties, LenProperties
      <4>3. Append(tail[c], Head(queue[c])) \in Seq(1..MaxChunks)
        BY <4>1, <4>2, AppendProperties
      <4>4. Len(Tail(queue[c])) <= QueueCap
        BY <4>1, <4>2, CapsAssumption
      <4>5. QED
        BY <3>1, <4>2, <4>3, <4>4 DEF TypeOK
    <3>2. CASE UNCHANGED <<queue, tail>>
      BY <3>2 DEF TypeOK
    <3>3. QED
      BY <1>9, <3>1, <3>2 DEF Forward
  <2>4. QED
    BY <1>1, <2>1, <2>2, <2>3 DEF TypeOK, ptyVars
<1>10. CASE Claim \/ Decode
  BY <1>3, <1>10 DEF Claim, Decode
<1>11. CASE UNCHANGED vars
  BY <1>3, <1>11 DEF vars, ptyVars, bcastVars, clientVars
<1>12. QED
  BY <1>4, <1>5, <1>6, <1>7, <1>8, <1>9, <1>10, <1>11, Steps

\* The channels.
LEMMA ChannelStep ==
  ASSUME TypeOK, ReaderInv, RegisteredChannelsAreOpen, ChannelInv, [Next]_vars
  PROVE  ChannelInv' /\ RegisteredChannelsAreOpen'
<1>0. clients \subseteq Clients /\ shut \subseteq Clients
  BY DEF TypeOK
<1>1. CASE UNCHANGED <<bcastVars, clientVars>>
  BY <1>1 DEF ChannelInv, RegisteredChannelsAreOpen, bcastVars, clientVars
<1>2. CASE ReadPty
  <2>1. UNCHANGED clientVars
    BY <1>2 DEF ReadPty
  <2>2. CASE UNCHANGED bcastVars
    BY <1>1, <2>1, <2>2
  <2>3. CASE reader = "sending" /\ SendChunk(n) /\ UNCHANGED <<clients, closed, shut>>
    <3>1. \A c \in Clients \ clients : queue'[c] = queue[c]
      BY <2>3 DEF SendChunk
    <3>2. ~closed
      BY <2>3 DEF ReaderInv
    <3>3. QED
      BY <2>1, <2>3, <3>1, <3>2 DEF ChannelInv, RegisteredChannelsAreOpen, clientVars
  <2>4. CASE reader = "reading" /\ CloseAll /\ UNCHANGED <<queue, dropped>>
    <3>1. ~closed
      BY <2>4 DEF ReaderInv
    <3>2. QED
      BY <2>1, <2>4, <3>1 DEF CloseAll, ChannelInv, RegisteredChannelsAreOpen, clientVars
  <2>5. QED
    BY <1>2, <2>2, <2>3, <2>4 DEF ReadPty
<1>3. CASE Stop \/ Exit
  BY <1>3 DEF Stop, Exit, Die, Attached, ChannelInv, RegisteredChannelsAreOpen, bcastVars, TypeOK, Stages
<1>4. ASSUME NEW c \in Clients, Connect(c) \/ GiveUpWaiting(c)
      PROVE  ChannelInv' /\ RegisteredChannelsAreOpen'
  BY <1>4 DEF Connect, GiveUpWaiting, ChannelInv, RegisteredChannelsAreOpen, bcastVars, TypeOK
<1>5. ASSUME NEW c \in Clients, Subscribe(c)
      PROVE  ChannelInv' /\ RegisteredChannelsAreOpen'
  BY <1>0, <1>5 DEF Subscribe, ChannelInv, RegisteredChannelsAreOpen, TypeOK
<1>6. ASSUME NEW c \in Clients, Replay(c)
      PROVE  ChannelInv' /\ RegisteredChannelsAreOpen'
  BY <1>6 DEF Replay, ChannelInv, RegisteredChannelsAreOpen, bcastVars, TypeOK
<1>7. ASSUME NEW c \in Clients, Forward(c)
      PROVE  ChannelInv' /\ RegisteredChannelsAreOpen'
  BY <1>7 DEF Forward, ChannelInv, RegisteredChannelsAreOpen, TypeOK
<1>8. ASSUME NEW c \in Clients, Leave(c)
      PROVE  ChannelInv' /\ RegisteredChannelsAreOpen'
  BY <1>0, <1>8 DEF Leave, ChannelInv, RegisteredChannelsAreOpen, TypeOK
<1>9. CASE StartHarness \/ Output \/ EndHarness \/ Claim \/ Decode
  BY <1>1, <1>9 DEF StartHarness, Output, EndHarness, Claim, Decode
<1>10. CASE UNCHANGED vars
  BY <1>1, <1>10 DEF vars, bcastVars, clientVars
<1>11. QED
  BY <1>2, <1>3, <1>4, <1>5, <1>6, <1>7, <1>8, <1>9, <1>10, Steps

\* Sequences of chunks are sequences of integers, with a length.
LEMMA QueuesTyped ==
  ASSUME TypeOK, NEW c \in Clients
  PROVE  /\ queue[c] \in Seq(1..MaxChunks) /\ queue[c] \in Seq(Int) /\ Len(queue[c]) \in Nat
         /\ tail[c] \in Seq(1..MaxChunks) /\ tail[c] \in Seq(Int) /\ Len(tail[c]) \in Nat
<1>1. queue[c] \in Seq(1..MaxChunks) /\ tail[c] \in Seq(1..MaxChunks)
  BY DEF TypeOK
<1>2. ASSUME NEW s \in Seq(1..MaxChunks) PROVE s \in Seq(Int) /\ Len(s) \in Nat
  <2>1. \A i \in 1..Len(s) : s[i] \in Int
    BY CapsAssumption, ElementOfSeq
  <2>2. QED
    BY <2>1, LenProperties, SeqDef
<1>3. QED
  BY <1>1, <1>2

\* A chunk that is broadcast lengthens what each registered client will get.
LEMMA SendKeepsStream ==
  ASSUME TypeOK, ReaderInv, ChannelInv, StreamInv, reader = "sending", SendChunk(n),
         reader' = "reading", UNCHANGED <<n, clientVars>>
  PROVE  StreamInv'
<1>1. Sent = n - 1 /\ Sent' = n /\ n \in Int
  BY CapsAssumption DEF Sent, TypeOK
<1>2. SUFFICES ASSUME NEW c \in Clients \ dropped', stage[c] \in {"subscribed", "live", "ended"}
               PROVE  /\ Run(queue'[c], n)
                      /\ Run(tail[c], n - Len(queue'[c]))
                      /\ stage[c] # "subscribed" => replay[c].last + Len(tail[c]) + Len(queue'[c]) >= n
  BY <1>1 DEF StreamInv, clientVars
<1>3. ~closed /\ c \in clients
  BY <1>2 DEF ReaderInv, ChannelInv
<1>4. c \notin dropped /\ queue'[c] = Append(queue[c], n)
  BY <1>2, <1>3 DEF SendChunk
<1>5. /\ Run(queue[c], n - 1)
      /\ Run(tail[c], n - 1 - Len(queue[c]))
      /\ stage[c] # "subscribed" => replay[c].last + Len(tail[c]) + Len(queue[c]) >= n - 1
  BY <1>1, <1>2, <1>4 DEF StreamInv
<1>6. queue[c] \in Seq(Int) /\ Len(queue[c]) \in Nat /\ Len(tail[c]) \in Nat
  BY QueuesTyped
<1>7. Run(queue'[c], n)
  <2>1. (n - 1) + 1 = n /\ n - 1 \in Int
    BY <1>1
  <2>2. QED
    BY <1>4, <1>5, <1>6, <2>1, RunGrows
<1>8. Len(queue'[c]) = Len(queue[c]) + 1
  BY <1>1, <1>4, <1>6, AppendProperties
<1>9. n - Len(queue'[c]) = n - 1 - Len(queue[c])
  BY <1>1, <1>6, <1>8
<1>10. stage[c] # "subscribed" => replay[c].last + Len(tail[c]) + Len(queue'[c]) >= n
  <2>1. replay[c].last \in Int
    BY CapsAssumption DEF TypeOK
  <2>2. QED
    BY <1>1, <1>5, <1>6, <1>8, <2>1
<1>11. QED
  BY <1>5, <1>7, <1>9, <1>10

\* A chunk that is forwarded is the one after those that were.
LEMMA ForwardKeepsStream ==
  ASSUME TypeOK, StreamInv, NEW c \in Clients, Forward(c)
  PROVE  StreamInv'
<1>1. Sent' = Sent /\ Sent \in Int
  BY CapsAssumption DEF Forward, ptyVars, Sent, TypeOK
<1>2. dropped' = dropped /\ replay' = replay
  BY DEF Forward
<1>3. SUFFICES ASSUME NEW d \in Clients \ dropped, stage'[d] \in {"subscribed", "live", "ended"}
               PROVE  /\ Run(queue'[d], Sent)
                      /\ Run(tail'[d], Sent - Len(queue'[d]))
                      /\ stage'[d] # "subscribed" => replay[d].last + Len(tail'[d]) + Len(queue'[d]) >= Sent
  BY <1>1, <1>2 DEF StreamInv
<1>4. CASE d # c
  <2>1. stage'[d] = stage[d] /\ queue'[d] = queue[d] /\ tail'[d] = tail[d]
    BY <1>4 DEF Forward, TypeOK
  <2>2. QED
    BY <1>3, <2>1 DEF StreamInv
<1>5. CASE d = c /\ queue'[c] = queue[c] /\ tail'[c] = tail[c]
  <2>1. stage[c] = "live"
    BY DEF Forward
  <2>2. QED
    BY <1>3, <1>5, <2>1 DEF StreamInv
<1>6. CASE d = c /\ queue[c] # <<>> /\ queue'[c] = Tail(queue[c])
                 /\ tail'[c] = Append(tail[c], Head(queue[c]))
  <2>1. stage[c] = "live" /\ stage'[c] # "subscribed"
    BY <1>3, <1>6 DEF Forward, TypeOK
  <2>2. /\ queue[c] \in Seq(Int) /\ Len(queue[c]) \in Nat
        /\ tail[c] \in Seq(Int) /\ Len(tail[c]) \in Nat
    BY QueuesTyped
  <2>3. /\ Run(queue[c], Sent)
        /\ Run(tail[c], Sent - Len(queue[c]))
        /\ replay[c].last + Len(tail[c]) + Len(queue[c]) >= Sent
    BY <1>3, <1>6, <2>1 DEF StreamInv
  <2>4. /\ Len(queue[c]) > 0 /\ Len(queue'[c]) = Len(queue[c]) - 1
        /\ Head(queue[c]) = Sent - Len(queue[c]) + 1
        /\ Run(queue'[c], Sent)
    BY <1>1, <1>6, <2>2, <2>3, RunShrinks
  <2>5. Run(tail'[c], (Sent - Len(queue[c])) + 1)
    <3>1. Sent - Len(queue[c]) \in Int
      BY <1>1, <2>2
    <3>2. tail'[c] = Append(tail[c], (Sent - Len(queue[c])) + 1)
      BY <1>6, <2>4
    <3>3. QED
      BY <2>2, <2>3, <3>1, <3>2, RunGrows
  <2>6. (Sent - Len(queue[c])) + 1 = Sent - Len(queue'[c])
    BY <1>1, <2>2, <2>4
  <2>7. Head(queue[c]) \in Int
    BY <1>1, <2>2, <2>4
  <2>8. Len(tail'[c]) = Len(tail[c]) + 1
    BY <1>6, <2>2, <2>7, AppendProperties
  <2>9. replay[c].last + Len(tail'[c]) + Len(queue'[c]) >= Sent
    <3>1. replay[c].last \in Int
      BY CapsAssumption DEF TypeOK
    <3>2. QED
      BY <1>1, <2>2, <2>3, <2>4, <2>8, <3>1
  <2>10. QED
    BY <1>6, <2>4, <2>5, <2>6, <2>9
<1>7. \/ queue'[c] = queue[c] /\ tail'[c] = tail[c]
      \/ queue[c] # <<>> /\ queue'[c] = Tail(queue[c]) /\ tail'[c] = Append(tail[c], Head(queue[c]))
  BY DEF Forward, TypeOK
<1>8. QED
  BY <1>4, <1>5, <1>6, <1>7

\* The streams.
LEMMA StreamStep ==
  ASSUME TypeOK, ReaderInv, ChannelInv, StreamInv, [Next]_vars
  PROVE  StreamInv'
<1>0. n \in Nat /\ Sent \in Int /\ Sent <= n
  BY CapsAssumption DEF TypeOK, ReaderInv, Sent
<1>1. ASSUME Sent' = Sent, UNCHANGED <<queue, dropped, tail>>,
             \A c \in Clients : stage'[c] \in {"subscribed", "live", "ended"} =>
                                  stage'[c] = stage[c] /\ replay'[c] = replay[c]
      PROVE  StreamInv'
  BY <1>1 DEF StreamInv
<1>2. CASE ReadPty
  <2>1. CASE reader = "sending" /\ SendChunk(n) /\ reader' = "reading" /\ n' = n
    BY <1>2, <2>1, SendKeepsStream DEF ReadPty
  <2>2. CASE Sent' = Sent /\ UNCHANGED <<queue, dropped>>
    BY <1>1, <1>2, <2>2 DEF ReadPty, clientVars
  <2>3. \/ reader = "sending" /\ SendChunk(n) /\ reader' = "reading" /\ n' = n
        \/ Sent' = Sent /\ UNCHANGED <<queue, dropped>>
    BY <1>0, <1>2 DEF ReadPty, CloseAll, bcastVars, Sent
  <2>4. QED
    BY <2>1, <2>2, <2>3
<1>3. CASE Stop \/ Exit
  BY <1>1, <1>3 DEF Stop, Exit, Die, Attached, Sent, ptyVars, bcastVars, TypeOK, Stages
<1>4. ASSUME NEW c \in Clients, Connect(c) \/ GiveUpWaiting(c) \/ Leave(c)
      PROVE  StreamInv'
  BY <1>1, <1>4 DEF Connect, GiveUpWaiting, Leave, Sent, ptyVars, bcastVars, TypeOK
<1>5. ASSUME NEW c \in Clients, Subscribe(c)
      PROVE  StreamInv'
  <2>1. Sent' = Sent /\ UNCHANGED <<queue, dropped, tail, replay>>
    BY <1>5 DEF Subscribe, Sent, ptyVars
  <2>2. stage'[c] = "subscribed" /\ \A d \in Clients \ {c} : stage'[d] = stage[d]
    BY <1>5 DEF Subscribe, TypeOK
  <2>3. queue[c] = <<>> /\ tail[c] = <<>>
    BY <1>5 DEF Subscribe, ChannelInv
  <2>4. Run(<<>>, Sent) /\ Run(<<>>, Sent - Len(<<>>))
    BY DEF Run
  <2>5. QED
    BY <2>1, <2>2, <2>3, <2>4 DEF StreamInv
<1>6. ASSUME NEW c \in Clients, Replay(c)
      PROVE  StreamInv'
  <2>1. Sent' = Sent /\ UNCHANGED <<queue, dropped, tail>>
    BY <1>6 DEF Replay, Sent, ptyVars, bcastVars
  <2>2. \A d \in Clients \ {c} : stage'[d] = stage[d] /\ replay'[d] = replay[d]
    BY <1>6 DEF Replay, TypeOK
  <2>3. stage[c] = "subscribed" /\ stage'[c] = "live" /\ replay'[c].last = n
    BY <1>6 DEF Replay, Scrollback, TypeOK
  <2>4. Len(queue[c]) \in Nat /\ Len(tail[c]) \in Nat
    BY QueuesTyped
  <2>5. replay'[c].last + Len(tail[c]) + Len(queue[c]) >= Sent
    <3>1. ASSUME NEW p \in Nat, NEW q \in Nat PROVE n + p + q >= Sent
      BY <1>0
    <3>2. QED
      BY <2>3, <2>4, <3>1
  <2>6. QED
    BY <2>1, <2>2, <2>3, <2>5 DEF StreamInv
<1>7. ASSUME NEW c \in Clients, Forward(c)
      PROVE  StreamInv'
  BY <1>7, ForwardKeepsStream
<1>8. CASE StartHarness
  BY <1>1, <1>8 DEF StartHarness, ReaderInv, Started, Sent, bcastVars, clientVars
<1>9. CASE Output \/ EndHarness \/ Claim \/ Decode
  BY <1>1, <1>9 DEF Output, EndHarness, Claim, Decode, Sent, ptyVars, bcastVars, clientVars
<1>10. CASE UNCHANGED vars
  BY <1>1, <1>10 DEF vars, Sent
<1>11. QED
  BY <1>2, <1>3, <1>4, <1>5, <1>6, <1>7, <1>8, <1>9, <1>10, Steps

\* The supervisor keeps its invariant through every order of claims, output,
\* clients and exits.
THEOREM TerminalInvariance == Spec => []IInv
<1>1. IInv /\ [Next]_vars => IInv'
  BY ClaimsStep, TypeStep, ReaderStep, ChannelStep, StreamStep DEF IInv
<1>2. QED
  BY TerminalInit, <1>1, PTL DEF Spec

\* Types, of whatever the harness, the clients and the claims do.
THEOREM TerminalTypes == Spec => []TypeOK
  BY TerminalInvariance, PTL DEF IInv

\* The reader never sends on a closed channel and closes none twice.
THEOREM ChannelsStayOpen == Spec => []RegisteredChannelsAreOpen
  BY TerminalInvariance, PTL DEF IInv

\* A pod launches one session at most, and stays claimed only by a launch.
THEOREM LaunchesOnce == Spec => []OneLaunch
  BY TerminalInvariance, PTL DEF IInv

\* The claims and the end of the process are the steps of a pod, nothing else is.
LEMMA PodStep ==
  ASSUME TypeOK, OneLaunch, [Next]_vars
  PROVE  [Promised!Next]_(Promised!vars)
<1>1. ASSUME UNCHANGED <<launches, alive>>
      PROVE  UNCHANGED Promised!vars
  BY <1>1 DEF Promised!vars, phaseOf, accepts
<1>2. CASE Decode
  <2>1. alive /\ alive' /\ (launches' = launches + 1 \/ launches' = launches)
    BY <1>2 DEF Decode
  <2>2. CASE launches' = launches
    BY <1>1, <2>1, <2>2 DEF TypeOK
  <2>3. CASE launches' = launches + 1
    <3>1. launches = 0 /\ launches' = 1
      BY <1>2, <2>3, CapsAssumption DEF Decode, OneLaunch, TypeOK
    <3>2. phaseOf["this"] = "free" /\ phaseOf' = [phaseOf EXCEPT !["this"] = "taken"]
      BY <2>1, <3>1 DEF phaseOf
    <3>3. accepts["this"] = 0 /\ accepts' = [accepts EXCEPT !["this"] = accepts["this"] + 1]
      BY <3>1 DEF accepts
    <3>4. Promised!Take("this")
      BY <3>2, <3>3 DEF Promised!Take
    <3>5. QED
      BY <3>4 DEF Promised!Next
  <2>4. QED
    BY <2>1, <2>2, <2>3
<1>3. CASE Stop \/ Exit
  <2>1. alive /\ ~alive' /\ launches' = launches
    BY <1>3 DEF Stop, Exit, Die, claimVars
  <2>2. phaseOf["this"] # "over" /\ phaseOf' = [phaseOf EXCEPT !["this"] = "over"]
    BY <2>1 DEF phaseOf
  <2>3. Promised!End("this")
    BY <2>1, <2>2 DEF Promised!End, accepts
  <2>4. QED
    BY <2>3 DEF Promised!Next
<1>4. CASE Claim \/ StartHarness \/ Output \/ EndHarness \/ ReadPty \/ UNCHANGED vars
  BY <1>1, <1>4 DEF Claim, StartHarness, Output, EndHarness, ReadPty, claimVars, vars
<1>5. ASSUME NEW c \in Clients, \/ Connect(c) \/ GiveUpWaiting(c) \/ Subscribe(c)
                                \/ Replay(c) \/ Forward(c) \/ Leave(c)
      PROVE  UNCHANGED Promised!vars
  BY <1>1, <1>5 DEF Connect, GiveUpWaiting, Subscribe, Replay, Forward, Leave, claimVars
<1>6. QED
  BY <1>2, <1>3, <1>4, <1>5, Steps

LEMMA InitPod == Init => Promised!Init
  BY DEF Init, Promised!Init, phaseOf, accepts

\* The supervisor takes one claim in its life and none after its end: what the control
\* plane takes a pod to do is what it does.
THEOREM SupervisorIsAPod == Spec => IsAPod
<1>1. IInv /\ [Next]_vars => [Promised!Next]_(Promised!vars)
  BY PodStep DEF IInv
<1>2. QED
  BY <1>1, InitPod, TerminalInvariance, PTL DEF Spec, IsAPod, Promised!Spec

-----------------------------------------------------------------------------
(* The scrollback: one that keeps LastBytes' promise is all that is needed.  *)

\* What a scrollback of size keeps after m chunks.
LastChunks(m, size) == Span([first |-> IF m > size THEN m - size + 1 ELSE 1, last |-> m])

\* One more chunk pushes the oldest out of a full one.
LEMMA OneMoreChunk ==
  ASSUME NEW size \in Nat \ {0}, NEW m \in Nat, NEW s, s = LastChunks(m, size) \o <<m + 1>>
  PROVE  LastChunks(m + 1, size) =
           IF Len(s) <= size THEN s ELSE SubSeq(s, Len(s) - size + 1, Len(s))
<1> DEFINE f == IF m > size THEN m - size + 1 ELSE 1
           g == IF m + 1 > size THEN m + 2 - size ELSE 1
           l == m + 1 - f
<1>1. /\ f \in Nat /\ g \in Nat /\ l \in Nat
      /\ m < size => g = f /\ l + 1 <= size /\ m + 2 - g = l + 1
      /\ m >= size => g = f + 1 /\ l = size /\ m + 2 - g = size
      /\ f + l = m + 1
  OBVIOUS
<1>2. LastChunks(m, size) = [i \in 1..l |-> f - 1 + i]
  BY DEF LastChunks, Span
<1>3. LastChunks(m + 1, size) = [i \in 1..m + 2 - g |-> g - 1 + i]
  BY DEF LastChunks, Span
<1> HIDE DEF f, g, l
<1>4. LastChunks(m, size) \in Seq(Int) /\ Len(LastChunks(m, size)) = l
  BY <1>1, <1>2
<1>5. Len(s) = l + 1 /\ \A i \in 1..l + 1 : s[i] = f - 1 + i
  <2>1. Len(s) = l + 1 /\ \A i \in 1..l + 1 : s[i] = IF i <= l THEN LastChunks(m, size)[i] ELSE m + 1
    BY <1>1, <1>4
  <2>2. QED
    BY <1>1, <1>2, <2>1
<1>6. s \in Seq(Int)
  BY <1>4
<1>7. CASE m < size
  <2>1. s = [i \in 1..l + 1 |-> f - 1 + i]
    BY <1>1, <1>5, <1>6
  <2>2. QED
    BY <1>1, <1>3, <1>5, <1>7, <2>1
<1>8. CASE m >= size
  <2>1. SubSeq(s, 2, size + 1) = [i \in 1..size |-> s[i + 1]]
    BY <1>1, <1>5, <1>6, <1>8
  <2>2. \A i \in 1..size : s[i + 1] = g - 1 + i
    BY <1>1, <1>5, <1>8
  <2>3. Len(s) - size + 1 = 2 /\ Len(s) = size + 1
    <3>1. Len(s) = size + 1
      BY <1>1, <1>5, <1>8
    <3>2. QED
      BY <3>1
  <2>4. SubSeq(s, Len(s) - size + 1, Len(s)) = SubSeq(s, 2, size + 1)
    BY <2>3, Zenon
  <2>5. LastChunks(m + 1, size) = [i \in 1..size |-> s[i + 1]]
    BY <1>1, <1>3, <1>8, <2>2
  <2>6. ~(Len(s) <= size)
    BY <1>1, <1>5, <1>8
  <2>7. QED
    BY <2>1, <2>4, <2>5, <2>6, Zenon
<1>9. QED
  BY <1>7, <1>8

\* The reader's write is the promise's, a replay is its read, and nothing else is
\* either.
LEMMA RingStep ==
  ASSUME TypeOK, [Next]_vars, NEW c \in Clients
  PROVE  [ToReader(c)!Next]_(ToReader(c)!vars)
<1>0. ScrollCap \in Nat \ {0} /\ MaxChunks \in Nat /\ n \in Nat /\ produced \in 0..MaxChunks
  BY CapsAssumption DEF TypeOK
<1>1. ASSUME UNCHANGED <<n, replay>>
      PROVE  UNCHANGED ToReader(c)!vars
  BY <1>1 DEF ToReader!vars, Scrollback, Span
<1>2. CASE ReadPty
  <2>1. UNCHANGED replay /\ (n' = n \/ (n' = n + 1 /\ n < produced))
    BY <1>2 DEF ReadPty, clientVars
  <2>2. CASE n' = n + 1 /\ n < produced
    <3>1. <<n + 1>> \in ToReader(c)!Chunks
      <4>1. n + 1 \in 1..MaxChunks
        BY <1>0, <2>2
      <4>2. <<n + 1>> \in [1..1 -> 1..MaxChunks]
        BY <4>1
      <4>3. QED
        BY <4>2 DEF ToReader!Chunks
    <3>2. Span(Scrollback) = LastChunks(n, ScrollCap) /\ Span(Scrollback)' = LastChunks(n + 1, ScrollCap)
      BY <2>2 DEF Scrollback, LastChunks, Span
    <3>3. Span(Scrollback)' = ToReader(c)!LastOf(Span(Scrollback) \o <<n + 1>>)
      BY <1>0, <3>2, OneMoreChunk DEF ToReader!LastOf
    <3>4. n' = n + Len(<<n + 1>>) /\ Span(replay[c])' = Span(replay[c])
      BY <1>0, <2>1, <2>2 DEF Span
    <3>5. ToReader(c)!Write(<<n + 1>>)
      BY <3>3, <3>4 DEF ToReader!Write
    <3>6. QED
      BY <3>1, <3>5 DEF ToReader!Next
  <2>3. QED
    BY <1>1, <2>1, <2>2
<1>3. ASSUME NEW d \in Clients, Replay(d)
      PROVE  [ToReader(c)!Next]_(ToReader(c)!vars)
  <2>1. n' = n /\ replay' = [replay EXCEPT ![d] = Scrollback]
    BY <1>3 DEF Replay, ptyVars
  <2>2. CASE d = c
    <3>1. Span(replay[c])' = Span(Scrollback) /\ Span(Scrollback)' = Span(Scrollback)
      BY <2>1, <2>2 DEF TypeOK, Span, Scrollback
    <3>2. QED
      BY <2>1, <3>1 DEF ToReader!Next, ToReader!Read
  <2>3. CASE d # c
    BY <2>1, <2>3 DEF ToReader!vars, Span, Scrollback, TypeOK
  <2>4. QED
    BY <2>2, <2>3
<1>4. CASE Claim \/ Decode \/ Stop \/ StartHarness \/ Output \/ EndHarness \/ Exit \/ UNCHANGED vars
  BY <1>1, <1>4 DEF Claim, Decode, Stop, StartHarness, Output, EndHarness, Exit, ptyVars, clientVars, vars
<1>5. ASSUME NEW d \in Clients, Connect(d) \/ GiveUpWaiting(d) \/ Subscribe(d) \/ Forward(d) \/ Leave(d)
      PROVE  UNCHANGED ToReader(c)!vars
  BY <1>1, <1>5 DEF Connect, GiveUpWaiting, Subscribe, Forward, Leave, ptyVars
<1>6. QED
  BY <1>2, <1>3, <1>4, <1>5, Steps

LEMMA InitReaders == Init => \A c \in Clients : ToReader(c)!Init
<1> SUFFICES ASSUME Init, NEW c \in Clients PROVE ToReader(c)!Init
  OBVIOUS
<1>1. Span(Scrollback) = <<>> /\ Span(replay[c]) = <<>> /\ n = 0
  BY CapsAssumption DEF Init, Scrollback, Span, NoReplay
<1>2. QED
  BY <1>1 DEF ToReader!Init

\* Every client is replayed the last chunks of all that was written, in order: what
\* LastBytes promises, which ScrollbackRing implements byte by byte, is enough.
THEOREM RepliesAreLastBytes == Spec => RepliesComeFromTheRing
<1>1. TypeOK /\ [Next]_vars => [\A c \in Clients : [ToReader(c)!Next]_(ToReader(c)!vars)]_vars
  BY RingStep
<1>2. QED
  BY <1>1, InitReaders, TerminalTypes, PTL DEF Spec, RepliesComeFromTheRing

-----------------------------------------------------------------------------
(* What a client gets.                                                     *)

\* The last chunk sent is an integer.
LEMMA SentTyped ==
  ASSUME TypeOK, ReaderInv
  PROVE  Sent \in Nat
  BY CapsAssumption DEF TypeOK, ReaderInv, Sent

\* A run cut in two is a run.
LEMMA RunsJoin ==
  ASSUME NEW s \in Seq(Int), NEW t \in Seq(Int), NEW last \in Int,
         Run(t, last), Run(s, last - Len(t))
  PROVE  /\ s \o t \in Seq(Int) /\ Len(s \o t) = Len(s) + Len(t)
         /\ Run(s \o t, last)
<1>1. /\ Len(s \o t) = Len(s) + Len(t) /\ Len(s) \in Nat /\ Len(t) \in Nat
      /\ s \o t \in Seq(Int)
      /\ \A i \in 1..Len(s) + Len(t) : (s \o t)[i] = IF i <= Len(s) THEN s[i] ELSE t[i - Len(s)]
  BY ConcatProperties, LenProperties
<1>2. SUFFICES ASSUME NEW i \in 1..Len(s) + Len(t)
               PROVE  (s \o t)[i] = last - (Len(s) + Len(t)) + i
  BY <1>1 DEF Run
<1>3. CASE i <= Len(s)
  <2>1. s[i] = last - Len(t) - Len(s) + i
    BY <1>1, <1>3 DEF Run
  <2>2. QED
    BY <1>1, <1>3, <2>1
<1>4. CASE ~(i <= Len(s))
  <2>1. i - Len(s) \in 1..Len(t)
    BY <1>1, <1>4
  <2>2. t[i - Len(s)] = last - Len(t) + (i - Len(s))
    BY <2>1 DEF Run
  <2>3. QED
    BY <1>1, <1>4, <2>2
<1>5. QED
  BY <1>3, <1>4

\* A run that is long enough meets what was replayed: first chunks of it.
LEMMA RunReaches ==
  ASSUME NEW s \in Seq(Int), NEW upto \in Int, NEW first \in Int, Run(s, upto), first + Len(s) >= upto
  PROVE  /\ \A i \in 1..Len(s) - 1 : s[i + 1] = s[i] + 1
         /\ IF s = <<>> THEN first >= upto ELSE s[1] <= first + 1 /\ s[Len(s)] = upto
<1>1. Len(s) \in Nat /\ (s # <<>> => Len(s) > 0) /\ (s = <<>> => Len(s) = 0)
  BY EmptySeq, LenProperties
<1>2. \A i \in 1..Len(s) : s[i] = upto - Len(s) + i
  BY DEF Run
<1>3. ASSUME NEW i \in 1..Len(s) - 1 PROVE s[i + 1] = s[i] + 1
  <2>1. i \in 1..Len(s) /\ i + 1 \in 1..Len(s)
    BY <1>1
  <2>2. s[i] = upto - Len(s) + i /\ s[i + 1] = upto - Len(s) + (i + 1)
    BY <1>2, <2>1
  <2>3. QED
    BY <1>1, <2>2
<1>4. CASE s = <<>>
  BY <1>1, <1>3, <1>4
<1>5. CASE s # <<>>
  BY <1>1, <1>2, <1>3, <1>5
<1>6. QED
  BY <1>4, <1>5

\* A client that keeps up misses nothing.
LEMMA KeepsUp == IInv => NothingIsMissed
<1>1. ASSUME IInv, NEW c \in Clients \ dropped, stage[c] \in {"live", "ended"}
      PROVE  UpToDate(c)
  <2>1. TypeOK /\ ReaderInv /\ ChannelInv /\ StreamInv
    BY <1>1 DEF IInv
  <2>2. Sent \in Int /\ replay[c].last \in Int
    BY <2>1, SentTyped, CapsAssumption DEF TypeOK
  <2>3. tail[c] \in Seq(Int) /\ queue[c] \in Seq(Int) /\ Len(tail[c]) \in Nat /\ Len(queue[c]) \in Nat
    BY <2>1, QueuesTyped
  <2>4. /\ Run(queue[c], Sent) /\ Run(tail[c], Sent - Len(queue[c]))
        /\ replay[c].last + Len(tail[c]) + Len(queue[c]) >= Sent
    BY <1>1, <2>1 DEF StreamInv
  <2>5. ASSUME NEW s \in Seq(Int), Run(s, Sent), replay[c].last + Len(s) >= Sent
        PROVE  /\ \A i \in 1..Len(s) - 1 : s[i + 1] = s[i] + 1
               /\ IF s = <<>> THEN replay[c].last >= Sent
                              ELSE s[1] <= replay[c].last + 1 /\ s[Len(s)] = Sent
    BY <2>2, <2>5, RunReaches
  <2>6. CASE stage[c] = "ended"
    <3>1. Len(queue[c]) = 0
      BY <1>1, <2>1, <2>6, EmptySeq DEF ChannelInv
    <3>2. Run(tail[c], Sent) /\ replay[c].last + Len(tail[c]) >= Sent
      <4>1. Sent - Len(queue[c]) = Sent
        BY <2>2, <3>1
      <4>2. replay[c].last + Len(tail[c]) >= Sent
        BY <2>2, <2>3, <2>4, <3>1
      <4>3. QED
        BY <2>4, <4>1, <4>2
    <3>3. QED
      BY <2>3, <2>5, <2>6, <3>2 DEF UpToDate
  <2>7. CASE stage[c] # "ended"
    <3>1. /\ tail[c] \o queue[c] \in Seq(Int) /\ Run(tail[c] \o queue[c], Sent)
          /\ Len(tail[c] \o queue[c]) = Len(tail[c]) + Len(queue[c])
      BY <2>2, <2>3, <2>4, RunsJoin
    <3>2. replay[c].last + Len(tail[c] \o queue[c]) >= Sent
      <4>1. ASSUME NEW m \in Int, NEW r \in Int, NEW p \in Nat, NEW q \in Nat, r + p + q >= m
            PROVE  r + (p + q) >= m
        BY <4>1
      <4>2. QED
        BY <2>2, <2>3, <2>4, <3>1, <4>1
    <3>3. QED
      BY <2>5, <2>7, <3>1, <3>2 DEF UpToDate
  <2>8. QED
    BY <2>6, <2>7
<1>2. QED
  BY <1>1 DEF NothingIsMissed

\* "Subscribe before replaying so we don't miss live output between the two": nothing is.
THEOREM MissesNothing == Spec => []NothingIsMissed
  BY TerminalInvariance, KeepsUp, PTL

-----------------------------------------------------------------------------
(* The tunnel.                                                             *)

\* The steps of the tunnel, by what they do to the supervisor.
LEMMA TunnelSteps ==
  ASSUME [TunnelNext]_allVars
  PROVE  \/ Supervisor /\ UNCHANGED tunnelVars
         \/ \E c \in Clients :
              \/ Accept(c) \/ Dial(c) \/ Reset(c) \/ PodReadFails(c) \/ ClientFails(c)
              \/ PodWriteFails(c) \/ CloseBoth(c) \/ ProxyDies(c)
              \/ Deliver(c) \/ Type(c) \/ ClientLeaves(c)
              \/ ReadKeys(c) \/ WriteKeys(c)
         \/ HarnessReads
         \/ \E c \in Clients :
              \/ (GiveUpWaiting(c) \/ Subscribe(c)) /\ UNCHANGED tunnelVars
              \/ TunnelReplay(c) \/ TunnelForward(c) \/ TunnelLeave(c) \/ ReadTooLong(c)
         \/ UNCHANGED allVars
  BY DEF TunnelNext, Supervisor, Handler

\* Every step with the tunnel is one without it, or none.
LEMMA TunnelRefines == [TunnelNext]_allVars => [Next]_vars
<1> SUFFICES ASSUME [TunnelNext]_allVars PROVE [Next]_vars
  OBVIOUS
<1>1. CASE Supervisor
  BY <1>1 DEF Supervisor, Next
<1>2. ASSUME NEW c \in Clients,
             \/ Accept(c) \/ Dial(c) \/ Reset(c) \/ PodReadFails(c) \/ ClientFails(c)
             \/ PodWriteFails(c) \/ CloseBoth(c) \/ ProxyDies(c)
             \/ Deliver(c) \/ Type(c) \/ ClientLeaves(c)
             \/ ReadKeys(c) \/ WriteKeys(c)
      PROVE  Connect(c) \/ UNCHANGED vars
  BY <1>2 DEF Accept, Dial, Reset, PodReadFails, ClientFails, PodWriteFails, CloseBoth,
              ProxyDies, Close, Return, Deliver, Type, ClientLeaves, ReadKeys, WriteKeys
<1>3. ASSUME NEW c \in Clients,
             \/ (GiveUpWaiting(c) \/ Subscribe(c)) /\ UNCHANGED tunnelVars
             \/ TunnelReplay(c) \/ TunnelForward(c) \/ TunnelLeave(c) \/ ReadTooLong(c)
      PROVE  GiveUpWaiting(c) \/ Subscribe(c) \/ Replay(c) \/ Forward(c) \/ Leave(c)
  BY <1>3 DEF TunnelReplay, TunnelForward, TunnelLeave, ReadTooLong
<1>4. CASE HarnessReads
  BY <1>4 DEF HarnessReads
<1>5. CASE UNCHANGED allVars
  BY <1>5 DEF allVars
<1>6. QED
  BY <1>1, <1>2, <1>3, <1>4, <1>5, TunnelSteps DEF Next

\* What the pod wrote for a client grows with its tail, and is a number.
LEMMA WrittenTyped ==
  ASSUME TypeOK, NEW c \in Clients
  PROVE  Written(c) \in Nat
<1>1. Len(tail[c]) \in Nat
  BY QueuesTyped
<1>2. ASSUME NEW k \in {0, 1} PROVE Len(tail[c]) + k \in Nat
  BY <1>1
<1>3. QED
  BY <1>2 DEF Written

\* It is what it was when the handler has written nothing.
LEMMA WrittenStays ==
  ASSUME UNCHANGED <<replay, tail>>
  PROVE  \A c \in Clients : Written(c)' = Written(c)
  BY DEF Written

\* Types of the tunnel.
LEMMA TunnelTypeStep ==
  ASSUME TunnelTypeOK, [TunnelNext]_allVars
  PROVE  TunnelTypeOK'
<1>0. KeysCap \in Nat \ {0} /\ PtyCap \in Nat \ {0}
  BY WiresAssumption
<1>1. CASE UNCHANGED tunnelVars
  BY <1>1 DEF tunnelVars, TunnelTypeOK
<1>2. ASSUME NEW c \in Clients, Accept(c) \/ Dial(c)
      PROVE  TunnelTypeOK'
  BY <1>2 DEF Accept, Dial, TunnelTypeOK
<1>3. ASSUME NEW c \in Clients,
             PodReadFails(c) \/ ClientFails(c) \/ PodWriteFails(c) \/ CloseBoth(c) \/ ProxyDies(c)
      PROVE  TunnelTypeOK'
  BY <1>3 DEF PodReadFails, ClientFails, PodWriteFails, CloseBoth, ProxyDies, Close, Return,
              TunnelTypeOK
<1>4. ASSUME NEW c \in Clients, Deliver(c) \/ ClientLeaves(c)
      PROVE  TunnelTypeOK'
  BY <1>4 DEF Deliver, ClientLeaves, TunnelTypeOK
<1>5. ASSUME NEW c \in Clients, Type(c) \/ TunnelReplay(c) \/ ReadKeys(c) \/ ReadTooLong(c)
      PROVE  TunnelTypeOK'
  <2>1. keys' \in [Clients -> 0..KeysCap]
    BY <1>0, <1>5 DEF Type, TunnelReplay, ReadKeys, ReadTooLong, TunnelTypeOK
  <2>2. writing' \subseteq Clients /\ UNCHANGED <<link, got, told, gone, typed>>
    BY <1>5 DEF Type, TunnelReplay, ReadKeys, ReadTooLong, TunnelTypeOK
  <2>3. QED
    BY <2>1, <2>2 DEF TunnelTypeOK
<1>6. ASSUME NEW c \in Clients, WriteKeys(c) \/ HarnessReads
      PROVE  TunnelTypeOK'
  <2>1. typed' \in 0..PtyCap
    BY <1>0, <1>6 DEF WriteKeys, HarnessReads, TunnelTypeOK
  <2>2. writing' \subseteq Clients /\ UNCHANGED <<link, got, told, gone, keys>>
    BY <1>6 DEF WriteKeys, HarnessReads, TunnelTypeOK
  <2>3. QED
    BY <2>1, <2>2 DEF TunnelTypeOK
<1>7. CASE HarnessReads
  BY <1>0, <1>7 DEF HarnessReads, TunnelTypeOK
<1>8. ASSUME NEW c \in Clients, TunnelForward(c) \/ TunnelLeave(c)
      PROVE  UNCHANGED tunnelVars
  BY <1>8 DEF TunnelForward, TunnelLeave
<1>9. ASSUME NEW c \in Clients, Reset(c)
      PROVE  TunnelTypeOK'
  <2>1. keys[c] \in 0..KeysCap
    BY DEF TunnelTypeOK
  <2>2. keys' \in [Clients -> 0..KeysCap]
    <3>1. PICK left \in 0..keys[c] : keys' = [keys EXCEPT ![c] = left]
      BY <1>9 DEF Reset
    <3>2. left \in 0..KeysCap
      BY <1>0, <2>1
    <3>3. QED
      BY <3>1, <3>2 DEF TunnelTypeOK
  <2>3. QED
    BY <1>9, <2>2 DEF Reset, TunnelTypeOK
<1>10. CASE UNCHANGED allVars
  BY <1>1, <1>10 DEF allVars
<1>11. QED
  BY <1>1, <1>2, <1>3, <1>4, <1>5, <1>6, <1>7, <1>8, <1>9, <1>10, TunnelSteps

\* Where the client, its tunnel and the pod's handler stand.
LEMMA LinkStep ==
  ASSUME IInv, TunnelTypeOK, LinkInv, [TunnelNext]_allVars
  PROVE  LinkInv'
<1>0. TypeOK /\ ChannelInv
  BY DEF IInv
<1>1. \A c \in Clients : got[c] \in Nat /\ Written(c) \in Nat
  BY <1>0, WrittenTyped DEF TunnelTypeOK
<1>2. ASSUME UNCHANGED <<link, told, got, writing, replay, tail>>,
             \A c \in Clients : stage'[c] = stage[c] \/ (stage[c] \in Attached /\ stage'[c] = "cut")
      PROVE  LinkInv'
  BY <1>2, WrittenStays DEF LinkInv, Attached
<1>3. CASE Supervisor /\ UNCHANGED tunnelVars
  <2>1. UNCHANGED <<link, told, got, writing>>
    BY <1>3 DEF tunnelVars
  <2>2. UNCHANGED <<replay, tail>>
    BY <1>3 DEF Supervisor, Claim, Decode, Stop, StartHarness, Output, EndHarness, ReadPty, Exit, clientVars
  <2>3. CASE Stop \/ Exit
    BY <1>0, <1>2, <2>1, <2>2, <2>3 DEF Stop, Exit, Die, TypeOK
  <2>4. CASE Claim \/ Decode \/ StartHarness \/ Output \/ EndHarness \/ ReadPty
    BY <1>2, <2>1, <2>2, <2>4 DEF Claim, Decode, StartHarness, Output, EndHarness, ReadPty, clientVars
  <2>5. QED
    BY <1>3, <2>3, <2>4 DEF Supervisor
<1>4. ASSUME NEW c \in Clients, Accept(c) \/ Dial(c)
      PROVE  LinkInv'
  <2>1. UNCHANGED <<got, writing, replay, tail>>
    BY <1>4 DEF Accept, Dial, Connect, vars
  <2>2. /\ link[c] \in {"none", "dialing"} /\ link'[c] \in {"dialing", "open", "closed"}
        /\ stage'[c] = IF link'[c] = "open" THEN "waiting" ELSE stage[c]
        /\ told'[c] # told[c] => link'[c] = "closed"
    BY <1>0, <1>4 DEF Accept, Dial, Connect, vars, TunnelTypeOK, TypeOK
  <2>3. \A d \in Clients \ {c} : stage'[d] = stage[d] /\ link'[d] = link[d] /\ told'[d] = told[d]
    BY <1>0, <1>4 DEF Accept, Dial, Connect, vars, TunnelTypeOK, TypeOK
  <2>4. QED
    BY <2>1, <2>2, <2>3, WrittenStays DEF LinkInv
<1>5. ASSUME NEW c \in Clients,
             \/ Reset(c) \/ PodReadFails(c) \/ ClientFails(c) \/ PodWriteFails(c)
             \/ CloseBoth(c) \/ ProxyDies(c)
      PROVE  LinkInv'
  <2>1. CASE PodReadFails(c) \/ CloseBoth(c) \/ ProxyDies(c)
    <3>1. /\ link' = [link EXCEPT ![c] = "closed"]
          /\ \A d \in Clients \ {c} : told'[d] = told[d]
          /\ UNCHANGED <<got, writing, stage, replay, tail>>
      BY <2>1 DEF PodReadFails, CloseBoth, ProxyDies, Close, vars, TunnelTypeOK
    <3>2. QED
      BY <3>1, WrittenStays DEF LinkInv, TunnelTypeOK
  <2>2. CASE Reset(c) \/ ClientFails(c) \/ PodWriteFails(c)
    <3>1. /\ link[c] \in {"open", "broken"}
          /\ \/ link' = [link EXCEPT ![c] = "broken"]
             \/ link' = [link EXCEPT ![c] = "closing"]
          /\ UNCHANGED <<told, got, writing, stage, replay, tail>>
      BY <2>2 DEF Reset, ClientFails, PodWriteFails, Return, vars
    <3>2. QED
      BY <3>1, WrittenStays DEF LinkInv, TunnelTypeOK
  <2>3. QED
    BY <1>5, <2>1, <2>2
<1>6. ASSUME NEW c \in Clients, Deliver(c)
      PROVE  LinkInv'
  <2>1. got' = [got EXCEPT ![c] = @ + 1] /\ got[c] < Written(c)
    BY <1>6 DEF Deliver
  <2>2. UNCHANGED <<link, told, writing, stage, replay, tail>>
    BY <1>6 DEF Deliver, vars
  <2>3. \A d \in Clients : Written(d)' = Written(d)
    BY <2>2, WrittenStays
  <2>4. \A d \in Clients : got'[d] <= Written(d)
    BY <1>1, <2>1 DEF LinkInv, TunnelTypeOK
  <2>5. QED
    BY <2>2, <2>3, <2>4 DEF LinkInv
<1>7. ASSUME NEW c \in Clients, ReadKeys(c) \/ WriteKeys(c)
      PROVE  LinkInv'
  <2>1. UNCHANGED <<link, told, got, stage, replay, tail>>
    BY <1>7 DEF ReadKeys, WriteKeys, vars
  <2>2. \A d \in writing' : d \in writing \/ stage[d] = "live"
    BY <1>7 DEF ReadKeys, WriteKeys
  <2>3. QED
    BY <2>1, <2>2, WrittenStays DEF LinkInv
<1>8. CASE HarnessReads
  BY <1>8, <1>2 DEF HarnessReads, vars
<1>9. ASSUME NEW c \in Clients, Type(c) \/ ClientLeaves(c)
      PROVE  LinkInv'
  BY <1>9, <1>2 DEF Type, ClientLeaves, vars
<1>10. ASSUME NEW c \in Clients, (GiveUpWaiting(c) \/ Subscribe(c)) /\ UNCHANGED tunnelVars
       PROVE  LinkInv'
  <2>1. UNCHANGED <<link, told, got, writing, replay, tail>>
    BY <1>10 DEF GiveUpWaiting, Subscribe, tunnelVars
  <2>2. stage[c] = "waiting" /\ stage'[c] \in {"refused", "subscribed"}
    BY <1>0, <1>10 DEF GiveUpWaiting, Subscribe, TypeOK
  <2>3. \A d \in Clients \ {c} : stage'[d] = stage[d]
    BY <1>0, <1>10 DEF GiveUpWaiting, Subscribe, TypeOK
  <2>4. QED
    BY <2>1, <2>2, <2>3, WrittenStays DEF LinkInv
<1>11. ASSUME NEW c \in Clients, TunnelReplay(c)
       PROVE  LinkInv'
  <2>1. UNCHANGED <<link, told, got, writing, tail>>
    BY <1>11 DEF TunnelReplay, Replay
  <2>2. stage[c] = "subscribed" /\ stage'[c] = "live"
    BY <1>0, <1>11 DEF TunnelReplay, Replay, TypeOK
  <2>3. \A d \in Clients \ {c} : stage'[d] = stage[d] /\ replay'[d] = replay[d]
    BY <1>0, <1>11 DEF TunnelReplay, Replay, TypeOK
  <2>4. tail[c] = <<>> /\ replay[c] = NoReplay
    BY <1>0, <2>2 DEF ChannelInv
  <2>5. got'[c] <= Written(c)'
    <3>1. Written(c) = 0
      BY <2>4 DEF Written, NoReplay
    <3>2. Written(c)' \in Nat
      BY <2>1, <2>4 DEF Written
    <3>3. got[c] <= Written(c)
      BY DEF LinkInv
    <3>4. QED
      BY <1>1, <2>1, <3>1, <3>2, <3>3
  <2>6. \A d \in Clients \ {c} : Written(d)' = Written(d)
    BY <2>1, <2>3 DEF Written
  <2>7. QED
    BY <2>1, <2>2, <2>3, <2>5, <2>6 DEF LinkInv
<1>12. ASSUME NEW c \in Clients, TunnelForward(c)
       PROVE  LinkInv'
  <2>1. UNCHANGED <<link, told, got, writing, replay>>
    BY <1>12 DEF TunnelForward, Forward, tunnelVars
  <2>2. stage[c] = "live" /\ stage'[c] \in {"live", "ended"}
    BY <1>0, <1>12 DEF TunnelForward, Forward, TypeOK
  <2>3. \A d \in Clients \ {c} : stage'[d] = stage[d] /\ tail'[d] = tail[d]
    BY <1>0, <1>12 DEF TunnelForward, Forward, TypeOK
  <2>4. Len(tail'[c]) \in {Len(tail[c]), Len(tail[c]) + 1} /\ Len(tail[c]) \in Nat
    <3>1. tail[c] \in Seq(1..MaxChunks) /\ queue[c] \in Seq(1..MaxChunks) /\ Len(tail[c]) \in Nat
      BY <1>0, QueuesTyped
    <3>2. queue[c] # <<>> => Head(queue[c]) \in 1..MaxChunks
      BY <3>1, HeadTailProperties
    <3>3. QED
      BY <1>0, <1>12, <3>1, <3>2, AppendProperties DEF TunnelForward, Forward, TypeOK
  <2>5. got'[c] <= Written(c)'
    <3>1. PICK k \in {0, 1} : Written(c) = Len(tail[c]) + k /\ Written(c)' = Len(tail'[c]) + k
      BY <2>1 DEF Written
    <3>2. got'[c] <= Len(tail[c]) + k /\ got'[c] \in Nat
      BY <1>1, <2>1, <3>1 DEF LinkInv
    <3>3. QED
      BY <2>4, <3>1, <3>2
  <2>6. \A d \in Clients \ {c} : Written(d)' = Written(d)
    BY <2>1, <2>3 DEF Written
  <2>7. QED
    BY <2>1, <2>2, <2>3, <2>5, <2>6 DEF LinkInv
<1>13. ASSUME NEW c \in Clients, TunnelLeave(c) \/ ReadTooLong(c)
       PROVE  LinkInv'
  <2>1. UNCHANGED <<link, told, got, writing, replay, tail>>
    BY <1>13 DEF TunnelLeave, ReadTooLong, Leave, tunnelVars
  <2>2. stage[c] # "new" /\ c \notin writing /\ stage'[c] = "left"
    BY <1>0, <1>13 DEF TunnelLeave, ReadTooLong, Leave, TypeOK
  <2>3. \A d \in Clients \ {c} : stage'[d] = stage[d]
    BY <1>0, <1>13 DEF TunnelLeave, ReadTooLong, Leave, TypeOK
  <2>4. QED
    BY <2>1, <2>2, <2>3, WrittenStays DEF LinkInv
<1>14. CASE UNCHANGED allVars
  BY <1>2, <1>14 DEF allVars, tunnelVars, vars
<1>15. QED
  BY <1>3, <1>4, <1>5, <1>6, <1>7, <1>8, <1>9, <1>10, <1>11, <1>12, <1>13, <1>14, TunnelSteps

\* A tunnel is open from the pod's accept to the end of its handler, and no client
\* has more than the pod wrote for it.
THEOREM TunnelInvariance == TunnelSpec => []TunnelInv
<1>1. TunnelInit => TunnelInv
  <2>1. TunnelInit => IInv
    BY TerminalInit DEF TunnelInit
  <2>2. TunnelInit => TunnelTypeOK
    BY WiresAssumption DEF TunnelInit, TunnelTypeOK
  <2>3. TunnelInit => LinkInv
    BY DEF TunnelInit, Init, LinkInv, Written, NoReplay
  <2>4. QED
    BY <2>1, <2>2, <2>3 DEF TunnelInv
<1>2. TunnelInv /\ [TunnelNext]_allVars => TunnelInv'
  <2>1. IInv /\ [Next]_vars => IInv'
    BY ClaimsStep, TypeStep, ReaderStep, ChannelStep, StreamStep DEF IInv
  <2>2. QED
    BY <2>1, TunnelRefines, TunnelTypeStep, LinkStep DEF TunnelInv
<1>3. QED
  BY <1>1, <1>2, PTL DEF TunnelSpec

\* With the proxy and its clients around it, the pod takes the steps of Terminal only, so
\* that what holds of it alone holds here.
THEOREM TunnelsAreTerminals ==
    TunnelSpec => /\ Init /\ [][Next]_vars
                  /\ []NothingIsMissed /\ []RegisteredChannelsAreOpen /\ []OneLaunch
                  /\ IsAPod /\ RepliesComeFromTheRing
<1>1. TunnelInit => Init
  BY DEF TunnelInit
<1>2. TunnelInv => NothingIsMissed /\ RegisteredChannelsAreOpen /\ OneLaunch
  BY KeepsUp DEF TunnelInv, IInv
<1>3. TunnelInv /\ [TunnelNext]_allVars => [Promised!Next]_(Promised!vars)
  BY TunnelRefines, PodStep DEF TunnelInv, IInv
<1>4. TunnelInv /\ [TunnelNext]_allVars =>
        [\A c \in Clients : [ToReader(c)!Next]_(ToReader(c)!vars)]_vars
  BY TunnelRefines, RingStep DEF TunnelInv, IInv
<1>5. QED
  BY <1>1, <1>2, <1>3, <1>4, InitPod, InitReaders, TunnelRefines, TunnelInvariance, PTL
     DEF TunnelSpec, IsAPod, Promised!Spec, RepliesComeFromTheRing

\* A client whose handler has ended, and which has all that was written for it,
\* has all that the harness printed from its replay on.
LEMMA AllIsSeen ==
  ASSUME IInv, NEW c \in Clients, stage[c] = "ended", c \notin dropped, got[c] = Written(c)
  PROVE  harness = "exited" /\ replay[c].first..produced \subseteq Seen(c)
<1>1. TypeOK /\ ReaderInv /\ ChannelInv /\ StreamInv
  BY DEF IInv
<1>2. harness = "exited" /\ Sent = produced /\ produced \in Int
  BY <1>1, CapsAssumption DEF TypeOK, ReaderInv, ChannelInv, Sent
<1>3. /\ tail[c] \in Seq(Int) /\ Len(tail[c]) \in Nat /\ Len(queue[c]) = 0
      /\ replay[c].first \in Int /\ replay[c].last \in Int
  BY <1>1, QueuesTyped, EmptySeq, CapsAssumption DEF ChannelInv, TypeOK
<1>4. Run(tail[c], produced) /\ replay[c].last + Len(tail[c]) >= produced
  <2>1. /\ Run(tail[c], produced - Len(queue[c]))
        /\ replay[c].last + Len(tail[c]) + Len(queue[c]) >= produced
    BY <1>1, <1>2 DEF StreamInv
  <2>2. produced - Len(queue[c]) = produced
    BY <1>2, <1>3
  <2>3. replay[c].last + Len(tail[c]) >= produced
    BY <1>2, <1>3, <2>1
  <2>4. QED
    BY <2>1, <2>2, <2>3
<1>5. SUFFICES ASSUME NEW k \in Int, replay[c].first <= k, k <= produced
               PROVE  k \in Seen(c)
  BY <1>2, <1>3
<1>6. k \in Int /\ replay[c].first <= k /\ k <= produced
  BY <1>5
<1> DEFINE first == replay[c].first..replay[c].last
           m == IF first = {} THEN 0 ELSE 1
<1>7. (first = {} <=> replay[c].last < replay[c].first) /\ (k \in first <=> k <= replay[c].last)
  BY <1>3, <1>6
<1>8. m \in {0, 1} /\ got[c] = Len(tail[c]) + m
  BY <1>7 DEF Written
<1>9. (m = 0 => first = {}) /\ Seen(c) = IF got[c] = 0 THEN {} ELSE first \cup {tail[c][i] : i \in 1..got[c] - m}
  BY DEF Seen
<1> HIDE DEF m, first
<1>10. CASE k \in first
  <2>1. got[c] # 0
    BY <1>3, <1>8, <1>9, <1>10
  <2>2. QED
    BY <1>9, <1>10, <2>1
<1>11. CASE k \notin first
  <2>1. replay[c].last < k
    BY <1>3, <1>6, <1>7, <1>11
  <2>2. PICK i \in 1..Len(tail[c]) : produced - Len(tail[c]) + i = k
    <3>1. PICK r \in Int : r < k /\ r + Len(tail[c]) >= produced
      BY <1>3, <1>4, <2>1, Zenon
    <3>2. k - produced + Len(tail[c]) \in 1..Len(tail[c])
      BY <1>2, <1>3, <1>6, <3>1
    <3>3. produced - Len(tail[c]) + (k - produced + Len(tail[c])) = k
      <4>1. ASSUME NEW p \in Int, NEW l \in Int, NEW q \in Int PROVE p - l + (q - p + l) = q
        OBVIOUS
      <4>2. produced \in Int /\ Len(tail[c]) \in Int /\ k \in Int
        BY <1>2, <1>3, <1>6
      <4>3. QED
        BY <4>1, <4>2, Zenon
    <3>4. QED
      BY <3>2, <3>3, Zenon
  <2>3. tail[c][i] = k
    BY <1>4, <2>2 DEF Run
  <2>4. got[c] # 0 /\ got[c] - m = Len(tail[c])
    BY <1>3, <1>8, <2>2
  <2>5. QED
    BY <1>9, <2>2, <2>3, <2>4
<1>12. QED
  BY <1>10, <1>11

\* As long as the pod is there, its connection holds and the proxy's main loop
\* copies, a client is told that its session has ended only when it has the whole of
\* it from its replay on.
THEOREM EndComesLast == TunnelSpec => TheEndComesLast
<1> DEFINE Told(c) == told[c] = "nothing" /\ told'[c] = "ended" /\ alive =>
                        \/ link[c] \in {"broken", "closing"}
                        \/ stage[c] \in {"refused", "left"} \/ c \in dropped
                        \/ harness = "exited" /\ replay[c].first..produced \subseteq Seen(c)
<1>1. ASSUME TunnelInv, [TunnelNext]_allVars, NEW c \in Clients
      PROVE  Told(c)
  <2>1. SUFFICES ASSUME told[c] = "nothing", told'[c] = "ended", alive,
                        link[c] \notin {"broken", "closing"},
                        stage[c] \notin {"refused", "left"}, c \notin dropped
                 PROVE  harness = "exited" /\ replay[c].first..produced \subseteq Seen(c)
    OBVIOUS
  <2>2. stage[c] = "ended" /\ got[c] = Written(c)
    <3>1. ASSUME NEW d \in Clients,
                 \/ Accept(d) \/ Dial(d) \/ Reset(d) \/ ClientFails(d) \/ PodWriteFails(d)
                 \/ CloseBoth(d) \/ ProxyDies(d) \/ Deliver(d) \/ Type(d) \/ ClientLeaves(d)
                 \/ ReadKeys(d) \/ WriteKeys(d) \/ ReadTooLong(d)
          PROVE  FALSE
      BY <1>1, <2>1, <3>1 DEF Accept, Dial, Reset, ClientFails, PodWriteFails, CloseBoth, ProxyDies,
                              Close, Return, Deliver, Type, ClientLeaves, ReadKeys, WriteKeys,
                              ReadTooLong, TunnelInv, TunnelTypeOK
    <3>2. ASSUME NEW d \in Clients, PodReadFails(d)
          PROVE  d = c /\ stage[d] = "ended" /\ got[d] = Written(d)
      BY <1>1, <2>1, <3>2 DEF PodReadFails, Close, TunnelInv, TunnelTypeOK
    <3>3. ASSUME NEW d \in Clients,
                 \/ (GiveUpWaiting(d) \/ Subscribe(d)) /\ UNCHANGED tunnelVars
                 \/ TunnelReplay(d) \/ TunnelForward(d) \/ TunnelLeave(d)
          PROVE  FALSE
      BY <2>1, <3>3 DEF TunnelReplay, TunnelForward, TunnelLeave, tunnelVars
    <3>4. CASE HarnessReads \/ UNCHANGED tunnelVars \/ UNCHANGED allVars
      BY <2>1, <3>4 DEF HarnessReads, tunnelVars, allVars
    <3>5. QED
      BY <1>1, <3>1, <3>2, <3>3, <3>4, TunnelSteps
  <2>3. IInv
    BY <1>1 DEF TunnelInv
  <2>4. QED
    BY <2>1, <2>2, <2>3, AllIsSeen
<1>2. TunnelInv /\ [TunnelNext]_allVars => [\A c \in Clients : Told(c)]_allVars
  BY <1>1
<1>3. QED
  BY <1>2, TunnelInvariance, PTL DEF TunnelSpec, TheEndComesLast
=============================================================================
