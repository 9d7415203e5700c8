------------------------ MODULE ScrollbackRingProofs ------------------------
(* The ring gives its readers the last Size bytes written, for every size    *)
(* of the ring and of the writes.                                            *)
EXTENDS ScrollbackRing, SequenceTheorems, TLAPS

\* The position wraps at the end of the buffer.
LEMMA Wraps ==
  ASSUME NEW p \in 0..Size - 1
  PROVE  (p + 1) % Size = IF p + 1 = Size THEN 0 ELSE p + 1
  BY SizeAssumption, Z3

\* What one read of the PTY returns is a sequence of bytes.
LEMMA ChunksAreSequences == \A p \in Chunks : p \in Seq(Byte)
  BY WriteAssumption, SeqDef DEF Chunks

\* A function on 1..k is a sequence of length k.
LEMMA FunctionIsSequence ==
  ASSUME NEW k \in Nat, NEW f \in [1..k -> Byte]
  PROVE  f \in Seq(Byte) /\ Len(f) = k
<1>1. f \in Seq(Byte)
  BY SeqDef
<1>2. Len(f) \in Nat /\ 1..Len(f) = 1..k
  BY <1>1, LenProperties
<1>3. Len(f) = k
  <2>1. CASE k = 0
    BY <1>2, <2>1
  <2>2. CASE k > 0
    <3>1. k \in 1..Len(f) /\ (Len(f) > 0 => Len(f) \in 1..k)
      BY <1>2, <2>2
    <3>2. QED
      BY <1>2, <3>1
  <2>3. QED
    BY <2>1, <2>2
<1>4. QED
  BY <1>1, <1>3

\* What a snapshot returns, byte by byte, before and after the ring wraps.
ReadsBack ==
    /\ Contents \in Seq(Byte)
    /\ Len(Contents) = IF n <= Size THEN n ELSE Size
    /\ n <= Size => \A i \in 1..n : Contents[i] = buf[i - 1]
    /\ n > Size => \A i \in 1..Size : Contents[i] =
         IF i <= Size - pos THEN buf[pos + i - 1] ELSE buf[i - (Size - pos) - 1]

\* In a sound ring, snapshot's two copies read back what the slots hold.
LEMMA ContentsTyped ==
  IInv => ReadsBack
<1> SUFFICES ASSUME IInv PROVE ReadsBack
  OBVIOUS
<1> USE SizeAssumption DEF IInv, TypeOK, FilledFromStart, ReadsBack
<1>1. CASE n <= Size
  <2> DEFINE c == [i \in 1..n |-> buf[i - 1]]
  <2>1. Contents = c
    BY <1>1 DEF Contents
  <2>2. c \in [1..n -> Byte]
    BY <1>1
  <2>3. c \in Seq(Byte) /\ Len(c) = n
    BY <2>2, FunctionIsSequence
  <2>4. \A i \in 1..n : c[i] = buf[i - 1]
    OBVIOUS
  <2> HIDE DEF c
  <2>5. QED
    BY <1>1, <2>1, <2>3, <2>4
<1>2. CASE n > Size
  <2> DEFINE c == [i \in 1..Size |-> IF i <= Size - pos THEN buf[pos + i - 1]
                                                        ELSE buf[i - (Size - pos) - 1]]
  <2>1. Contents = c
    BY <1>2 DEF Contents
  <2>2. c \in [1..Size -> Byte]
    BY <1>2
  <2>3. c \in Seq(Byte) /\ Len(c) = Size
    BY <2>2, FunctionIsSequence
  <2>4. \A i \in 1..Size : c[i] =
          IF i <= Size - pos THEN buf[pos + i - 1] ELSE buf[i - (Size - pos) - 1]
    OBVIOUS
  <2> HIDE DEF c
  <2>5. QED
    BY <1>2, <2>1, <2>3, <2>4
<1>3. QED
  BY <1>1, <1>2

\* The empty ring is sound.
LEMMA InitIInv == Init => IInv
  BY SizeAssumption DEF Init, IInv, TypeOK, FilledFromStart

\* Every step of a write or of a snapshot keeps the ring sound.
LEMMA IInvStep == IInv /\ [Next]_vars => IInv'
<1> SUFFICES ASSUME IInv, [Next]_vars PROVE IInv'
  OBVIOUS
<1> USE SizeAssumption DEF IInv, TypeOK, FilledFromStart
<1>1. ASSUME NEW p \in Chunks, BeginWrite(p) PROVE IInv'
  BY <1>1, ChunksAreSequences DEF BeginWrite
<1>2. ASSUME StoreByte PROVE IInv'
  <2>1. Head(pending) \in Byte /\ Tail(pending) \in Seq(Byte)
    BY <1>2 DEF StoreByte
  <2>2. pos' = IF pos + 1 = Size THEN 0 ELSE pos + 1
    BY <1>2, Wraps DEF StoreByte
  <2>3. QED
    BY <1>2, <2>1, <2>2 DEF StoreByte
<1>3. ASSUME TakeSnapshot PROVE IInv'
  BY <1>3, ContentsTyped DEF TakeSnapshot, ReadsBack
<1>4. CASE UNCHANGED vars
  BY <1>4 DEF vars
<1>5. QED
  BY <1>1, <1>2, <1>3, <1>4 DEF Next

\* The ring's position and filling are sound in every reachable state.
THEOREM RingIsSound == Spec => []IInv
  BY InitIInv, IInvStep, PTL DEF Spec

-----------------------------------------------------------------------------
(* The last Size bytes of a sequence, and what the ring does to them.        *)

\* The last Size bytes of s are s's own, at the same distance from its end.
LEMMA LastOfProperties ==
  ASSUME NEW s \in Seq(Byte)
  PROVE  /\ LastOf(s) \in Seq(Byte)
         /\ Len(LastOf(s)) = IF Len(s) <= Size THEN Len(s) ELSE Size
         /\ \A i \in 1..Len(LastOf(s)) : LastOf(s)[i] = s[i + (Len(s) - Len(LastOf(s)))]
<1> USE SizeAssumption
<1>0. Len(s) \in Nat
  BY LenProperties
<1>1. CASE Len(s) <= Size
  BY <1>0, <1>1 DEF LastOf
<1>2. CASE Len(s) > Size
  <2> DEFINE m == Len(s) - Size + 1
  <2>1. m \in 1..Len(s) /\ \A i \in m..Len(s) : s[i] \in Byte
    BY <1>0, <1>2, ElementOfSeq
  <2>2. /\ SubSeq(s, m, Len(s)) \in Seq(Byte)
        /\ Len(SubSeq(s, m, Len(s))) = IF m <= Len(s) THEN Len(s) - m + 1 ELSE 0
        /\ \A i \in 1..Len(s) - m + 1 : SubSeq(s, m, Len(s))[i] = s[m + i - 1]
    BY <1>0, <2>1, SubSeqProperties
  <2>3. LastOf(s) = SubSeq(s, m, Len(s))
    BY <1>0, <1>2 DEF LastOf
  <2>4. Len(s) - m + 1 = Size /\ \A i \in 1..Size : m + i - 1 = i + (Len(s) - Size)
    BY <1>0, <1>2
  <2> HIDE DEF m
  <2>5. QED
    BY <1>0, <1>2, <2>1, <2>2, <2>3, <2>4
<1>3. QED
  BY <1>0, <1>1, <1>2

\* Bytes that are dropped early would be dropped late.
LEMMA LastOfConcat ==
  ASSUME NEW s \in Seq(Byte), NEW t \in Seq(Byte)
  PROVE  LastOf(LastOf(s) \o t) = LastOf(s \o t)
<1> USE SizeAssumption
<1> DEFINE l == LastOf(s)
           x == l \o t
           y == s \o t
<1>1. Len(s) \in Nat /\ Len(t) \in Nat
  BY LenProperties
<1>2. /\ l \in Seq(Byte)
      /\ Len(l) = IF Len(s) <= Size THEN Len(s) ELSE Size
      /\ \A i \in 1..Len(l) : l[i] = s[i + (Len(s) - Len(l))]
  BY LastOfProperties
<1> HIDE DEF l
<1>3. /\ x \in Seq(Byte)
      /\ Len(x) = Len(l) + Len(t)
      /\ \A i \in 1..Len(l) + Len(t) : x[i] = IF i <= Len(l) THEN l[i] ELSE t[i - Len(l)]
  BY <1>2, ConcatProperties
<1>4. /\ y \in Seq(Byte)
      /\ Len(y) = Len(s) + Len(t)
      /\ \A i \in 1..Len(s) + Len(t) : y[i] = IF i <= Len(s) THEN s[i] ELSE t[i - Len(s)]
  BY ConcatProperties
<1> HIDE DEF x, y
<1>5. /\ LastOf(x) \in Seq(Byte)
      /\ Len(LastOf(x)) = IF Len(x) <= Size THEN Len(x) ELSE Size
      /\ \A i \in 1..Len(LastOf(x)) : LastOf(x)[i] = x[i + (Len(x) - Len(LastOf(x)))]
  BY <1>3, LastOfProperties
<1>6. /\ LastOf(y) \in Seq(Byte)
      /\ Len(LastOf(y)) = IF Len(y) <= Size THEN Len(y) ELSE Size
      /\ \A i \in 1..Len(LastOf(y)) : LastOf(y)[i] = y[i + (Len(y) - Len(LastOf(y)))]
  BY <1>4, LastOfProperties
<1>7. Len(LastOf(x)) = Len(LastOf(y))
  BY <1>1, <1>2, <1>3, <1>4, <1>5, <1>6
<1>8. ASSUME NEW i \in 1..Len(LastOf(x)) PROVE LastOf(x)[i] = LastOf(y)[i]
  <2> DEFINE j == i + (Len(x) - Len(LastOf(x)))
             k == i + (Len(y) - Len(LastOf(x)))
  <2>1. LastOf(x)[i] = x[j] /\ LastOf(y)[i] = y[k]
    BY <1>5, <1>6, <1>7
  <2>a. /\ Len(l) = IF Len(s) <= Size THEN Len(s) ELSE Size
        /\ Len(x) = Len(l) + Len(t) /\ Len(y) = Len(s) + Len(t)
        /\ Len(LastOf(x)) = IF Len(x) <= Size THEN Len(x) ELSE Size
    BY <1>2, <1>3, <1>4, <1>5
  <2>b. Len(l) \in Nat /\ Len(x) \in Nat /\ Len(y) \in Nat /\ Len(LastOf(x)) \in Nat
    BY <1>2, <1>3, <1>4, <1>5, LenProperties
  <2>2. /\ j \in 1..Len(l) + Len(t) /\ k \in 1..Len(s) + Len(t)
        /\ j <= Len(l) => j \in 1..Len(l) /\ k \in 1..Len(s) /\ k = j + (Len(s) - Len(l))
        /\ ~(j <= Len(l)) => ~(k <= Len(s)) /\ k - Len(s) = j - Len(l)
    <3>1. j = i + (Len(x) - Len(LastOf(x))) /\ k = i + (Len(y) - Len(LastOf(x)))
      OBVIOUS
    <3> HIDE DEF j, k
    <3>2. QED
      <4>1. i \in Nat /\ j \in Int /\ k \in Int /\ i >= 1 /\ i <= Len(LastOf(x))
        BY <1>1, <2>b, <3>1
      <4>2. CASE Len(s) <= Size /\ Len(x) <= Size
        BY <1>1, <2>a, <2>b, <3>1, <4>1, <4>2
      <4>3. CASE Len(s) <= Size /\ ~(Len(x) <= Size)
        BY <1>1, <2>a, <2>b, <3>1, <4>1, <4>3
      <4>4. CASE ~(Len(s) <= Size) /\ ~(Len(x) <= Size)
        BY <1>1, <2>a, <2>b, <3>1, <4>1, <4>4
      <4>5. CASE ~(Len(s) <= Size) /\ Len(x) <= Size
        BY <1>1, <2>a, <2>b, <3>1, <4>1, <4>5
      <4>6. QED
        BY <4>2, <4>3, <4>4, <4>5
  <2> HIDE DEF j, k
  <2>3. CASE j <= Len(l)
    <3>1. x[j] = l[j] /\ l[j] = s[j + (Len(s) - Len(l))]
      BY <1>2, <1>3, <2>2, <2>3
    <3>2. y[k] = s[k]
      BY <1>4, <2>2, <2>3
    <3>3. QED
      BY <2>1, <2>2, <2>3, <3>1, <3>2
  <2>4. CASE ~(j <= Len(l))
    <3>1. x[j] = t[j - Len(l)] /\ y[k] = t[k - Len(s)]
      BY <1>3, <1>4, <2>2, <2>4
    <3>2. QED
      BY <2>1, <2>2, <2>4, <3>1
  <2>5. QED
    BY <2>3, <2>4
<1>9. LastOf(x) = LastOf(y)
  BY <1>5, <1>6, <1>7, <1>8, SeqEqual
<1>10. QED
  BY <1>9 DEF x, y, l

\* Storing a byte appends it to what a reader gets, and drops the oldest byte
\* once the ring is full.
LEMMA StoreAppends ==
  ASSUME IInv, IInv', StoreByte
  PROVE  Contents' = LastOf(Contents \o <<Head(pending)>>)
<1> USE SizeAssumption
<1> DEFINE h == Head(pending)
           y == Contents \o <<h>>
<1>1. h \in Byte
  BY DEF StoreByte, IInv, TypeOK
<1>2. /\ n \in Nat /\ pos \in 0..Size - 1 /\ buf \in [0..Size - 1 -> Byte]
      /\ n < Size => pos = n
      /\ n = Size => pos = 0
  BY DEF IInv, TypeOK, FilledFromStart
<1>3. /\ n' = n + 1
      /\ pos' = IF pos + 1 = Size THEN 0 ELSE pos + 1
      /\ buf' = [buf EXCEPT ![pos] = h]
  BY <1>2, Wraps DEF StoreByte
<1>4. <<h>> \in Seq(Byte) /\ Len(<<h>>) = 1 /\ <<h>>[1] = h
  BY <1>1
<1> HIDE DEF h
<1>5. /\ Contents \in Seq(Byte)
      /\ Len(Contents) = IF n <= Size THEN n ELSE Size
      /\ n <= Size => \A i \in 1..n : Contents[i] = buf[i - 1]
      /\ n > Size => \A i \in 1..Size : Contents[i] =
           IF i <= Size - pos THEN buf[pos + i - 1] ELSE buf[i - (Size - pos) - 1]
  BY ContentsTyped DEF ReadsBack
<1>6. /\ Contents' \in Seq(Byte)
      /\ Len(Contents') = IF n' <= Size THEN n' ELSE Size
      /\ n' <= Size => \A i \in 1..n' : Contents'[i] = buf'[i - 1]
      /\ n' > Size => \A i \in 1..Size : Contents'[i] =
           IF i <= Size - pos' THEN buf'[pos' + i - 1] ELSE buf'[i - (Size - pos') - 1]
  <2>1. ReadsBack'
    BY ContentsTyped, PTL
  <2>2. QED
    BY <2>1 DEF ReadsBack
<1>7. /\ y \in Seq(Byte)
      /\ Len(y) = Len(Contents) + 1
      /\ \A i \in 1..Len(Contents) + 1 : y[i] = IF i <= Len(Contents) THEN Contents[i] ELSE h
  BY <1>4, <1>5, ConcatProperties
<1> HIDE DEF y
<1>8. /\ LastOf(y) \in Seq(Byte)
      /\ Len(LastOf(y)) = IF Len(y) <= Size THEN Len(y) ELSE Size
      /\ \A i \in 1..Len(LastOf(y)) : LastOf(y)[i] = y[i + (Len(y) - Len(LastOf(y)))]
  BY <1>7, LastOfProperties
<1>9. CASE n < Size
  <2>1. Len(Contents) = n /\ Len(y) = n + 1 /\ Len(LastOf(y)) = n + 1 /\ Len(Contents') = n + 1
    BY <1>2, <1>3, <1>5, <1>6, <1>7, <1>8, <1>9
  <2>2. ASSUME NEW i \in 1..n + 1 PROVE Contents'[i] = LastOf(y)[i]
    <3>1. LastOf(y)[i] = y[i]
      <4>1. i \in 1..Len(LastOf(y))
        BY <2>1
      <4>2. i + (Len(y) - Len(LastOf(y))) = i
        BY <1>2, <2>1
      <4>3. LastOf(y)[i] = y[i + (Len(y) - Len(LastOf(y)))]
        BY <1>8, <4>1
      <4>4. QED
        BY <4>2, <4>3
    <3>2. y[i] = IF i <= n THEN Contents[i] ELSE h
      BY <1>7, <2>1
    <3>3. Contents'[i] = buf'[i - 1]
      BY <1>2, <1>3, <1>6, <1>9
    <3>4. CASE i = n + 1
      BY <1>2, <1>3, <1>9, <3>1, <3>2, <3>3, <3>4
    <3>5. CASE i \in 1..n
      <4>1. Contents[i] = buf[i - 1]
        BY <1>2, <1>5, <1>9, <3>5
      <4>2. buf'[i - 1] = buf[i - 1]
        BY <1>2, <1>3, <1>9, <3>5
      <4>3. QED
        BY <1>2, <3>1, <3>2, <3>3, <3>5, <4>1, <4>2
    <3>6. QED
      BY <1>2, <3>4, <3>5
  <2>3. QED
    BY <1>6, <1>8, <2>1, <2>2, SeqEqual DEF y, h
<1>10. CASE n >= Size
  <2>1. /\ Len(Contents) = Size /\ Len(y) = Size + 1
        /\ Len(LastOf(y)) = Size /\ Len(Contents') = Size
    BY <1>2, <1>3, <1>5, <1>6, <1>7, <1>8, <1>10
  <2>2. ASSUME NEW i \in 1..Size PROVE Contents'[i] = LastOf(y)[i]
    <3>1. LastOf(y)[i] = y[i + 1]
      BY <1>8, <2>1
    <3>2. y[i + 1] = IF i + 1 <= Size THEN Contents[i + 1] ELSE h
      BY <1>7, <2>1
    <3>3. \A q \in 1..Size : Contents[q] =
            IF q <= Size - pos THEN buf[pos + q - 1] ELSE buf[q - (Size - pos) - 1]
      BY <1>2, <1>5, <1>10
    <3>4. Contents'[i] =
            IF i <= Size - pos' THEN buf'[pos' + i - 1] ELSE buf'[i - (Size - pos') - 1]
      BY <1>2, <1>3, <1>6, <1>10
    <3>5. CASE i = Size
      BY <1>2, <1>3, <3>1, <3>2, <3>4, <3>5
    <3>6. CASE i < Size
      BY <1>2, <1>3, <3>1, <3>2, <3>3, <3>4, <3>6
    <3>7. QED
      BY <3>5, <3>6
  <2>3. QED
    BY <1>6, <1>8, <2>1, <2>2, SeqEqual DEF y, h
<1>11. QED
  BY <1>2, <1>9, <1>10

\* With no write under way a reader gets exactly what was promised.
LEMMA KeptWhenIdle == IInv /\ pending = <<>> => keptBytes = Contents
<1> SUFFICES ASSUME IInv, pending = <<>> PROVE LastOf(Contents) = Contents
  BY ContentsTyped, ConcatEmptySeq DEF keptBytes, ReadsBack
<1>1. Len(Contents) <= Size
  BY ContentsTyped, SizeAssumption DEF IInv, TypeOK, ReadsBack
<1>2. QED
  BY <1>1 DEF LastOf

\* A write takes effect when it takes the mutex; storing its bytes one by one
\* changes nothing a reader was promised.
LEMMA LastBytesStep ==
  ASSUME IInv, IInv', [Next]_vars
  PROVE  [Promise!Next]_(Promise!vars)
<1>1. ASSUME NEW p \in Chunks, BeginWrite(p) PROVE Promise!Write(p)
  <2>1. Contents' = Contents /\ out' = out
    BY <1>1 DEF BeginWrite, Contents
  <2>2. keptBytes' = LastOf(Contents \o p)
    BY <1>1, <2>1 DEF keptBytes, LastOf, BeginWrite
  <2>3. keptBytes = Contents
    BY <1>1, KeptWhenIdle DEF BeginWrite
  <2>4. countBytes' = countBytes + Len(p)
    BY <1>1, ChunksAreSequences DEF BeginWrite, countBytes, IInv, TypeOK
  <2>5. QED
    BY <2>1, <2>2, <2>3, <2>4 DEF Promise!Write, Promise!LastOf, LastOf
<1>2. ASSUME StoreByte PROVE UNCHANGED Promise!vars
  <2> DEFINE h == Head(pending)
  <2>1. h \in Byte /\ Tail(pending) \in Seq(Byte) /\ pending = <<h>> \o Tail(pending)
        /\ <<h>> \in Seq(Byte)
    BY <1>2 DEF StoreByte, IInv, TypeOK
  <2> HIDE DEF h
  <2>2. Contents \in Seq(Byte) /\ Contents \o <<h>> \in Seq(Byte)
    BY <2>1, ContentsTyped, ConcatProperties DEF ReadsBack
  <2>3. keptBytes' = LastOf(LastOf(Contents \o <<h>>) \o Tail(pending))
    BY <1>2, StoreAppends DEF keptBytes, LastOf, StoreByte, h
  <2>4. LastOf(LastOf(Contents \o <<h>>) \o Tail(pending))
          = LastOf((Contents \o <<h>>) \o Tail(pending))
    BY <2>1, <2>2, LastOfConcat
  <2>5. (Contents \o <<h>>) \o Tail(pending) = Contents \o pending
    BY <2>1, <2>2, ConcatAssociative
  <2>6. countBytes' = countBytes
    BY <1>2 DEF StoreByte, countBytes, IInv, TypeOK
  <2>7. QED
    BY <1>2, <2>3, <2>4, <2>5, <2>6 DEF keptBytes, StoreByte, Promise!vars
<1>3. ASSUME TakeSnapshot PROVE Promise!Read
  <2>1. keptBytes = Contents
    BY <1>3, KeptWhenIdle DEF TakeSnapshot
  <2>2. keptBytes' = keptBytes
    BY <1>3 DEF TakeSnapshot, keptBytes, LastOf, Contents
  <2>3. countBytes' = countBytes
    BY <1>3 DEF TakeSnapshot, countBytes
  <2>4. QED
    BY <1>3, <2>1, <2>2, <2>3 DEF TakeSnapshot, Promise!Read
<1>4. CASE UNCHANGED vars
  BY <1>4 DEF vars, Promise!vars, keptBytes, countBytes, LastOf, Contents
<1>5. QED
  BY <1>1, <1>2, <1>3, <1>4 DEF Next, Promise!Next, Promise!Chunks, Chunks

\* For every ring and every write size, readers get the last Size bytes written.
THEOREM Refinement == Spec => ImplementsLastBytes
<1>1. Init => Promise!Init
  <2> SUFFICES ASSUME Init PROVE keptBytes = <<>> /\ countBytes = 0 /\ out = <<>>
    BY DEF Promise!Init
  <2>1. keptBytes = Contents
    BY InitIInv, KeptWhenIdle DEF Init
  <2>2. Contents = <<>>
    BY InitIInv, ContentsTyped, EmptySeq, SizeAssumption DEF Init, ReadsBack
  <2>3. countBytes = 0
    BY DEF Init, countBytes
  <2>4. QED
    BY <2>1, <2>2, <2>3 DEF Init
<1>2. IInv /\ IInv' /\ [Next]_vars => [Promise!Next]_(Promise!vars)
  BY LastBytesStep
<1>3. QED
  BY <1>1, <1>2, RingIsSound, PTL DEF Spec, ImplementsLastBytes, Promise!Spec
=============================================================================
