-------------------------- MODULE AttachInputProofs --------------------------
(* Nothing typed at an attached terminal is lost, for any text and any way   *)
(* of cutting it into reads.                                                 *)
EXTENDS AttachInput, SequenceTheorems, TLAPS

\* A read is a sequence of bytes, and the two bytes of a detach are bytes.
LEMMA BytesTyped ==
  /\ CtrlB \in Byte /\ D \in Byte
  /\ \A p \in Chunks : p \in Seq(Byte)
  BY ReadAssumption, SeqDef DEF Byte, Chunks

\* Texts of bytes, joined in either order.
LEMMA Joined ==
  /\ \A a, b \in Seq(Byte) : a \o b \in Seq(Byte)
  /\ \A a, b, c \in Seq(Byte) : (a \o b) \o c = a \o (b \o c)
  /\ \A a \in Seq(Byte) : a \o <<>> = a /\ <<>> \o a = a
<1>1. \A a, b \in Seq(Byte) : a \o b \in Seq(Byte)
  BY ConcatProperties
<1>2. \A a, b, c \in Seq(Byte) : (a \o b) \o c = a \o (b \o c)
  BY ConcatAssociative
<1>3. \A a \in Seq(Byte) : a \o <<>> = a /\ <<>> \o a = a
  BY ConcatEmptySeq
<1>4. QED
  BY <1>1, <1>2, <1>3

\* A sequence is what precedes its k-th member, that member, and the rest.
LEMMA CutAt ==
  ASSUME NEW s \in Seq(Byte), NEW k \in 0..Len(s) - 1
  PROVE  /\ s[k + 1] \in Byte
         /\ SubSeq(s, 1, k) \in Seq(Byte)
         /\ SubSeq(s, k + 2, Len(s)) \in Seq(Byte)
         /\ s = SubSeq(s, 1, k) \o (<<s[k + 1]>> \o SubSeq(s, k + 2, Len(s)))
<1>0. Len(s) \in Nat /\ k + 1 \in 1..Len(s) /\ Len(s) \in k + 1..Len(s) /\ 1 \in 1..Len(s)
  BY LenProperties
<1>1. \A j \in 1..Len(s) : s[j] \in Byte
  BY LenProperties
<1>2. SubSeq(s, 1, k) \in Seq(Byte)
  <2>1. \A j \in 1..k : s[j] \in Byte
    BY <1>0, <1>1
  <2>2. QED
    BY <2>1, SubSeqProperties
<1>3. SubSeq(s, k + 2, Len(s)) \in Seq(Byte)
  <2>1. \A j \in k + 2..Len(s) : s[j] \in Byte
    BY <1>0, <1>1
  <2>2. k + 2 \in Int /\ Len(s) \in Int
    BY <1>0
  <2>3. QED
    BY <2>1, <2>2, SubSeqProperties
<1>4. SubSeq(s, k + 1, Len(s)) = <<s[k + 1]>> \o SubSeq(s, k + 2, Len(s))
  <2>1. SubSeq(s, k + 1, Len(s)) = <<s[k + 1]>> \o SubSeq(s, (k + 1) + 1, Len(s))
    BY <1>0, SubSeqRecursiveFirst
  <2>2. (k + 1) + 1 = k + 2
    BY <1>0
  <2>3. QED
    BY <2>1, <2>2
<1>5. s = SubSeq(s, 1, k) \o SubSeq(s, k + 1, Len(s))
  <2>1. CASE k = 0
    <3>1. SubSeq(s, 1, k) = <<>>
      BY <2>1, SubSeqEmpty
    <3>2. SubSeq(s, k + 1, Len(s)) = s
      BY <2>1, SubSeqFull
    <3>3. QED
      BY <3>1, <3>2, ConcatEmptySeq
  <2>2. CASE k > 0
    <3>1. 1 \in 1..Len(s) + 1 /\ k \in 1 - 1..Len(s) /\ Len(s) \in k..Len(s)
      BY <1>0
    <3>2. SubSeq(s, 1, k) \o SubSeq(s, k + 1, Len(s)) = SubSeq(s, 1, Len(s))
      BY <3>1, ConcatAdjacentSubSeq
    <3>3. QED
      BY <3>2, SubSeqFull
  <2>3. QED
    BY <2>1, <2>2
<1>6. QED
  BY <1>0, <1>1, <1>2, <1>3, <1>4, <1>5

\* Three texts, joined from either side.
LEMMA Regrouped == \A a, b, c \in Seq(Byte) : (a \o b) \o c = a \o (b \o c)
  BY ConcatAssociative

\* What precedes the k-th byte, that byte and the rest, after anything.
LEMMA SplitAfter ==
  ASSUME NEW t \in Seq(Byte), NEW s \in Seq(Byte), NEW k \in 0..Len(s) - 1
  PROVE  t \o s = (t \o SubSeq(s, 1, k)) \o (<<s[k + 1]>> \o SubSeq(s, k + 2, Len(s)))
<1>1. /\ SubSeq(s, 1, k) \in Seq(Byte)
      /\ <<s[k + 1]>> \o SubSeq(s, k + 2, Len(s)) \in Seq(Byte)
  BY CutAt, Joined
<1>2. s = SubSeq(s, 1, k) \o (<<s[k + 1]>> \o SubSeq(s, k + 2, Len(s)))
  BY CutAt
<1>3. t \o (SubSeq(s, 1, k) \o (<<s[k + 1]>> \o SubSeq(s, k + 2, Len(s))))
      = (t \o SubSeq(s, 1, k)) \o (<<s[k + 1]>> \o SubSeq(s, k + 2, Len(s)))
  BY <1>1, Regrouped, Zenon
<1>4. QED
  BY <1>2, <1>3

\* A Ctrl+B between two texts belongs to either.
LEMMA CtrlBBetween ==
  \A a, b \in Seq(Byte) : a \o (<<CtrlB>> \o b) = (a \o <<CtrlB>>) \o b
<1>1. <<CtrlB>> \in Seq(Byte)
  BY BytesTyped
<1>2. \A u \in Seq(Byte) : \A a, b \in Seq(Byte) : a \o (u \o b) = (a \o u) \o b
  BY Joined
<1>3. QED
  BY <1>1, <1>2, Zenon

\* A Ctrl+B that ends a read and a D that starts the next are the two bytes of a
\* detach.
LEMMA DetachBytes ==
  \A a, b \in Seq(Byte) : (a \o <<CtrlB>>) \o (<<D>> \o b) = (a \o <<CtrlB, D>>) \o b
<1>1. <<CtrlB>> \in Seq(Byte) /\ <<D>> \in Seq(Byte)
  BY BytesTyped
<1>2. <<CtrlB>> \o <<D>> = <<CtrlB, D>>
  <2>1. Append(<<CtrlB>>, D) = <<CtrlB>> \o <<D>>
    BY <1>1, BytesTyped, AppendIsConcat, Zenon
  <2>2. Append(<<CtrlB>>, D) \in Seq(Byte) /\ Len(Append(<<CtrlB>>, D)) = 2
    BY <1>1, BytesTyped, AppendProperties
  <2>3. Append(<<CtrlB>>, D)[1] = CtrlB /\ Append(<<CtrlB>>, D)[2] = D
    BY <1>1, BytesTyped, AppendProperties
  <2>4. <<CtrlB, D>> \in Seq(Byte) /\ Len(<<CtrlB, D>>) = 2
    BY BytesTyped
  <2>5. \A k \in 1..2 : Append(<<CtrlB>>, D)[k] = <<CtrlB, D>>[k]
    BY <2>3
  <2>6. Append(<<CtrlB>>, D) = <<CtrlB, D>>
    BY <2>2, <2>4, <2>5, SeqEqual
  <2>7. QED
    BY <2>1, <2>6, Zenon
<1>3. \A u, v \in Seq(Byte) : \A a, b \in Seq(Byte) :
         (a \o u) \o (v \o b) = (a \o (u \o v)) \o b
  <2> SUFFICES ASSUME NEW u \in Seq(Byte), NEW v \in Seq(Byte),
                      NEW a \in Seq(Byte), NEW b \in Seq(Byte)
               PROVE  (a \o u) \o (v \o b) = (a \o (u \o v)) \o b
    OBVIOUS
  <2>1. a \o u \in Seq(Byte)
    BY ConcatProperties
  <2>2. (a \o u) \o (v \o b) = ((a \o u) \o v) \o b
    BY <2>1, Regrouped, Zenon
  <2>3. (a \o u) \o v = a \o (u \o v)
    BY Regrouped, Zenon
  <2>4. QED
    BY <2>2, <2>3, Zenon
<1>4. \A a, b \in Seq(Byte) :
        (a \o <<CtrlB>>) \o (<<D>> \o b) = (a \o (<<CtrlB>> \o <<D>>)) \o b
  BY <1>1, <1>3, Zenon
<1>5. QED
  BY <1>2, <1>4, Zenon

\* A text is its first byte and the rest.
LEMMA FirstByte ==
  ASSUME NEW s \in Seq(Byte), s # <<>>
  PROVE  /\ SubSeq(s, 2, Len(s)) \in Seq(Byte)
         /\ s = <<s[1]>> \o SubSeq(s, 2, Len(s))
<1>1. Len(s) \in Nat /\ Len(s) # 0
  BY EmptySeq
<1>2. 0 \in 0..Len(s) - 1 /\ 0 + 1 = 1 /\ 0 + 2 = 2
  BY <1>1
<1>3. SubSeq(s, 0 + 2, Len(s)) \in Seq(Byte)
  BY <1>2, CutAt
<1>4. SubSeq(s, 1, Len(s)) = <<s[1]>> \o SubSeq(s, 1 + 1, Len(s))
  BY <1>1, SubSeqRecursiveFirst
<1>5. 1 + 1 = 2 /\ SubSeq(s, 1, Len(s)) = s
  BY SubSeqFull
<1>6. QED
  BY <1>2, <1>3, <1>4, <1>5

\* A Ctrl+B that is released was the one held back.
LEMMA ReleaseIsHeldBack ==
  ASSUME sent \in Seq(Byte)
  PROVE  Release \in Seq(Byte) /\ Release = sent \o HeldBack
<1>1. CASE sawCtrlB
  BY <1>1, BytesTyped, AppendIsConcat, Joined DEF Release, HeldBack
<1>2. CASE ~sawCtrlB
  BY <1>2, Joined DEF Release, HeldBack
<1>3. QED
  BY <1>1, <1>2

\* Before the first key nothing is lost.
LEMMA InitReadInv == Init => ReadInv
<1> SUFFICES ASSUME Init PROVE ReadInv
  OBVIOUS
<1>1. <<>> \in Seq(Byte) /\ Len(<<>>) = 0
  BY EmptySeq
<1>2. (<<>> \o <<>>) \o <<>> = <<>>
  BY <1>1, Joined
<1>3. NothingIsLost
  BY <1>2 DEF Init, NothingIsLost, HeldBack
<1>4. TypeOK
  <2>1. Len(out) = 0 /\ out \in Seq(Byte)
    BY <1>1 DEF Init
  <2>2. i \in 0..Len(out)
    BY <2>1 DEF Init
  <2>3. QED
    BY <1>1, <2>1, <2>2 DEF Init, TypeOK
<1>5. ScanInv
  BY DEF Init, ScanInv
<1>6. QED
  BY <1>3, <1>4, <1>5 DEF ReadInv

\* Every read, and every byte scanned, keeps all that was typed in its place.
LEMMA ReadInvStep == ReadInv /\ [Next]_vars => ReadInv'
<1> SUFFICES ASSUME ReadInv, [Next]_vars PROVE ReadInv'
  OBVIOUS
<1>0. /\ typed \in Seq(Byte) /\ sent \in Seq(Byte) /\ out \in Seq(Byte)
      /\ i \in 0..Len(out) /\ Len(out) \in Nat
      /\ Release \in Seq(Byte) /\ Release = sent \o HeldBack
  BY ReleaseIsHeldBack, LenProperties DEF ReadInv, TypeOK
<1>1. ASSUME NEW p \in Chunks, ReadStdin(p) PROVE ReadInv'
  <2>1. p \in Seq(Byte) /\ out = <<>>
    BY <1>1, BytesTyped DEF ReadStdin, ReadInv, ScanInv
  <2>2. HeldBack \in Seq(Byte)
    BY BytesTyped DEF HeldBack
  <2>3. typed = sent \o HeldBack
    BY <1>0, <1>1, <2>1, <2>2, Joined
    DEF ReadStdin, ReadInv, NothingIsLost
  <2>4. typed' \in Seq(Byte)
    BY <1>0, <1>1, <2>1, Joined DEF ReadStdin
  <2>5. QED
    BY <1>0, <1>1, <2>1, <2>3, <2>4 DEF ReadStdin, ReadInv, TypeOK, NothingIsLost, ScanInv, HeldBack
<1>2. ASSUME Detach PROVE ReadInv'
  <2> DEFINE rest == SubSeq(out, 2, Len(out))
  <2>1. i = 0 /\ out # <<>> /\ out[1] = D /\ sawCtrlB
    BY <1>0, <1>2 DEF Detach, ReadInv, ScanInv
  <2>2. rest \in Seq(Byte) /\ out = <<D>> \o rest
    BY <1>0, <2>1, FirstByte
  <2>3. typed = (sent \o <<CtrlB>>) \o out
    BY <1>2, <2>1 DEF Detach, ReadInv, NothingIsLost, HeldBack
  <2>4. typed = (sent \o <<CtrlB>>) \o (<<D>> \o rest)
    BY <2>2, <2>3
  <2>5. typed = (sent \o <<CtrlB, D>>) \o rest
    <3> HIDE DEF rest
    <3>1. QED
      BY <1>0, <2>2, <2>4, DetachBytes
  <2>6. NothingIsLost'
    BY <1>2, <2>1, <2>5 DEF Detach, NothingIsLost
  <2>7. TypeOK'
    <3>1. sent' = sent /\ out' = out /\ i' = i /\ typed' = typed
      BY <1>2, <2>1 DEF Detach
    <3>2. sawCtrlB' = FALSE /\ mode' = "detached"
      BY <1>2 DEF Detach
    <3>3. QED
      BY <1>0, <3>1, <3>2 DEF TypeOK
  <2>8. ScanInv'
    BY <1>0, <1>2, <2>1 DEF Detach, ScanInv
  <2>9. QED
    BY <2>6, <2>7, <2>8 DEF ReadInv
<1>3. ASSUME HoldCtrlB PROVE ReadInv'
  <2> DEFINE before == SubSeq(out, 1, i)
             after  == SubSeq(out, i + 2, Len(out))
  <2>1. i \in 0..Len(out) - 1 /\ out[i + 1] = CtrlB
    BY <1>0, <1>3 DEF HoldCtrlB
  <2>2. before \in Seq(Byte) /\ after \in Seq(Byte)
    BY <1>0, <2>1, CutAt
  <2>3. typed = Release \o out
    BY <1>0, <1>3 DEF HoldCtrlB, ReadInv, NothingIsLost
  <2>4. Release \o out = (Release \o before) \o (<<out[i + 1]>> \o after)
    BY <1>0, <2>1, SplitAfter
  <2>5. sent' = Release \o before /\ out' = after
    BY <1>3 DEF HoldCtrlB
  <2>6. sent' \in Seq(Byte) /\ out' \in Seq(Byte)
    BY <1>0, <2>2, <2>5, Joined
  <2>7. typed = sent' \o (<<CtrlB>> \o out')
    BY <2>1, <2>3, <2>4, <2>5
  <2>8. typed = (sent' \o <<CtrlB>>) \o out'
    BY <2>6, <2>7, CtrlBBetween
  <2>9. NothingIsLost'
    BY <1>3, <2>8 DEF HoldCtrlB, NothingIsLost, HeldBack
  <2>10. 0 \in 0..Len(out')
    BY <2>6, LenProperties
  <2>11. TypeOK'
    BY <1>0, <1>3, <2>6, <2>10 DEF HoldCtrlB, ReadInv, TypeOK
  <2>12. ScanInv'
    BY <1>3 DEF HoldCtrlB, ScanInv
  <2>13. QED
    BY <2>9, <2>11, <2>12 DEF ReadInv
<1>4. ASSUME Pass PROVE ReadInv'
  <2>1. sent' \in Seq(Byte) /\ sent' = sent \o HeldBack
    BY <1>0, <1>4 DEF Pass
  <2>2. typed = sent' \o out
    BY <1>4, <2>1 DEF Pass, ReadInv, NothingIsLost
  <2>3. sent' \o <<>> = sent'
    BY <2>1, Joined
  <2>4. NothingIsLost'
    BY <1>4, <2>2, <2>3 DEF Pass, NothingIsLost, HeldBack
  <2>5. i' \in 0..Len(out')
    BY <1>0, <1>4 DEF Pass
  <2>6. ScanInv'
    BY <1>0, <1>4 DEF Pass, ReadInv, ScanInv
  <2>7. QED
    BY <1>0, <1>4, <2>1, <2>4, <2>5, <2>6 DEF Pass, ReadInv, TypeOK
<1>5. ASSUME Flush PROVE ReadInv'
  <2>1. CASE sawCtrlB
    <3>1. i = 0 /\ Len(out) = 0
      BY <1>0, <1>5, <2>1 DEF Flush, ReadInv, ScanInv
    <3>2. out = <<>>
      BY <1>0, <3>1, EmptySeq
    <3>3. QED
      BY <1>0, <1>5, <2>1, <3>1, <3>2
      DEF Flush, ReadInv, TypeOK, NothingIsLost, ScanInv, HeldBack
  <2>2. CASE ~sawCtrlB
    <3>1. typed = sent \o out
      BY <1>0, <1>5, <2>2, Joined DEF Flush, ReadInv, NothingIsLost, HeldBack
    <3>2. sent' = sent \o out /\ sent' \in Seq(Byte)
      BY <1>0, <1>5, <2>2, Joined DEF Flush
    <3>3. (sent' \o <<>>) \o <<>> = sent'
      BY <3>2, Joined
    <3>4. QED
      BY <1>0, <1>5, <2>2, <3>1, <3>2, <3>3, EmptySeq
      DEF Flush, ReadInv, TypeOK, NothingIsLost, ScanInv, HeldBack
  <2>3. QED
    BY <2>1, <2>2
<1>6. ASSUME EndOfInput PROVE ReadInv'
  BY <1>0, <1>6 DEF EndOfInput, ReadInv, TypeOK, NothingIsLost, ScanInv, HeldBack
<1>7. ASSUME UNCHANGED vars PROVE ReadInv'
  BY <1>7 DEF vars, ReadInv, TypeOK, NothingIsLost, ScanInv, HeldBack
<1>8. QED
  BY <1>1, <1>2, <1>3, <1>4, <1>5, <1>6, <1>7 DEF Next

\* Texts without the bytes of a detach, joined where they do not make them.
Clean(s) == \A k \in 1..Len(s) - 1 : ~(s[k] = CtrlB /\ s[k + 1] = D)
EndsInCtrlB(s) == s # <<>> /\ s[Len(s)] = CtrlB

LEMMA CleanJoin ==
  ASSUME NEW a \in Seq(Byte), NEW b \in Seq(Byte), Clean(a), Clean(b),
         EndsInCtrlB(a) => b = <<>> \/ b[1] # D
  PROVE  Clean(a \o b)
<1>1. /\ Len(a) \in Nat /\ Len(b) \in Nat /\ Len(a \o b) = Len(a) + Len(b)
      /\ \A k \in 1..Len(a) + Len(b) : (a \o b)[k] = IF k <= Len(a) THEN a[k] ELSE b[k - Len(a)]
  BY ConcatProperties
<1>2. ASSUME NEW k \in 1..Len(a \o b) - 1, (a \o b)[k] = CtrlB, (a \o b)[k + 1] = D PROVE FALSE
  <2>1. CASE k < Len(a)
    BY <1>1, <1>2, <2>1 DEF Clean
  <2>2. CASE k = Len(a)
    <3>1. a[Len(a)] = CtrlB /\ b[1] = D /\ a # <<>> /\ b # <<>>
      BY <1>1, <1>2, <2>2
    <3>2. QED
      BY <3>1 DEF EndsInCtrlB
  <2>3. CASE k > Len(a)
    <3>1. k - Len(a) \in 1..Len(b) - 1 /\ (k + 1) - Len(a) = (k - Len(a)) + 1
      BY <1>1, <1>2, <2>3
    <3>2. b[k - Len(a)] = CtrlB /\ b[(k - Len(a)) + 1] = D
      BY <1>1, <1>2, <2>3, <3>1
    <3>3. QED
      BY <3>1, <3>2 DEF Clean
  <2>4. QED
    BY <1>1, <2>1, <2>2, <2>3
<1>3. QED
  BY <1>2 DEF Clean

\* Where a joined text ends.
LEMMA JoinEnd ==
  ASSUME NEW a \in Seq(Byte), NEW b \in Seq(Byte), \A k \in 1..Len(b) : b[k] # CtrlB
  PROVE  Clean(b) /\ (EndsInCtrlB(a \o b) => EndsInCtrlB(a) /\ b = <<>>)
<1>1. /\ Len(a) \in Nat /\ Len(b) \in Nat /\ Len(a \o b) = Len(a) + Len(b)
      /\ \A k \in 1..Len(a) + Len(b) : (a \o b)[k] = IF k <= Len(a) THEN a[k] ELSE b[k - Len(a)]
  BY ConcatProperties
<1>2. Clean(b)
  BY <1>1 DEF Clean
<1>3. CASE b = <<>>
  BY <1>2, <1>3, ConcatEmptySeq
<1>4. CASE b # <<>>
  <2>1. Len(b) > 0 /\ (Len(a) + Len(b)) - Len(a) = Len(b)
    BY <1>1, <1>4
  <2>2. (a \o b)[Len(a \o b)] = b[Len(b)]
    BY <1>1, <2>1
  <2>3. QED
    BY <1>1, <1>2, <2>1, <2>2 DEF EndsInCtrlB
<1>5. QED
  BY <1>3, <1>4

\* A Ctrl+B is not the D of a detach.
LEMMA CleanAppend ==
  ASSUME NEW a \in Seq(Byte), Clean(a)
  PROVE  Clean(Append(a, CtrlB))
  BY KeysAssumption DEF Clean

\* Every byte scanned keeps the sequence away from what is sent.
LEMMA SentInvStep == ReadInv /\ SentInv /\ [Next]_vars => SentInv'
<1> SUFFICES ASSUME ReadInv, SentInv, [Next]_vars PROVE SentInv'
  OBVIOUS
<1>1. /\ sent \in Seq(Byte) /\ out \in Seq(Byte) /\ i \in 0..Len(out) /\ Len(out) \in Nat
      /\ sawCtrlB => i = 0
      /\ \A k \in 1..i : k <= Len(out) => out[k] # CtrlB
  BY LenProperties DEF ReadInv, TypeOK, ScanInv
<1>2. Clean(sent) /\ (EndsInCtrlB(sent) /\ ~sawCtrlB /\ mode # "detached" => mode = "scan" /\ i > 0 /\ out[1] # D)
  BY DEF SentInv, DetachIsNeverSent, Clean, EndsInCtrlB
<1> DEFINE Goal == /\ Clean(sent')
                   /\ EndsInCtrlB(sent') /\ ~sawCtrlB' /\ mode' # "detached" =>
                          mode' = "scan" /\ i' > 0 /\ out'[1] # D
<1>3. ASSUME Goal PROVE SentInv'
  BY <1>3 DEF SentInv, DetachIsNeverSent, Clean, EndsInCtrlB
<1>4. CASE \E p \in Chunks : ReadStdin(p)
  BY <1>2, <1>3, <1>4 DEF ReadStdin
<1>5. CASE Detach
  <2>1. sent' = sent /\ mode' = "detached"
    BY <1>1, <1>5 DEF Detach
  <2>2. QED
    BY <1>2, <1>3, <2>1
<1>6. CASE HoldCtrlB
  <2>1. sawCtrlB' = TRUE /\ sent' = Release \o SubSeq(out, 1, i)
    BY <1>6 DEF HoldCtrlB
  <2>2. CASE sawCtrlB
    <3>1. SubSeq(out, 1, i) = <<>>
      BY <1>1, <2>2, SubSeqEmpty
    <3>2. Append(sent, CtrlB) \in Seq(Byte)
      BY <1>1, BytesTyped, AppendProperties
    <3>3. sent' = Append(sent, CtrlB)
      BY <2>1, <2>2, <3>1, <3>2, ConcatEmptySeq DEF Release
    <3>4. QED
      BY <1>1, <1>2, <1>3, <2>1, <3>3, CleanAppend
  <2>3. CASE ~sawCtrlB
    <3> DEFINE b == SubSeq(out, 1, i)
    <3>1. /\ b \in Seq(Byte) /\ Len(b) = i
          /\ \A k \in 1..Len(b) : b[k] = out[k] /\ b[k] # CtrlB
      BY <1>1, SubSeqProperties
    <3>2. sent' = sent \o b
      BY <2>1, <2>3 DEF Release
    <3>3. EndsInCtrlB(sent) => b[1] # D
      BY <1>1, <1>2, <1>6, <2>3, <3>1 DEF HoldCtrlB
    <3> HIDE DEF b
    <3>4. Clean(sent \o b)
      BY <1>1, <1>2, <3>1, <3>3, CleanJoin, JoinEnd
    <3>5. QED
      BY <1>3, <2>1, <3>2, <3>4
  <2>4. QED
    BY <2>2, <2>3
<1>7. CASE Pass
  <2>1. /\ mode' = "scan" /\ i' > 0 /\ out' = out /\ mode = "scan" /\ sent' = Release
        /\ ~(sawCtrlB /\ out[i + 1] = D)
    BY <1>1, <1>7 DEF Pass
  <2>2. CASE sawCtrlB
    <3>1. sent' = Append(sent, CtrlB) /\ out'[1] # D
      BY <1>1, <2>1, <2>2 DEF Release
    <3>2. QED
      BY <1>1, <1>2, <1>3, <2>1, <3>1, CleanAppend
  <2>3. CASE ~sawCtrlB
    <3>1. sent' = sent
      BY <2>1, <2>3 DEF Release
    <3>2. QED
      BY <1>2, <1>3, <2>1, <2>3, <3>1
  <2>4. QED
    BY <2>2, <2>3
<1>8. CASE Flush
  <2>1. i = Len(out) /\ sawCtrlB' = sawCtrlB /\ mode = "scan"
        /\ sent' = IF sawCtrlB THEN sent ELSE sent \o out
    BY <1>8 DEF Flush
  <2>2. CASE sawCtrlB
    BY <1>2, <1>3, <2>1, <2>2
  <2>3. CASE ~sawCtrlB
    <3>1. /\ \A k \in 1..Len(out) : out[k] # CtrlB
          /\ EndsInCtrlB(sent) => out # <<>> /\ out[1] # D
      BY <1>1, <1>2, <2>1, <2>3
    <3>2. Clean(sent \o out) /\ ~EndsInCtrlB(sent \o out)
      BY <1>1, <1>2, <3>1, CleanJoin, JoinEnd
    <3>3. QED
      BY <1>3, <2>1, <2>3, <3>2
  <2>4. QED
    BY <2>2, <2>3
<1>9. CASE EndOfInput
  BY <1>2, <1>3, <1>9 DEF EndOfInput
<1>10. CASE UNCHANGED vars
  BY <1>2, <1>3, <1>10 DEF vars
<1>11. QED
  BY <1>4, <1>5, <1>6, <1>7, <1>8, <1>9, <1>10 DEF Next

\* The scanning loop of attach.go:126-167 keeps its invariant.
THEOREM Invariance == Spec => []IInv
<1>1. Init => SentInv
  BY DEF Init, SentInv, DetachIsNeverSent
<1>2. IInv /\ [Next]_vars => IInv'
  BY ReadInvStep, SentInvStep DEF IInv
<1>3. Init => IInv
  BY <1>1, InitReadInv DEF IInv
<1>4. QED
  BY <1>2, <1>3, PTL DEF Spec

\* All that was typed was sent, is held back, or is still to be scanned, in the
\* order it was typed and whatever the reads.
THEOREM InputIsKept == Spec => []NothingIsLost
<1>1. IInv => NothingIsLost
  BY DEF IInv, ReadInv
<1>2. QED
  BY Invariance, <1>1, PTL

\* Wherever the reads end, Ctrl+B D does not reach the sandbox.
THEOREM DetachStaysHere == Spec => []DetachIsNeverSent
<1>1. IInv => DetachIsNeverSent
  BY DEF IInv, SentInv
<1>2. QED
  BY Invariance, <1>1, PTL

-----------------------------------------------------------------------------
(* The reads do not matter: a refinement of DetachKeys.                     *)

\* The byte that the scan looks at is the one at its place in what was typed.
LEMMA NextByte ==
  ASSUME ReadInv, mode # "detached", i < Len(out)
  PROVE  /\ LookedAt = Len(typed) - Len(out) + i
         /\ LookedAt \in Nat /\ LookedAt < Len(typed)
         /\ typed[LookedAt + 1] = out[i + 1]
<1> DEFINE before == sent \o HeldBack
<1>1. before \in Seq(Byte) /\ out \in Seq(Byte) /\ i \in 0..Len(out)
  BY BytesTyped, Joined DEF HeldBack, ReadInv, TypeOK
<1>2. typed = before \o out
  BY DEF ReadInv, NothingIsLost
<1> HIDE DEF before
<1>3. Len(before) \in Nat /\ Len(out) \in Nat /\ i \in Nat
  BY <1>1, LenProperties
<1>4. /\ Len(typed) = Len(before) + Len(out)
      /\ \A k \in 1..Len(before) + Len(out) :
           typed[k] = IF k <= Len(before) THEN before[k] ELSE out[k - Len(before)]
  BY <1>1, <1>2, ConcatProperties
<1>5. LookedAt = Len(before) + i
  BY <1>3, <1>4 DEF LookedAt
<1>6. (Len(before) + i + 1) - Len(before) = i + 1
  BY <1>3
<1>7. Len(before) + i + 1 \in 1..Len(before) + Len(out) /\ ~(Len(before) + i + 1 <= Len(before))
  BY <1>3
<1>8. QED
  BY <1>3, <1>4, <1>5, <1>6, <1>7 DEF LookedAt

\* What follows a read that ends: all of it was looked at.
LEMMA ReadIsLookedAt ==
  ASSUME ReadInv, mode # "detached", i = Len(out)
  PROVE  LookedAt = Len(typed)
<1>1. Len(out) \in Nat /\ Len(typed) \in Nat
  BY LenProperties DEF ReadInv, TypeOK
<1>2. QED
  BY <1>1 DEF LookedAt

\* Before the first key the filter has seen nothing.
LEMMA InitFilter == Init => Filter!Init
<1> SUFFICES ASSUME Init PROVE Filter!Init
  OBVIOUS
<1>1. <<>> \in Seq(Byte) /\ Len(<<>>) = 0 /\ SubSeq(<<>>, 1, 0) = <<>>
  BY EmptySeq, SubSeqEmpty
<1>2. LookedAt = 0
  BY <1>1 DEF Init, LookedAt
<1>3. Passed = <<>>
  BY <1>1, Joined DEF Init, Passed
<1>4. QED
  BY <1>2, <1>3 DEF Init, Filter!Init

\* A byte that joins what was looked at of a read.
LEMMA OneMore ==
  ASSUME NEW a \in Seq(Byte), NEW b \in Seq(Byte), NEW k \in Nat, k < Len(b)
  PROVE  a \o SubSeq(b, 1, k + 1) = Append(a \o SubSeq(b, 1, k), b[k + 1])
<1>1. Len(b) \in Nat /\ k \in 0..Len(b) - 1 /\ k + 1 \in 1..Len(b) /\ 1 \in 1..Len(b)
  BY LenProperties
<1>2. SubSeq(b, 1, k) \in Seq(Byte) /\ b[k + 1] \in Byte
  BY <1>1, CutAt
<1>3. SubSeq(b, 1, k + 1) = SubSeq(b, 1, (k + 1) - 1) \o <<b[k + 1]>>
  BY <1>1, SubSeqRecursiveSecond
<1>4. SubSeq(b, 1, k + 1) = SubSeq(b, 1, k) \o <<b[k + 1]>>
  BY <1>3
<1>5. <<b[k + 1]>> \in Seq(Byte) /\ a \o SubSeq(b, 1, k) \in Seq(Byte)
  BY <1>2, Joined
<1>6. a \o (SubSeq(b, 1, k) \o <<b[k + 1]>>) = (a \o SubSeq(b, 1, k)) \o <<b[k + 1]>>
  BY <1>2, <1>5, Regrouped, Zenon
<1>7. (a \o SubSeq(b, 1, k)) \o <<b[k + 1]>> = Append(a \o SubSeq(b, 1, k), b[k + 1])
  BY <1>2, <1>5, AppendIsConcat
<1>8. QED
  BY <1>4, <1>6, <1>7

\* A read is something typed, a byte scanned is one the filter looks at, and the rest
\* it does not see.
LEMMA FilterStep == ReadInv /\ ReadInv' /\ [Next]_vars => [Filter!Next]_(Filter!vars)
<1> SUFFICES ASSUME ReadInv, ReadInv', [Next]_vars PROVE [Filter!Next]_(Filter!vars)
  OBVIOUS
<1>0. /\ typed \in Seq(Byte) /\ sent \in Seq(Byte) /\ out \in Seq(Byte)
      /\ i \in 0..Len(out) /\ Len(out) \in Nat /\ Len(typed) \in Nat /\ i \in Nat
      /\ SubSeq(out, 1, i) \in Seq(Byte) /\ Release \in Seq(Byte)
      /\ sawCtrlB \in BOOLEAN
  <2>1. /\ typed \in Seq(Byte) /\ sent \in Seq(Byte) /\ out \in Seq(Byte)
        /\ i \in 0..Len(out) /\ Len(out) \in Nat /\ Len(typed) \in Nat /\ i \in Nat
        /\ sawCtrlB \in BOOLEAN
    BY LenProperties DEF ReadInv, TypeOK
  <2>2. \A k \in 1..i : out[k] \in Byte
    BY <2>1, LenProperties
  <2>3. SubSeq(out, 1, i) \in Seq(Byte)
    BY <2>1, <2>2, SubSeqProperties
  <2>4. QED
    BY <2>1, <2>3, ReleaseIsHeldBack
<1>1. ASSUME NEW p \in Chunks, ReadStdin(p) PROVE Filter!Type
  <2>1. /\ p \in Seq(Byte) /\ Len(p) \in Nat /\ Len(p) > 0
    BY <1>1, BytesTyped, ReadAssumption DEF Chunks
  <2>2. out = <<>> /\ i = 0
    BY <1>1 DEF ReadStdin, ReadInv, ScanInv
  <2>3. /\ typed' = typed \o p /\ out' = p /\ i' = 0 /\ mode' = "scan" /\ mode = "read"
        /\ UNCHANGED <<sent, sawCtrlB>>
    BY <1>1 DEF ReadStdin
  <2>4. /\ typed' \in Seq(Byte) /\ Len(typed') = Len(typed) + Len(p)
        /\ SubSeq(typed', 1, Len(typed)) = typed
    <3>1. typed' \in Seq(Byte) /\ Len(typed') = Len(typed) + Len(p)
          /\ \A k \in 1..Len(typed) : typed'[k] = typed[k]
      BY <1>0, <2>1, <2>3, ConcatProperties
    <3>2. /\ SubSeq(typed', 1, Len(typed)) \in Seq(Byte)
          /\ Len(SubSeq(typed', 1, Len(typed))) = Len(typed)
          /\ \A k \in 1..Len(typed) : SubSeq(typed', 1, Len(typed))[k] = typed[k]
      <4>1. \A k \in 1..Len(typed) : typed'[k] \in Byte
        BY <1>0, <2>1, <3>1, LenProperties
      <4>2. QED
        BY <1>0, <3>1, <4>1, SubSeqProperties
    <3>3. QED
      BY <1>0, <3>1, <3>2, SeqEqual
  <2>5. LookedAt' = LookedAt
    <3>1. LookedAt = Len(typed)
      BY <2>2, <2>3, <1>0, EmptySeq DEF LookedAt
    <3>2. LookedAt' = Len(typed') - Len(p) + 0
      BY <2>1, <2>3, <2>4, <1>0 DEF LookedAt
    <3>3. QED
      BY <1>0, <2>1, <2>4, <3>1, <3>2
  <2>6. Passed' = Passed
    <3>1. SubSeq(out, 1, i) = <<>> /\ SubSeq(out', 1, i') = <<>>
      BY <2>1, <2>2, <2>3, <1>0, SubSeqEmpty
    <3>2. QED
      BY <2>3, <3>1 DEF Passed
  <2>7. QED
    BY <1>0, <2>1, <2>3, <2>4, <2>5, <2>6 DEF Filter!Type
<1>2. ASSUME Detach PROVE Filter!Look
  <2>1. /\ i = 0 /\ sawCtrlB /\ out[i + 1] = D /\ mode = "scan" /\ i < Len(out)
        /\ UNCHANGED <<typed, out, i>> /\ mode' = "detached" /\ sawCtrlB' = FALSE
    BY <1>2 DEF Detach, ReadInv, ScanInv
  <2>2. sent' = sent
    BY <1>2, <2>1 DEF Detach
  <2>3. LookedAt' = LookedAt + 1
    BY <1>0, <2>1 DEF LookedAt
  <2>4. Passed' = Passed
    BY <2>1, <2>2 DEF Passed
  <2>5. LookedAt < Len(typed) /\ typed[LookedAt + 1] = D
    BY <2>1, NextByte
  <2>6. QED
    BY <2>1, <2>3, <2>4, <2>5 DEF Filter!Look
<1>3. ASSUME HoldCtrlB PROVE Filter!Look
  <2> DEFINE after == SubSeq(out, i + 2, Len(out))
  <2>1. /\ mode = "scan" /\ i < Len(out) /\ out[i + 1] = CtrlB
        /\ sent' = Release \o SubSeq(out, 1, i) /\ out' = after /\ i' = 0
        /\ sawCtrlB' = TRUE /\ UNCHANGED <<typed, mode>>
    BY <1>3 DEF HoldCtrlB
  <2>2. after \in Seq(Byte) /\ Len(after) = Len(out) - i - 1
    <3>1. \A k \in i + 2..Len(out) : out[k] \in Byte
      BY <1>0, LenProperties
    <3>2. i + 2 \in Int /\ Len(out) \in Int
      BY <1>0
    <3>3. after \in Seq(Byte) /\ Len(after) = IF i + 2 <= Len(out) THEN Len(out) - (i + 2) + 1 ELSE 0
      BY <3>1, <3>2, SubSeqProperties
    <3>4. QED
      BY <1>0, <2>1, <3>3
  <2> HIDE DEF after
  <2>3. LookedAt' = LookedAt + 1
    BY <1>0, <2>1, <2>2 DEF LookedAt
  <2>4. Passed' = sent'
    <3>1. SubSeq(out', 1, i') = <<>>
      BY <2>1, <2>2, SubSeqEmpty
    <3>2. sent' \in Seq(Byte)
      BY DEF ReadInv, TypeOK
    <3>3. QED
      BY <3>1, <3>2, Joined DEF Passed
  <2>5. sent' = IF sawCtrlB THEN Append(Passed, CtrlB) ELSE Passed
    <3>1. CASE sawCtrlB
      <4>1. i = 0
        BY <3>1 DEF ReadInv, ScanInv
      <4>2. SubSeq(out, 1, i) = <<>>
        BY <1>0, <4>1, SubSeqEmpty
      <4>3. Passed = sent /\ sent' = Append(sent, CtrlB)
        BY <1>0, <2>1, <3>1, <4>2, Joined DEF Passed, Release
      <4>4. QED
        BY <3>1, <4>3
    <3>2. CASE ~sawCtrlB
      BY <2>1, <3>2 DEF Passed, Release
    <3>3. QED
      BY <3>1, <3>2
  <2>6. LookedAt < Len(typed) /\ typed[LookedAt + 1] = CtrlB
    BY <2>1, NextByte
  <2>7. QED
    BY <2>1, <2>3, <2>4, <2>5, <2>6 DEF Filter!Look, Filter!LetGo
<1>4. ASSUME Pass PROVE Filter!Look
  <2>1. /\ mode = "scan" /\ i < Len(out) /\ out[i + 1] # CtrlB
        /\ ~(sawCtrlB /\ out[i + 1] = D)
        /\ sent' = Release /\ i' = i + 1 /\ sawCtrlB' = FALSE /\ UNCHANGED <<typed, out, mode>>
    BY <1>4 DEF Pass
  <2>2. LookedAt' = LookedAt + 1
    BY <1>0, <2>1 DEF LookedAt
  <2>3. Passed' = Append(Release \o SubSeq(out, 1, i), out[i + 1])
    BY <1>0, <2>1, OneMore DEF Passed
  <2>4. Release \o SubSeq(out, 1, i) = IF sawCtrlB THEN Append(Passed, CtrlB) ELSE Passed
    <3>1. CASE sawCtrlB
      <4>1. i = 0
        BY <3>1 DEF ReadInv, ScanInv
      <4>2. SubSeq(out, 1, i) = <<>>
        BY <1>0, <4>1, SubSeqEmpty
      <4>3. Passed = sent /\ Release \o SubSeq(out, 1, i) = Append(sent, CtrlB)
        BY <1>0, <3>1, <4>2, Joined DEF Passed, Release
      <4>4. QED
        BY <3>1, <4>3
    <3>2. CASE ~sawCtrlB
      BY <3>2 DEF Passed, Release
    <3>3. QED
      BY <3>1, <3>2
  <2>5. LookedAt < Len(typed) /\ typed[LookedAt + 1] = out[i + 1]
    BY <2>1, NextByte
  <2>6. QED
    BY <2>1, <2>2, <2>3, <2>4, <2>5 DEF Filter!Look, Filter!LetGo
<1>5. ASSUME Flush PROVE UNCHANGED Filter!vars
  <2>1. /\ mode = "scan" /\ i = Len(out) /\ out' = <<>> /\ i' = 0 /\ mode' = "read"
        /\ sent' = IF sawCtrlB THEN sent ELSE sent \o out
        /\ UNCHANGED <<typed, sawCtrlB>>
    BY <1>5 DEF Flush
  <2>2. LookedAt' = LookedAt
    BY <1>0, <2>1, ReadIsLookedAt, EmptySeq DEF LookedAt
  <2>3. SubSeq(out', 1, i') = <<>> /\ sent' \in Seq(Byte)
    BY <1>0, <2>1, SubSeqEmpty DEF ReadInv, TypeOK
  <2>4. SubSeq(out, 1, i) = out
    BY <1>0, <2>1, SubSeqFull
  <2>5. sawCtrlB => out = <<>>
    BY <1>0, <2>1, EmptySeq DEF ReadInv, ScanInv
  <2>6. Passed' = Passed
    BY <1>0, <2>1, <2>3, <2>4, <2>5, Joined DEF Passed
  <2>7. QED
    BY <2>1, <2>2, <2>6 DEF Filter!vars
<1>6. ASSUME EndOfInput PROVE UNCHANGED Filter!vars
  BY <1>6 DEF EndOfInput, Filter!vars, LookedAt, Passed
<1>7. CASE UNCHANGED vars
  BY <1>7 DEF vars, Filter!vars, LookedAt, Passed
<1>8. QED
  BY <1>1, <1>2, <1>3, <1>4, <1>5, <1>6, <1>7 DEF Next, Filter!Next

\* The loop of attach.go works on reads of up to 32 KB, cut anywhere, and yet does what
\* a filter does that sees one byte at a time.
THEOREM Refinement == Spec => ReadsDoNotMatter
<1>1. IInv => ReadInv
  BY DEF IInv
<1>2. QED
  BY <1>1, Invariance, InitFilter, FilterStep, PTL DEF Spec, ReadsDoNotMatter, Filter!Spec
=============================================================================
