---------------------------- MODULE AttachInput ----------------------------
(***************************************************************************)
(* What `sandlock attach` does with the keyboard: it forwards every byte   *)
(* to the sandbox but the sequence Ctrl+B D, which detaches                *)
(* (cmd/sandlock/cmd/attach.go).  A read of stdin may end anywhere, also   *)
(* between Ctrl+B and D.                                                   *)
(***************************************************************************)
EXTENDS Naturals, Sequences

CONSTANTS CtrlB, D,
          Other,      \* every other byte
          MaxRead,    \* bytes in one read, 32 KB in the code
          MaxTyped    \* bound on the bytes typed

ASSUME KeysAssumption == CtrlB # D /\ CtrlB \notin Other /\ D \notin Other
ASSUME ReadAssumption == MaxRead \in Nat /\ MaxTyped \in Nat

VARIABLES
    typed,      \* all that was read from stdin
    sent,       \* all that was given to conn.Write, whose errors are ignored
    out,        \* what is left of the current read
    i,          \* bytes of out that were scanned
    sawCtrlB,   \* a Ctrl+B is held back
    mode        \* "read", "scan", "detached", or "ended" when stdin is

vars == <<typed, sent, out, i, sawCtrlB, mode>>

Byte == Other \cup {CtrlB, D}
Chunks == UNION {[1..k -> Byte] : k \in 1..MaxRead}

TypeOK ==
    /\ typed \in Seq(Byte) /\ sent \in Seq(Byte) /\ out \in Seq(Byte)
    /\ i \in 0..Len(out)
    /\ sawCtrlB \in BOOLEAN
    /\ mode \in {"read", "scan", "detached", "ended"}

Init ==
    /\ typed = <<>> /\ sent = <<>> /\ out = <<>> /\ i = 0
    /\ sawCtrlB = FALSE
    /\ mode = "read"

ReadStdin(p) ==
    /\ mode = "read"
    /\ Len(typed) + Len(p) <= MaxTyped
    /\ typed' = typed \o p
    /\ out' = p /\ i' = 0
    /\ mode' = "scan"
    /\ UNCHANGED <<sent, sawCtrlB>>

\* A Ctrl+B that turned out to be no detach goes first.
Release == IF sawCtrlB THEN Append(sent, CtrlB) ELSE sent

\* Ctrl+B and then D: what precedes them is sent, and nothing after them.
Detach ==
    /\ mode = "scan" /\ i < Len(out) /\ out[i + 1] = D
    /\ sawCtrlB
    /\ sawCtrlB' = FALSE
    /\ sent' = IF i > 1 THEN sent \o SubSeq(out, 1, i - 1) ELSE sent
    /\ mode' = "detached"
    /\ UNCHANGED <<typed, out, i>>

MutHoldCtrlB ==  \* drops a Ctrl+B that another one follows
    /\ mode = "scan" /\ i < Len(out) /\ out[i + 1] = CtrlB
    /\ sent' = sent \o SubSeq(out, 1, i)
    /\ out' = SubSeq(out, i + 2, Len(out)) /\ i' = 0
    /\ sawCtrlB' = TRUE
    /\ UNCHANGED <<typed, mode>>

\* A Ctrl+B: what precedes it is sent, it is held back.
HoldCtrlB ==
    /\ mode = "scan" /\ i < Len(out) /\ out[i + 1] = CtrlB
    /\ sent' = Release \o SubSeq(out, 1, i)
    /\ out' = SubSeq(out, i + 2, Len(out)) /\ i' = 0
    /\ sawCtrlB' = TRUE
    /\ UNCHANGED <<typed, mode>>

MutPass ==  \* does not forget the Ctrl+B
    /\ mode = "scan" /\ i < Len(out) /\ out[i + 1] # CtrlB
    /\ ~(sawCtrlB /\ out[i + 1] = D)
    /\ sent' = Release /\ i' = i + 1
    /\ UNCHANGED <<typed, out, sawCtrlB, mode>>

\* Any other byte, or a D on its own.
Pass ==
    /\ mode = "scan" /\ i < Len(out) /\ out[i + 1] # CtrlB
    /\ ~(sawCtrlB /\ out[i + 1] = D)
    /\ sent' = Release /\ i' = i + 1
    /\ sawCtrlB' = FALSE
    /\ UNCHANGED <<typed, out, mode>>

MutFlush ==  \* does not keep the Ctrl+B for the next read
    /\ mode = "scan" /\ i = Len(out)
    /\ sent' = IF sawCtrlB THEN Append(sent, CtrlB) ELSE sent \o out
    /\ out' = <<>> /\ i' = 0
    /\ sawCtrlB' = FALSE
    /\ mode' = "read"
    /\ UNCHANGED typed

\* The end of the read: the rest of it is sent, unless it ended in Ctrl+B.
Flush ==
    /\ mode = "scan" /\ i = Len(out)
    /\ sent' = IF sawCtrlB THEN sent ELSE sent \o out
    /\ out' = <<>> /\ i' = 0
    /\ mode' = "read"
    /\ UNCHANGED <<typed, sawCtrlB>>

EndOfInput ==
    /\ mode = "read"
    /\ mode' = "ended"
    /\ UNCHANGED <<typed, sent, out, i, sawCtrlB>>

Next ==
    \/ \E p \in Chunks : ReadStdin(p)
    \/ Detach \/ HoldCtrlB \/ Pass \/ Flush \/ EndOfInput

Spec == Init /\ [][Next]_vars

-----------------------------------------------------------------------------
(* Properties.                                                             *)

HeldBack == IF sawCtrlB THEN <<CtrlB>> ELSE <<>>

\* Nothing that is typed is lost, repeated or reordered, wherever the reads end:
\* it was sent, or is held back, or is still to be scanned; and a detach takes
\* away its two bytes and what follows them.
NothingIsLost ==
    IF mode = "detached"
    THEN typed = sent \o <<CtrlB, D>> \o SubSeq(out, i + 2, Len(out))
    ELSE typed = sent \o HeldBack \o out

\* Ctrl+B D detaches even when two reads share it: it never reaches the sandbox.
DetachIsNeverSent ==
    \A k \in 1..Len(sent) - 1 : ~(sent[k] = CtrlB /\ sent[k + 1] = D)

\* What went through: what was sent, and what will be when the read is through.
Passed == sent \o SubSeq(out, 1, i)

LookedAt == Len(typed) - Len(out) + i + (IF mode = "detached" THEN 1 ELSE 0)

Filter == INSTANCE DetachKeys WITH
    at <- LookedAt, passed <- Passed, held <- sawCtrlB, over <- mode = "detached"

\* How what is typed is cut into reads makes no difference: what goes through, and
\* whether and where it detaches, is what a filter does that sees one byte at a time.
ReadsDoNotMatter == Filter!Spec

\* A Ctrl+B is held back only until the next byte, and the bytes before it that
\* are yet to be sent hold no other.
ScanInv ==
    /\ sawCtrlB => i = 0
    /\ \A k \in 1..i : k <= Len(out) => out[k] # CtrlB
    /\ mode # "scan" /\ mode # "detached" => out = <<>> /\ i = 0
    /\ mode = "detached" => i = 0 /\ out # <<>> /\ out[1] = D /\ ~sawCtrlB

\* A Ctrl+B that was sent is followed by something else than a D, which the scan has
\* seen already.
SentInv ==
    /\ DetachIsNeverSent
    /\ sent # <<>> /\ sent[Len(sent)] = CtrlB /\ ~sawCtrlB /\ mode # "detached" =>
           mode = "scan" /\ i > 0 /\ out[1] # D

ReadInv == TypeOK /\ NothingIsLost /\ ScanInv
IInv == ReadInv /\ SentInv
=============================================================================
