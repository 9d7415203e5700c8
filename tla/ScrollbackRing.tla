--------------------------- MODULE ScrollbackRing ---------------------------
(***************************************************************************)
(* The scrollback of cmd/supervisor/main.go: a ring buffer of Size bytes   *)
(* that write fills a byte at a time and snapshot unrolls, both under the  *)
(* same mutex.                                                             *)
(***************************************************************************)
EXTENDS Naturals, Sequences

CONSTANTS Size,       \* scrollbackBytes, 256 KB in the code
          Byte,
          MaxWrite,   \* the PTY reader's buffer, 32 KB in the code
          MaxBytes    \* bound on the bytes ever written

ASSUME SizeAssumption == Size \in Nat \ {0}
ASSUME WriteAssumption == MaxWrite \in Nat /\ MaxBytes \in Nat

VARIABLES
    buf,        \* scrollback.buf
    pos,        \* scrollback.pos: where the next byte goes
    n,          \* scrollback.n: bytes ever written
    pending,    \* what the write that holds the mutex has yet to store
    out         \* the bytes the last snapshot returned

vars == <<buf, pos, n, pending, out>>

Chunks == UNION {[1..k -> Byte] : k \in 1..MaxWrite}

Init ==
    /\ buf \in [0..Size - 1 -> Byte]   \* zeros in the code; no reader sees them
    /\ pos = 0
    /\ n = 0
    /\ pending = <<>>
    /\ out = <<>>

\* write takes the mutex.
BeginWrite(p) ==
    /\ pending = <<>>
    /\ n + Len(p) <= MaxBytes
    /\ pending' = p
    /\ UNCHANGED <<buf, pos, n, out>>

\* One iteration of its loop; the last one releases the mutex.
StoreByte ==
    /\ pending # <<>>
    /\ buf' = [buf EXCEPT ![pos] = Head(pending)]
    /\ pos' = (pos + 1) % Size
    /\ n' = n + 1
    /\ pending' = Tail(pending)
    /\ UNCHANGED out

MutContents ==  \* copies the ring from its start
    [i \in 1..(IF n <= Size THEN n ELSE Size) |-> buf[i - 1]]

\* What snapshot copies out: buf[:n] until the ring has wrapped, and then
\* buf[pos:] followed by buf[:pos].
Contents ==
    IF n <= Size
    THEN [i \in 1..n |-> buf[i - 1]]
    ELSE [i \in 1..Size |-> IF i <= Size - pos THEN buf[pos + i - 1] ELSE buf[i - (Size - pos) - 1]]

\* snapshot needs the mutex, so no write is under way.
TakeSnapshot ==
    /\ pending = <<>>
    /\ out' = Contents
    /\ UNCHANGED <<buf, pos, n, pending>>

Next == (\E p \in Chunks : BeginWrite(p)) \/ StoreByte \/ TakeSnapshot

Spec == Init /\ [][Next]_vars

-----------------------------------------------------------------------------
(* Properties.                                                             *)

TypeOK ==
    /\ buf \in [0..Size - 1 -> Byte]
    /\ pos \in 0..Size - 1
    /\ n \in Nat
    /\ pending \in Seq(Byte)
    /\ out \in Seq(Byte)

\* Until it wraps, the ring is filled from its start: no reader is given a byte
\* that was never written.
FilledFromStart ==
    /\ n < Size => pos = n
    /\ n = Size => pos = 0

\* The ring is sound whoever reads it and whenever.
IInv == TypeOK /\ FilledFromStart

LastOf(s) == IF Len(s) <= Size THEN s ELSE SubSeq(s, Len(s) - Size + 1, Len(s))

\* A write takes effect when it takes the mutex: what a reader will get.
keptBytes == LastOf(Contents \o pending)
countBytes == n + Len(pending)

Promise == INSTANCE LastBytes WITH kept <- keptBytes, count <- countBytes

\* The ring with its position and its two copies gives readers the last Size
\* bytes written, in order and in whole writes.
ImplementsLastBytes == Promise!Spec
=============================================================================
