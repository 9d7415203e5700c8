----------------------------- MODULE LastBytes -----------------------------
(***************************************************************************)
(* What the scrollback promises: a write appears whole, and a reader gets  *)
(* the last Size bytes of all that was written, in the order of writing.   *)
(* ScrollbackRing implements this.                                         *)
(***************************************************************************)
EXTENDS Naturals, Sequences

CONSTANTS Size, Byte, MaxWrite

VARIABLES kept,   \* the bytes a reader would get now
          count,  \* the bytes ever written
          out     \* the bytes the last reader got

vars == <<kept, count, out>>

\* What one read of the PTY returns.
Chunks == UNION {[1..k -> Byte] : k \in 1..MaxWrite}

LastOf(s) == IF Len(s) <= Size THEN s ELSE SubSeq(s, Len(s) - Size + 1, Len(s))

Init == kept = <<>> /\ count = 0 /\ out = <<>>

Write(p) ==
    /\ kept' = LastOf(kept \o p)
    /\ count' = count + Len(p)
    /\ UNCHANGED out

Read == out' = kept /\ UNCHANGED <<kept, count>>

Next == (\E p \in Chunks : Write(p)) \/ Read

Spec == Init /\ [][Next]_vars
=============================================================================
