------------------------------ MODULE DetachKeys ------------------------------
(***************************************************************************)
(* What an attached terminal promises of the keyboard, byte by byte: every *)
(* byte goes through in its order, except that Ctrl+B is held back until   *)
(* the next byte, and D after it detaches.  Nothing here knows of reads:   *)
(* AttachInput, which works on whole reads, implements this.               *)
(***************************************************************************)
EXTENDS Naturals, Sequences

CONSTANTS CtrlB, D, Byte

VARIABLES
    typed,    \* what was typed
    at,       \* how many bytes of it were looked at
    passed,   \* what went through
    held,     \* the last byte looked at is a Ctrl+B, and did not
    over      \* detached

vars == <<typed, at, passed, held, over>>

Init ==
    /\ typed = <<>> /\ passed = <<>>
    /\ at = 0
    /\ held = FALSE /\ over = FALSE

\* Any bytes, at any time until the detach.
Type ==
    /\ ~over
    /\ typed' \in Seq(Byte) /\ Len(typed') > Len(typed)
    /\ SubSeq(typed', 1, Len(typed)) = typed
    /\ UNCHANGED <<at, passed, held, over>>

LetGo == IF held THEN Append(passed, CtrlB) ELSE passed

\* The next byte, whoever typed it and however late it comes after the Ctrl+B.
Look ==
    /\ ~over /\ at < Len(typed)
    /\ at' = at + 1
    /\ UNCHANGED typed
    /\ LET b == typed[at + 1] IN
       \/ held /\ b = D /\ held' = FALSE /\ over' = TRUE /\ UNCHANGED passed
       \/ b = CtrlB /\ held' = TRUE /\ passed' = LetGo /\ UNCHANGED over
       \/ /\ b # CtrlB /\ ~(held /\ b = D)
          /\ held' = FALSE /\ passed' = Append(LetGo, b)
          /\ UNCHANGED over

Next == Type \/ Look

Spec == Init /\ [][Next]_vars
=============================================================================
