----------------------------- MODULE BatchChannel -----------------------------
(***************************************************************************)
(* What a cache promises the kernel that reads it: the batches that were   *)
(* sent, each once, in the order they were sent, in groups of one or more, *)
(* and then, once the channel is closed and drained, its end.  A channel   *)
(* that was closed in order gets no batch any more; one whose sender was   *)
(* cut off (Abort) may, and its end may come before the last of them.      *)
(* Where a batch lives meanwhile is nobody's business.                     *)
(***************************************************************************)
EXTENDS Naturals, Sequences

CONSTANT Batches

VARIABLES sent, taken, closed, aborted, over

Init ==
    /\ sent = <<>> /\ taken = 0
    /\ closed = FALSE /\ aborted = FALSE /\ over = FALSE

Send ==
    /\ ~closed \/ aborted
    /\ \E b \in Batches : sent' = Append(sent, b)
    /\ UNCHANGED <<taken, closed, aborted, over>>

Close ==
    /\ ~closed
    /\ closed' = TRUE
    /\ UNCHANGED <<sent, taken, aborted, over>>

Abort ==
    /\ ~closed
    /\ closed' = TRUE /\ aborted' = TRUE
    /\ UNCHANGED <<sent, taken, over>>

Take ==
    /\ ~over
    /\ \E n \in taken + 1 .. Len(sent) : taken' = n
    /\ UNCHANGED <<sent, closed, aborted, over>>

End ==
    /\ ~over
    /\ closed
    /\ taken = Len(sent) \/ aborted
    /\ over' = TRUE
    /\ UNCHANGED <<sent, taken, closed, aborted>>

Next == Send \/ Close \/ Abort \/ Take \/ End

Spec == Init /\ [][Next]_<<sent, taken, closed, aborted, over>>
=============================================================================
