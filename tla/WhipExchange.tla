---------------------------- MODULE WhipExchange ----------------------------
(***************************************************************************)
(* What a WHIP session promises: one offer, then either one answer of the   *)
(* server, or the end. A session that is negotiated stays so, and what it   *)
(* applied is a piece of what the server answered to that offer.            *)
(***************************************************************************)
EXTENDS Naturals, Sequences

CONSTANTS Answers      \* records [framed, code, content]

VARIABLES phase, answer, applied

vars == <<phase, answer, applied>>

Init ==
    /\ phase = "new"
    /\ answer \in Answers
    /\ applied = <<>>

Offer ==
    /\ phase = "new"
    /\ phase' = "offered"
    /\ UNCHANGED <<answer, applied>>

Negotiate ==
    /\ phase = "offered"
    /\ phase' = "negotiated"
    /\ Len(applied') > 0
    /\ answer.framed =>
          /\ Len(applied') <= Len(answer.content)
          /\ applied' = SubSeq(answer.content, 1, Len(applied'))
    /\ UNCHANGED answer

\* the session gives up, or the process dies
End ==
    /\ phase \in {"new", "offered"}
    /\ phase' = "ended"
    /\ UNCHANGED <<answer, applied>>

Next == Offer \/ Negotiate \/ End

Spec == Init /\ [][Next]_vars

=============================================================================
