------------------------------ MODULE HttpCall ------------------------------
(***************************************************************************)
(* What a caller of http::Request::send may rely on: one call that is       *)
(* pending until it throws or returns. What it returns is either blank, with *)
(* no content and a status that was never assigned (status 0 stands for     *)
(* that), or the peer's status with a prefix of the peer's content. An      *)
(* answer that breaks HTTP's framing gives anything.                        *)
(***************************************************************************)
EXTENDS Naturals, Sequences

CONSTANTS Answers      \* records [framed, code, content]

VARIABLES call, answer, status, body

vars == <<call, answer, status, body>>

Init ==
    /\ call = "pending"
    /\ answer \in Answers
    /\ status = 0
    /\ body = <<>>

IsBlank(st, b) == st = 0 /\ b = <<>>

IsCut(st, b) ==
    /\ st = answer.code
    /\ Len(b) <= Len(answer.content)
    /\ b = SubSeq(answer.content, 1, Len(b))

Return ==
    /\ call = "pending"
    /\ call' = "returned"
    /\ answer.framed => IsBlank(status', body') \/ IsCut(status', body')
    /\ UNCHANGED answer

Throw ==
    /\ call = "pending"
    /\ call' = "threw"
    /\ UNCHANGED <<answer, status, body>>

Next == Return \/ Throw

Spec == Init /\ [][Next]_vars

=============================================================================
