--------------------------- MODULE MCWhipSession ---------------------------
(***************************************************************************)
(* Servers for WhipSession: one that accepts, one that refuses with a page, *)
(* one that refuses with SDP in the body, and one that breaks HTTP framing. *)
(***************************************************************************)
EXTENDS WhipSession

MCLines == {"session", "media", "page"}
MCSdpLines == {"session", "media"}

MCAnswers ==
    { [framed |-> TRUE,  code |-> 201, content |-> <<"session", "media">>],
      [framed |-> TRUE,  code |-> 404, content |-> <<"page">>],
      [framed |-> TRUE,  code |-> 409, content |-> <<"session", "media">>],
      [framed |-> FALSE, code |-> 200, content |-> <<"session">>] }

=============================================================================
