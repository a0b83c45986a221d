---------------------------- MODULE MCWadiArgs ----------------------------
(***************************************************************************)
(* WadiArgs with words for an address, numbers (the largest that fits a     *)
(* device's type and one that does not), the path of a device, and codes of *)
(* two and of five characters, in command lines of up to four tokens.       *)
(***************************************************************************)
EXTENDS WadiArgs, TLC

MCNames == {"d", "w", "h", "r", "c"}
MCWords == {"true", "0", "url", "300", "/dev/video255", "255", "yu", "nv12x"}

Const(v) == [w \in MCWords |-> v]

MCatoi == ("300" :> 300) @@ ("255" :> 255) @@ Const(0)
MCsubstr == ("/dev/video255" :> "255") @@ [w \in MCWords |-> w]
MCtoupper ==
    ("true" :> <<"T", "R", "U", "E">>) @@ ("0" :> <<"0">>)
    @@ ("url" :> <<"U", "R", "L">>) @@ ("300" :> <<"3", "0", "0">>)
    @@ ("/dev/video255" :> <<"/", "D", "E", "V", "/", "V">>) @@ ("255" :> <<"2", "5", "5">>)
    @@ ("yu" :> <<"Y", "U">>) @@ ("nv12x" :> <<"N", "V", "1", "2", "X">>)

=============================================================================
