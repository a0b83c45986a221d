---------------------------- MODULE MCRefCount ----------------------------
(***************************************************************************)
(* RefCount with two threads, of two slots and a temporary each, and two    *)
(* objects: enough for an object to be shared, for both threads to drop it  *)
(* at once, and for an assignment to replace one object by the other.       *)
(***************************************************************************)
EXTENDS RefCount, TLC

MCThreads == {"main", "signaling"}
MCSlots == {"m1", "m2", "mt", "s1", "s2", "st"}
MCOwnerOf == ("m1" :> "main") @@ ("m2" :> "main") @@ ("mt" :> "main")
             @@ ("s1" :> "signaling") @@ ("s2" :> "signaling")
             @@ ("st" :> "signaling")
MCTempOf == ("main" :> "mt") @@ ("signaling" :> "st")

=============================================================================
