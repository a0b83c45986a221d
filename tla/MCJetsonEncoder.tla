-------------------------- MODULE MCJetsonEncoder --------------------------
(***************************************************************************)
(* JetsonEncoder with more raw buffers than capture buffers, as in the code *)
(* (10 and 6): both planes run full and empty within a few frames.          *)
(***************************************************************************)
EXTENDS JetsonEncoder

MCOutputBuffers == 3
MCCaptureBuffers == 2

=============================================================================
