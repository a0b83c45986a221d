-------------------------- MODULE MCCaptureDevice --------------------------
(***************************************************************************)
(* CaptureDevice with two nodes, on one bus or on two, a number that does   *)
(* not fit the uint8_t, and pixel formats with a video type of their own,   *)
(* with a shared one and with none.                                         *)
(***************************************************************************)
EXTENDS CaptureDevice

MCNodes == {0, 1}
MCRequests == {0, 1, 2, 257}
MCCodes == {I420, YUYV, <<77, 74, 80, 71>>}

=============================================================================
