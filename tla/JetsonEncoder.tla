--------------------------- MODULE JetsonEncoder ---------------------------
(***************************************************************************)
(* JetsonEncoder (src/encoder/jetson_encoder.cpp): one encoder object from  *)
(* InitEncode to Release. Three actors:                                     *)
(*   - libwebrtc's encoder queue calls InitEncode, Encode and Release, one  *)
(*     call at a time;                                                      *)
(*   - the capture plane's DQ thread, started in the middle of InitEncode,  *)
(*     runs EncoderCapturePlaneCallback on every encoded buffer until the   *)
(*     callback returns false;                                              *)
(*   - the hardware turns a queued raw buffer (output plane) and an empty   *)
(*     capture buffer into an encoded one.                                  *)
(* Plane and buffer classes are NVIDIA's; they are modelled from their use. *)
(* A failed assert in InitEncode, and what an access outside a frame or     *)
(* outside a live encoded_images may lead to, is enc = "crashed".           *)
(***************************************************************************)
EXTENDS Integers, FiniteSets

CONSTANTS
    OutputBuffers,      \* buffers of the output plane, 10 in the code
    CaptureBuffers,     \* ctx.num_output_buffers, 6: capture plane, encoded_images
    MaxFrames           \* bound on the calls of Encode that are accepted

ASSUME ConstantsAssumption ==
    /\ OutputBuffers \in Nat \ {0} /\ CaptureBuffers \in Nat \ {0}
    /\ MaxFrames \in Nat

VARIABLES
    enc,                \* the encoder queue's side, see TypeOK
    next,               \* i of InitEncode's loop over the capture buffers
    outPlane,           \* who has each raw buffer
    capPlane,           \* who has each capture buffer
    dq,                 \* the DQ thread: "off", "wait", "callback", "stopped"
    got_error,          \* ctx.got_error; abort(ctx) also aborts ctx.enc
    encoded_images,     \* "null", "live", "freed"
    input_frames_queued_count,
    num_encoded_frames, \* static in the callback, starts at 1
    callback,           \* "unset", "set"
    result              \* what Release returned: 1 before it did

planeVars == <<outPlane, capPlane>>
countVars == <<input_frames_queued_count, num_encoded_frames>>
vars == <<enc, next, planeVars, dq, got_error, encoded_images, countVars,
          callback, result>>

Output == 0..(OutputBuffers - 1)
Capture == 0..(CaptureBuffers - 1)

Alive == enc # "crashed"

\* fields of ctx that memset clears; result is "not returned"
Init ==
    /\ enc = "new"
    /\ next = 0
    /\ outPlane = [i \in Output |-> "none"]
    /\ capPlane = [i \in Capture |-> "none"]
    /\ dq = "off"
    /\ got_error = FALSE
    /\ encoded_images = "null"
    /\ input_frames_queued_count = 0
    /\ num_encoded_frames = 1
    /\ callback = "unset"
    /\ result = 1

----------------------------------------------------------------------------
(* The encoder queue.                                                       *)

\* SetDefaults: memset of ctx, then parameters that nothing below depends on
SetDefaults ==
    /\ got_error' = FALSE
    /\ input_frames_queued_count' = 0

\* InitEncode up to startDQThread: every failure on the way is an assert. No
\* raw buffer is queued, here or later, before Encode dequeues one: whether the
\* plane gives out a buffer that it was never given is up to NVIDIA's class,
\* so it may ("done") or may not ("none").
InitEncode ==
    /\ enc = "new"
    /\ SetDefaults
    /\ \/ /\ enc' = "crashed"
          /\ UNCHANGED <<outPlane, dq, encoded_images>>
       \/ /\ enc' = "filling"
          /\ outPlane' \in {[i \in Output |-> s] : s \in {"none", "done"}}
          /\ encoded_images' = "live"
          /\ dq' = "wait"
    /\ UNCHANGED <<next, capPlane, num_encoded_frames, callback, result>>

\* mutant: <= for < in the loop's condition
QueueCaptureOneMore ==
    /\ enc = "filling"
    /\ \/ /\ ~got_error
          /\ capPlane' = [capPlane EXCEPT ![next] = "hw"]
          /\ next' = next + 1
          /\ enc' = IF next = CaptureBuffers THEN "ready" ELSE "filling"
       \/ /\ enc' = "failed"
          /\ UNCHANGED <<capPlane, next>>
    /\ UNCHANGED <<outPlane, dq, got_error, encoded_images, countVars, callback,
                   result>>

\* one turn of "Enqueue all the empty capture plane buffers."
QueueCapture ==
    /\ enc = "filling"
    /\ \/ /\ ~got_error
          /\ capPlane' = [capPlane EXCEPT ![next] = "hw"]
          /\ next' = next + 1
          /\ enc' = IF next + 1 = CaptureBuffers THEN "ready" ELSE "filling"
       \/ /\ enc' = "failed"
          /\ UNCHANGED <<capPlane, next>>
    /\ UNCHANGED <<outPlane, dq, got_error, encoded_images, countVars, callback,
                   result>>

RegisterEncodeCompleteCallback ==
    /\ enc = "ready" /\ callback = "unset"
    /\ callback' = "set"
    /\ UNCHANGED <<enc, next, planeVars, dq, got_error, encoded_images, countVars,
                   result>>

\* a frame arrives: Encode is called, up to the wait in dqBuffer
Encode ==
    /\ enc = "ready"
    /\ input_frames_queued_count < MaxFrames
    /\ enc' = "dequeue"
    /\ UNCHANGED <<next, planeVars, dq, got_error, encoded_images, countVars,
                   callback, result>>

\* output_plane.dqBuffer gives a buffer the hardware has read
DequeueOutput ==
    /\ enc = "dequeue" /\ ~got_error
    /\ \E i \in Output :
          /\ outPlane[i] = "done"
          /\ outPlane' = [outPlane EXCEPT ![i] = "encode"]
    /\ enc' = "copy"
    /\ UNCHANGED <<next, capPlane, dq, got_error, encoded_images, countVars,
                   callback, result>>

\* dqBuffer fails: Encode returns -1 and has no buffer
DequeueError ==
    /\ enc = "dequeue"
    /\ enc' = "ready"
    /\ UNCHANGED <<next, planeVars, dq, got_error, encoded_images, countVars,
                   callback, result>>

\* ... as it does on a plane that was aborted
DequeueAborted == got_error /\ DequeueError

\* the frame is copied, its data about timing go to encoded_images[index], and
\* the buffer is queued. memcpy takes as many bytes as the raw buffer uses from
\* whatever ToI420 gives: null, or planes of another size, do not fit. index
\* runs over the output plane, and encoded_images has one element per capture
\* buffer.
QueueOutput ==
    /\ enc = "copy"
    /\ \E i \in Output, fits \in BOOLEAN :
          /\ outPlane[i] = "encode"
          /\ \/ /\ ~got_error
                /\ outPlane' = [outPlane EXCEPT ![i] = "hw"]
                /\ input_frames_queued_count' = input_frames_queued_count + 1
                /\ enc' = "ready"
             \/ /\ ~fits \/ i \notin Capture
                /\ enc' = "crashed"
                /\ UNCHANGED <<outPlane, input_frames_queued_count>>
    /\ UNCHANGED <<next, capPlane, dq, got_error, encoded_images,
                   num_encoded_frames, callback, result>>

\* mutant: the frame is counted before it is queued
EncodeErrorCounted ==
    /\ enc = "copy"
    /\ outPlane' = [i \in Output |->
                       IF outPlane[i] = "encode" THEN "lost" ELSE outPlane[i]]
    /\ input_frames_queued_count' = input_frames_queued_count + 1
    /\ enc' = "ready"
    /\ UNCHANGED <<next, capPlane, dq, got_error, encoded_images,
                   num_encoded_frames, callback, result>>

\* NvBufSurfaceFromFd, NvBufSurfaceSyncForDevice or qBuffer fails: Encode
\* returns -1, and the dequeued buffer is in nobody's hands
EncodeError ==
    /\ enc = "copy"
    /\ outPlane' = [i \in Output |->
                       IF outPlane[i] = "encode" THEN "lost" ELSE outPlane[i]]
    /\ enc' = "ready"
    /\ UNCHANGED <<next, capPlane, dq, got_error, encoded_images, countVars,
                   callback, result>>

\* ... as qBuffer does on a plane that was aborted
EncodeAborted == got_error /\ EncodeError

\* Release frees encoded_images; ctx.enc and its DQ thread stay as they are.
\* isInError() may also be TRUE after an ioctl that failed elsewhere.
Release ==
    /\ enc \in {"ready", "failed"}
    /\ enc' = "released"
    /\ result' \in IF got_error THEN {-1} ELSE {0, -1}
    /\ encoded_images' = "freed"
    /\ UNCHANGED <<next, planeVars, dq, got_error, countVars, callback>>

----------------------------------------------------------------------------
(* The DQ thread and its callback.                                          *)

DequeueCapture ==
    /\ Alive /\ dq = "wait"
    /\ \E c \in Capture :
          /\ capPlane[c] = "done"
          /\ capPlane' = [capPlane EXCEPT ![c] = "callback"]
    /\ dq' = "callback"
    /\ UNCHANGED <<enc, next, outPlane, got_error, encoded_images, countVars,
                   callback, result>>

\* JetsonEncoder::abort, and false to the DQ thread
Abort == got_error' = TRUE /\ dq' = "stopped"

\* buf == NULL: nothing could be dequeued
CaptureError ==
    /\ Alive /\ dq = "wait"
    /\ Abort
    /\ UNCHANGED <<enc, next, planeVars, encoded_images, countVars, callback, result>>

\* mutant: the thread stops, and the encoder is not aborted
CallbackErrorQuiet ==
    /\ Alive /\ dq = "callback"
    /\ num_encoded_frames' \in {num_encoded_frames, num_encoded_frames + 1}
    /\ dq' = "stopped"
    /\ UNCHANGED <<enc, next, planeVars, got_error, encoded_images,
                   input_frames_queued_count, callback, result>>

\* a buffer of size 0, or one that cannot be queued again
CallbackError ==
    /\ Alive /\ dq = "callback"
    /\ num_encoded_frames' \in {num_encoded_frames, num_encoded_frames + 1}
    /\ Abort
    /\ UNCHANGED <<enc, next, planeVars, encoded_images,
                   input_frames_queued_count, callback, result>>

\* mutant: the buffer is not queued again
CallbackKeepsBuffer ==
    /\ Alive /\ dq = "callback"
    /\ \E c \in Capture :
          /\ capPlane[c] = "callback"
          /\ capPlane' = [capPlane EXCEPT ![c] = "none"]
          /\ num_encoded_frames' = num_encoded_frames + 1
          /\ dq' = "wait"
    /\ UNCHANGED <<enc, next, outPlane, got_error, encoded_images,
                   input_frames_queued_count, callback, result>>

\* the image of the buffer is printed and the buffer goes back to the
\* hardware; encoded_images[buf->index] is looked at even when Release freed it
EncoderCapturePlaneCallback ==
    /\ Alive /\ dq = "callback"
    /\ \/ \E c \in Capture :
          /\ capPlane[c] = "callback"
          /\ capPlane' = [capPlane EXCEPT ![c] = "hw"]
          /\ num_encoded_frames' = num_encoded_frames + 1
          /\ dq' = "wait"
          /\ UNCHANGED enc
       \/ /\ encoded_images = "freed"
          /\ enc' = "crashed"
          /\ UNCHANGED <<capPlane, num_encoded_frames, dq>>
    /\ UNCHANGED <<next, outPlane, got_error, encoded_images,
                   input_frames_queued_count, callback, result>>

----------------------------------------------------------------------------
(* The hardware.                                                            *)

HardwareEncodes ==
    /\ Alive /\ ~got_error
    /\ \E i \in Output, c \in Capture :
          /\ outPlane[i] = "hw" /\ capPlane[c] = "hw"
          /\ outPlane' = [outPlane EXCEPT ![i] = "done"]
          /\ capPlane' = [capPlane EXCEPT ![c] = "done"]
    /\ UNCHANGED <<enc, next, dq, got_error, encoded_images, countVars, callback,
                   result>>

----------------------------------------------------------------------------
EncoderQueue ==
    \/ InitEncode \/ QueueCapture \/ RegisterEncodeCompleteCallback
    \/ Encode \/ DequeueOutput \/ DequeueError \/ QueueOutput \/ EncodeError
    \/ Release

DQThread ==
    \/ DequeueCapture \/ CaptureError
    \/ EncoderCapturePlaneCallback \/ CallbackError

Next == EncoderQueue \/ DQThread \/ HardwareEncodes

Spec == Init /\ [][Next]_vars

(* A call that can go on does, the DQ thread takes what is there, and the   *)
(* hardware encodes what it has a buffer for. No call has to fail on a      *)
(* plane that is not aborted, and no caller has to call.                    *)
FairSpec ==
    /\ Spec
    /\ WF_vars(DequeueOutput) /\ WF_vars(DequeueAborted)
    /\ WF_vars(QueueOutput) /\ WF_vars(EncodeAborted)
    /\ WF_vars(DequeueCapture) /\ WF_vars(EncoderCapturePlaneCallback)
    /\ WF_vars(HardwareEncodes)

----------------------------------------------------------------------------
(* Properties.                                                              *)

TypeOK ==
    /\ enc \in {"new", "filling", "failed", "ready", "dequeue", "copy",
                "released", "crashed"}
    /\ next \in 0..CaptureBuffers
    /\ enc = "filling" => next < CaptureBuffers
    /\ outPlane \in [Output -> {"none", "done", "encode", "hw", "lost"}]
    /\ capPlane \in [Capture -> {"none", "hw", "done", "callback"}]
    /\ dq \in {"off", "wait", "callback", "stopped"}
    /\ got_error \in BOOLEAN
    /\ encoded_images \in {"null", "live", "freed"}
    /\ input_frames_queued_count \in 0..MaxFrames
    /\ num_encoded_frames \in Nat
    /\ callback \in {"unset", "set"}
    /\ result \in {-1, 0, 1}

InHardware == {i \in Output : outPlane[i] = "hw"}
Encoded == {c \in Capture : capPlane[c] \in {"done", "callback"}}

(* While nothing went wrong, a frame that Encode accepted is in one place:  *)
(* its raw buffer is with the hardware, its encoded buffer is on the way to *)
(* the callback, or the callback has counted it. The three threads neither  *)
(* lose a frame nor encode one twice.                                       *)
FramesConserved ==
    ~got_error =>
        input_frames_queued_count + 1 =
            Cardinality(InHardware) + Cardinality(Encoded) + num_encoded_frames

\* the output plane has no buffer to give, now or later: it was never given
\* one, or calls of Encode that failed behind dqBuffer have kept them all
Starved == \A i \in Output : outPlane[i] \notin {"hw", "done"}

(* A call of Encode that waits for a raw buffer comes back as long as the   *)
(* plane or the hardware has one: the capture buffers circulate, whatever   *)
(* is full. And it comes back from any plane, an empty one too, when the DQ *)
(* thread gives up, as abort() wakes the caller. (On an empty plane of an   *)
(* encoder in order it may wait for good: nothing gives it a buffer.)       *)
EncodeReturns ==
    (enc = "dequeue" /\ (got_error \/ ~Starved)) ~> enc # "dequeue"

(* Release does not return OK when the DQ thread has given up before: every *)
(* way out of the callback with false passes through abort(), and got_error *)
(* stays until Release reads it.                                            *)
StopReported ==
    [][enc # "released" /\ enc' = "released" /\ dq = "stopped"
          => result' = -1]_vars

=============================================================================
