------------------------ MODULE JetsonEncoderProofs ------------------------
(***************************************************************************)
(* Proofs about JetsonEncoder for every number of buffers and frames. One   *)
(* inductive invariant serves all: the frames are conserved, given that     *)
(* InitEncode queues only capture buffers nobody has touched, and the DQ    *)
(* thread stops only after abort().                                         *)
(***************************************************************************)
EXTENDS JetsonEncoder, FiniteSetTheorems, TLAPS

\* before InitEncode nothing has happened; in its loop the capture buffers
\* from next on are untouched; inside Encode there is room for one frame
Phases ==
    /\ enc = "new" =>
          /\ dq = "off" /\ ~got_error
          /\ next = 0 /\ input_frames_queued_count = 0 /\ num_encoded_frames = 1
          /\ \A i \in Output : outPlane[i] = "none"
          /\ \A c \in Capture : capPlane[c] = "none"
    /\ enc = "filling" => \A c \in Capture : c >= next => capPlane[c] = "none"
    /\ enc \in {"dequeue", "copy"} => input_frames_queued_count < MaxFrames

IInv ==
    /\ TypeOK
    /\ Phases
    /\ FramesConserved
    /\ dq = "stopped" => got_error

\* The planes are finite, so the counts of their buffers are numbers.
LEMMA PlanesFinite ==
    /\ IsFiniteSet(InHardware) /\ Cardinality(InHardware) \in Nat
    /\ IsFiniteSet(Encoded) /\ Cardinality(Encoded) \in Nat
<1>1. IsFiniteSet(Output) /\ IsFiniteSet(Capture)
  BY FS_Interval, ConstantsAssumption DEF Output, Capture
<1>2. InHardware \subseteq Output /\ Encoded \subseteq Capture
  BY DEF InHardware, Encoded
<1> QED
  BY <1>1, <1>2, FS_Subset, FS_CardinalityType

\* The same for the primed planes.
LEMMA PlanesFinitePrimed ==
    /\ IsFiniteSet(InHardware') /\ Cardinality(InHardware') \in Nat
    /\ IsFiniteSet(Encoded') /\ Cardinality(Encoded') \in Nat
<1>1. IsFiniteSet(Output) /\ IsFiniteSet(Capture)
  BY FS_Interval, ConstantsAssumption DEF Output, Capture
<1>2. InHardware' \subseteq Output /\ Encoded' \subseteq Capture
  BY DEF InHardware, Encoded
<1> QED
  BY <1>1, <1>2, FS_Subset, FS_CardinalityType

\* A set that gains one element counts one more.
LEMMA OneMore ==
    ASSUME NEW S, NEW T, NEW x, IsFiniteSet(S), x \notin S, T = S \cup {x}
    PROVE  Cardinality(T) = Cardinality(S) + 1
BY FS_AddElement

\* A set that loses one element counts one less.
LEMMA OneLess ==
    ASSUME NEW S, NEW T, NEW x, IsFiniteSet(S), x \in S, T = S \ {x}
    PROVE  Cardinality(S) = Cardinality(T) + 1
<1>1. IsFiniteSet(T) /\ x \notin T /\ S = T \cup {x}
  BY FS_RemoveElement
<1> QED
  BY <1>1, OneMore

\* The invariant holds before InitEncode.
LEMMA InitInv == Init => IInv
<1> SUFFICES ASSUME Init PROVE IInv
  OBVIOUS
<1> USE ConstantsAssumption
<1>1. TypeOK
  <2>1. 0 \in 0..CaptureBuffers /\ 0 \in 0..MaxFrames
    OBVIOUS
  <2>2. /\ outPlane \in [Output -> {"none", "done", "encode", "hw", "lost"}]
        /\ capPlane \in [Capture -> {"none", "hw", "done", "callback"}]
    BY DEF Init
  <2> QED
    BY <2>1, <2>2 DEF Init, TypeOK
<1>2. Phases
  BY DEF Init, Phases
<1>3. InHardware = {} /\ Encoded = {}
  BY DEF Init, InHardware, Encoded
<1>4. FramesConserved
  BY <1>3, FS_EmptySet DEF Init, FramesConserved
<1> QED
  BY <1>1, <1>2, <1>4 DEF IInv, Init

\* Every step keeps types and phases, and stops the DQ thread only in abort().
LEMMA NextTypes ==
    ASSUME IInv, Next
    PROVE  TypeOK' /\ Phases' /\ (dq = "stopped" => got_error)'
<1> USE ConstantsAssumption DEF IInv
<1>1. CASE InitEncode
  <2>1. 0 \in 0..MaxFrames /\ 0 < CaptureBuffers
    OBVIOUS
  <2>2. outPlane' \in [Output -> {"none", "done", "encode", "hw", "lost"}]
    BY <1>1 DEF InitEncode, TypeOK
  <2>3. TypeOK'
    BY <1>1, <2>1, <2>2 DEF InitEncode, SetDefaults, TypeOK, Phases
  <2>4. Phases' /\ (dq = "stopped" => got_error)'
    BY <1>1 DEF InitEncode, SetDefaults, Phases
  <2> QED
    BY <2>3, <2>4
<1>2. CASE QueueCapture
  BY <1>2 DEF QueueCapture, TypeOK, Phases, countVars, planeVars, Capture
<1>3. CASE RegisterEncodeCompleteCallback
  BY <1>3 DEF RegisterEncodeCompleteCallback, TypeOK, Phases, countVars, planeVars
<1>4. CASE Encode
  BY <1>4 DEF Encode, TypeOK, Phases, countVars, planeVars
<1>5. CASE DequeueOutput
  BY <1>5 DEF DequeueOutput, TypeOK, Phases, countVars, planeVars
<1>6. CASE DequeueError
  BY <1>6 DEF DequeueError, TypeOK, Phases, countVars, planeVars
<1>7. CASE QueueOutput
  BY <1>7 DEF QueueOutput, TypeOK, Phases, countVars, planeVars
<1>8. CASE EncodeError
  BY <1>8 DEF EncodeError, TypeOK, Phases, countVars, planeVars
<1>9. CASE Release
  BY <1>9 DEF Release, TypeOK, Phases, countVars, planeVars
<1>10. CASE DequeueCapture
  BY <1>10 DEF DequeueCapture, TypeOK, Phases, countVars, planeVars
<1>11. CASE CaptureError
  BY <1>11 DEF CaptureError, Abort, TypeOK, Phases, countVars, planeVars
<1>12. CASE EncoderCapturePlaneCallback
  BY <1>12 DEF EncoderCapturePlaneCallback, TypeOK, Phases, countVars, planeVars
<1>13. CASE CallbackError
  BY <1>13 DEF CallbackError, Abort, TypeOK, Phases, countVars, planeVars
<1>14. CASE HardwareEncodes
  BY <1>14 DEF HardwareEncodes, TypeOK, Phases, countVars, planeVars
<1> QED
  BY <1>1, <1>2, <1>3, <1>4, <1>5, <1>6, <1>7, <1>8, <1>9, <1>10, <1>11,
     <1>12, <1>13, <1>14 DEF Next, EncoderQueue, DQThread

\* A step that moves no buffer into or out of the two counted sets, and
\* counts nothing, conserves the frames.
LEMMA SameSets ==
    ASSUME FramesConserved, InHardware' = InHardware, Encoded' = Encoded,
           UNCHANGED <<input_frames_queued_count, num_encoded_frames, got_error>>
    PROVE  FramesConserved'
BY DEF FramesConserved

\* Every step conserves the frames.
LEMMA NextConserves ==
    ASSUME IInv, Next
    PROVE  FramesConserved'
<1> USE DEF IInv
<1> DEFINE Counts == UNCHANGED <<input_frames_queued_count, num_encoded_frames,
                                 got_error>>
<1>1. CASE InitEncode
  <2>1. InHardware' = {} /\ Encoded' = {}
    BY <1>1 DEF InitEncode, InHardware, Encoded, Phases, TypeOK
  <2>2. /\ input_frames_queued_count' = 0 /\ num_encoded_frames' = 1
    BY <1>1 DEF InitEncode, SetDefaults, Phases
  <2> QED
    BY <2>1, <2>2, FS_EmptySet DEF FramesConserved
<1>2. CASE QueueCapture
  <2>1. Encoded' = Encoded
    BY <1>2 DEF QueueCapture, Encoded, Phases, TypeOK
  <2>2. InHardware' = InHardware /\ Counts
    BY <1>2 DEF QueueCapture, InHardware, countVars
  <2> QED
    BY <2>1, <2>2, SameSets
<1>3. CASE \/ RegisterEncodeCompleteCallback \/ Encode \/ DequeueError \/ Release
  <2>1. InHardware' = InHardware /\ Encoded' = Encoded /\ Counts
    BY <1>3 DEF RegisterEncodeCompleteCallback, Encode, DequeueError, Release,
                InHardware, Encoded, countVars, planeVars
  <2> QED
    BY <2>1, SameSets
<1>4. CASE DequeueOutput \/ EncodeError
  <2>1. InHardware' = InHardware
    BY <1>4 DEF DequeueOutput, EncodeError, InHardware, TypeOK
  <2>2. Encoded' = Encoded /\ Counts
    BY <1>4 DEF DequeueOutput, EncodeError, Encoded, countVars
  <2> QED
    BY <2>1, <2>2, SameSets
<1>5. CASE QueueOutput
  <2>1. Encoded' = Encoded /\ UNCHANGED <<num_encoded_frames, got_error>>
    BY <1>5 DEF QueueOutput, Encoded
  <2>2. CASE UNCHANGED <<outPlane, input_frames_queued_count>>
    <3>1. InHardware' = InHardware
      BY <2>2 DEF InHardware
    <3> QED
      BY <2>1, <2>2, <3>1, SameSets
  <2>3. CASE /\ input_frames_queued_count' = input_frames_queued_count + 1
             /\ \E i \in Output : /\ outPlane[i] = "encode"
                                  /\ outPlane' = [outPlane EXCEPT ![i] = "hw"]
    <3>1. PICK i \in Output : /\ outPlane[i] = "encode"
                              /\ outPlane' = [outPlane EXCEPT ![i] = "hw"]
      BY <2>3
    <3>2. i \notin InHardware /\ InHardware' = InHardware \cup {i}
      BY <3>1 DEF InHardware, TypeOK
    <3>3. Cardinality(InHardware') = Cardinality(InHardware) + 1
      BY <3>2, OneMore, PlanesFinite
    <3> QED
      BY <2>1, <2>3, <3>3, PlanesFinite DEF FramesConserved, TypeOK
  <2> QED
    BY <1>5, <2>2, <2>3 DEF QueueOutput
<1>6. CASE DequeueCapture
  <2>1. Encoded' = Encoded
    BY <1>6 DEF DequeueCapture, Encoded, TypeOK
  <2>2. InHardware' = InHardware /\ Counts
    BY <1>6 DEF DequeueCapture, InHardware, countVars
  <2> QED
    BY <2>1, <2>2, SameSets
<1>7. CASE CaptureError \/ CallbackError
  BY <1>7 DEF CaptureError, CallbackError, Abort, FramesConserved
<1>8. CASE EncoderCapturePlaneCallback
  <2>1. InHardware' = InHardware /\ UNCHANGED <<input_frames_queued_count, got_error>>
    BY <1>8 DEF EncoderCapturePlaneCallback, InHardware
  <2>2. CASE UNCHANGED <<capPlane, num_encoded_frames>>
    <3>1. Encoded' = Encoded
      BY <2>2 DEF Encoded
    <3> QED
      BY <2>1, <2>2, <3>1, SameSets
  <2>3. CASE /\ num_encoded_frames' = num_encoded_frames + 1
             /\ \E c \in Capture : /\ capPlane[c] = "callback"
                                   /\ capPlane' = [capPlane EXCEPT ![c] = "hw"]
    <3>1. PICK c \in Capture : /\ capPlane[c] = "callback"
                               /\ capPlane' = [capPlane EXCEPT ![c] = "hw"]
      BY <2>3
    <3>2. c \in Encoded /\ Encoded' = Encoded \ {c}
      BY <3>1 DEF Encoded, TypeOK
    <3>3. Cardinality(Encoded) = Cardinality(Encoded') + 1
      BY <3>2, OneLess, PlanesFinite
    <3> QED
      BY <2>1, <2>3, <3>3, PlanesFinite, PlanesFinitePrimed
         DEF FramesConserved, TypeOK
  <2> QED
    BY <1>8, <2>2, <2>3 DEF EncoderCapturePlaneCallback
<1>9. CASE HardwareEncodes
  <2>1. PICK i \in Output, c \in Capture :
           /\ outPlane[i] = "hw" /\ capPlane[c] = "hw"
           /\ outPlane' = [outPlane EXCEPT ![i] = "done"]
           /\ capPlane' = [capPlane EXCEPT ![c] = "done"]
    BY <1>9 DEF HardwareEncodes
  <2>2. i \in InHardware /\ InHardware' = InHardware \ {i}
    BY <2>1 DEF InHardware, TypeOK
  <2>3. c \notin Encoded /\ Encoded' = Encoded \cup {c}
    BY <2>1 DEF Encoded, TypeOK
  <2>4. Cardinality(InHardware) = Cardinality(InHardware') + 1
    BY <2>2, OneLess, PlanesFinite
  <2>5. Cardinality(Encoded') = Cardinality(Encoded) + 1
    BY <2>3, OneMore, PlanesFinite
  <2>6. Counts
    BY <1>9 DEF HardwareEncodes, countVars
  <2> QED
    BY <2>4, <2>5, <2>6, PlanesFinite, PlanesFinitePrimed DEF FramesConserved, TypeOK
<1> QED
  BY <1>1, <1>2, <1>3, <1>4, <1>5, <1>6, <1>7, <1>8, <1>9
     DEF Next, EncoderQueue, DQThread

\* A stuttering step changes nothing the invariant reads.
LEMMA StutterInv ==
    ASSUME IInv, UNCHANGED vars
    PROVE  IInv'
<1>1. InHardware' = InHardware /\ Encoded' = Encoded
  BY DEF vars, planeVars, InHardware, Encoded
<1> QED
  BY <1>1 DEF IInv, TypeOK, Phases, FramesConserved, vars, planeVars, countVars

\* The inductive invariant of the encoder holds throughout.
THEOREM Inductive == Spec => []IInv
<1>1. IInv /\ [Next]_vars => IInv'
  BY NextTypes, NextConserves, StutterInv DEF IInv
<1> QED
  BY <1>1, InitInv, PTL DEF Spec

\* Every variable of the encoder keeps its type: the loop of InitEncode stays
\* inside the capture plane, and at most MaxFrames frames are counted.
THEOREM TypeCorrect == Spec => []TypeOK
<1>1. IInv => TypeOK
  BY DEF IInv
<1> QED
  BY <1>1, Inductive, PTL

\* For any number of buffers on either plane, no interleaving of Encode, the
\* DQ thread and the hardware loses an accepted frame or counts it twice.
THEOREM Conserved == Spec => []FramesConserved
<1>1. IInv => FramesConserved
  BY DEF IInv
<1> QED
  BY <1>1, Inductive, PTL

\* Release never returns OK after the DQ thread has given up.
THEOREM StopIsReported == Spec => StopReported
<1>1. IInv /\ [Next]_vars =>
         [enc # "released" /\ enc' = "released" /\ dq = "stopped"
             => result' = -1]_vars
  <2> SUFFICES ASSUME IInv, Next, enc # "released", enc' = "released",
                      dq = "stopped"
               PROVE  result' = -1
    OBVIOUS
  <2>1. Release
    BY DEF Next, EncoderQueue, DQThread, InitEncode, QueueCapture,
           RegisterEncodeCompleteCallback, Encode, DequeueOutput, DequeueError,
           QueueOutput, EncodeError, DequeueCapture, CaptureError,
           EncoderCapturePlaneCallback, CallbackError, HardwareEncodes
  <2> QED
    BY <2>1 DEF Release, IInv
<1> QED
  BY <1>1, Inductive, PTL DEF Spec, StopReported

=============================================================================
