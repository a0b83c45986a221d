--------------------------- MODULE CaptureDevice ---------------------------
(***************************************************************************)
(* WHIPSession::AddCaptureDevice, step by step: the constructor of          *)
(* V4LDevice (src/v4l.cpp), CapturerTrackSource (src/whip.cpp) from         *)
(* CreateWithConfig or Create to its destruction, and the track. Two        *)
(* threads: main, which adds the device, and the capture thread that        *)
(* libwebrtc runs from StartCapture until the capture module goes.          *)
(* WhipSession takes the whole call as one step; the PeerConnection is not  *)
(* null here.                                                               *)
(***************************************************************************)
EXTENDS Naturals, Sequences

CONSTANTS
    Nodes,            \* the numbers n of the /dev/video<n> that exist
    Buses,            \* the bus_info of their devices
    Requests,         \* numbers that main passes for the uint8_t device_idx
    Sizes,            \* widths and heights; one value stands for both
    Rates,            \* frame rates
    Codes,            \* pixel formats: four characters
    Zero,             \* what memset leaves in place of a size or a bus_info
    None              \* no node, no configuration, no capability

Config == [size : Sizes, fourcc : Codes, fps : Rates]

ASSUME ConstantsAssumption ==
    /\ Nodes \subseteq 0..255 /\ Requests \subseteq Nat
    /\ Codes \subseteq [1..4 -> 0..127]
    /\ Zero \notin Sizes \cup Buses /\ None \notin Config /\ None \notin Nodes

VARIABLES
    busOf,            \* the bus_info of every node
    add,              \* what AddCaptureDevice does next
    request, config,  \* its arguments
    opened,           \* the node that V4LDevice opened
    fd,               \* the descriptor: "none", "open", "closed"
    cap,              \* V4LDevice::cap
    fmt, framerate,   \* V4LDevice::fmt and ::framerate
    capturer,         \* capturer_: "none", "idle", "capturing", "gone"
    captured,         \* the node that the capture module opened
    capability,       \* what StartCapture was given
    broadcaster,      \* broadcaster_: "none", "live", "destroyed"
    refs,             \* who refers to the CapturerTrackSource
    sent,             \* the PeerConnection took the track
    stale             \* a frame was delivered to a destroyed broadcaster

deviceVars == <<opened, fd, cap, fmt, framerate>>
captureVars == <<capturer, captured, capability, broadcaster>>
argVars == <<busOf, request, config>>
vars == <<argVars, add, deviceVars, captureVars, refs, sent, stale>>

NoCap == [capture |-> FALSE, streaming |-> FALSE, bus_info |-> Zero]

----------------------------------------------------------------------------
(* Conversions.                                                             *)

\* the macro of linux/videodev2.h
v4l2_fourcc(c) == c[1] + 256 * c[2] + 65536 * c[3] + 16777216 * c[4]

\* mutant: the bytes are read from the other end
fourcc_to_string_reversed(pixelformat) ==
    [i \in 1..4 |-> (pixelformat \div (256 ^ (4 - i))) % 256]

fourcc_to_string(pixelformat) ==
    [i \in 1..4 |-> (pixelformat \div (256 ^ (i - 1))) % 256]

I420 == <<73, 52, 50, 48>>
YU12 == <<89, 85, 49, 50>>
IYUV == <<73, 89, 85, 86>>
YUY2 == <<89, 85, 89, 50>>
YUYV == <<89, 85, 89, 86>>
YV12 == <<89, 86, 49, 50>>
UYVY == <<85, 89, 86, 89>>
NV21 == <<78, 86, 50, 49>>
NV12 == <<78, 86, 49, 50>>
BGRA == <<66, 71, 82, 65>>

\* "RGB24" has five characters, and no fourcc equals it
fourcc_to_videotype(fourcc) ==
    CASE fourcc \in {I420, YU12} -> "kI420"
      [] fourcc = IYUV           -> "kIYUV"
      [] fourcc \in {YUY2, YUYV} -> "kYUY2"
      [] fourcc = YV12           -> "kYV12"
      [] fourcc = UYVY           -> "kUYVY"
      [] fourcc = NV21           -> "kNV21"
      [] fourcc = NV12           -> "kNV12"
      [] fourcc = BGRA           -> "kBGRA"
      [] OTHER                   -> "kUnknown"

----------------------------------------------------------------------------
Init ==
    /\ busOf \in [Nodes -> Buses]
    /\ add = "call" /\ request \in Requests /\ config \in Config \cup {None}
    /\ opened = None /\ fd = "none" /\ cap = NoCap
    /\ fmt = [size |-> Zero, pixelformat |-> 0]
    /\ framerate \in Rates          \* never initialized
    /\ capturer = "none" /\ captured = None /\ capability = None
    /\ broadcaster = "none"
    /\ refs = {} /\ sent = FALSE /\ stale = FALSE

\* V4LDevice::_open; without a descriptor the constructor throws at once
Open ==
    /\ add = "call"
    /\ LET device_idx == request % 256
       IN  \/ /\ device_idx \in Nodes
              /\ opened' = device_idx /\ fd' = "open" /\ add' = "cap"
           \/ /\ add' = "threw"
              /\ UNCHANGED <<opened, fd>>
    /\ UNCHANGED <<argVars, cap, fmt, framerate, captureVars, refs, sent, stale>>

\* _fill_cap; when VIDIOC_QUERYCAP fails, cap stays zero
FillCap ==
    /\ add = "cap"
    /\ \/ cap' \in [capture : BOOLEAN, streaming : BOOLEAN,
                    bus_info : {busOf[opened]}]
       \/ UNCHANGED cap
    /\ add' = "format"
    /\ UNCHANGED <<argVars, opened, fd, fmt, framerate, captureVars, refs, sent,
                   stale>>

\* _fill_format; when VIDIOC_G_FMT fails, fmt stays zero
FillFormat ==
    /\ add = "format"
    /\ \/ \E s \in Sizes, c \in Codes :
             fmt' = [size |-> s, pixelformat |-> v4l2_fourcc(c)]
       \/ UNCHANGED fmt
    /\ add' = "check"
    /\ UNCHANGED <<argVars, opened, fd, cap, framerate, captureVars, refs, sent,
                   stale>>

\* mutant: a device that cannot stream is only logged
CheckCapsCapture ==
    /\ add = "check"
    /\ add' = "config"
    /\ UNCHANGED <<argVars, deviceVars, captureVars, refs, sent, stale>>

\* the end of the constructor: can_capture and can_stream, or an exception,
\* which leaves the descriptor to nobody, since no destructor runs
CheckCaps ==
    /\ add = "check"
    /\ \/ /\ ~cap.capture \/ ~cap.streaming
          /\ add' = "threw"
       \/ /\ cap.capture /\ cap.streaming
          /\ add' = "config"
    /\ UNCHANGED <<argVars, deviceVars, captureVars, refs, sent, stale>>

\* CreateWithConfig puts the config in place of the driver's format; Create
\* keeps that format, and framerate is whatever the memory held
Configure ==
    /\ add = "config"
    /\ \/ /\ config # None
          /\ fmt' = [size |-> config.size,
                     pixelformat |-> v4l2_fourcc(config.fourcc)]
          /\ framerate' = config.fps
       \/ /\ config = None
          /\ UNCHANGED <<fmt, framerate>>
    /\ add' = "create"
    /\ UNCHANGED <<argVars, opened, fd, cap, captureVars, refs, sent, stale>>

\* mutant: the V4LDevice is not destroyed
CreateCapturerLeaks ==
    /\ add = "create"
    /\ \/ /\ captured' \in {n \in Nodes : busOf[n] = cap.bus_info}
          /\ capturer' = "idle" /\ add' = "start"
       \/ /\ add' = "threw"
          /\ UNCHANGED <<capturer, captured>>
    /\ UNCHANGED <<argVars, deviceVars, capability, broadcaster, refs, sent, stale>>

\* VideoCaptureFactory::Create is given bus_info and not the node; when it
\* returns null the V4LDevice is destroyed and AddCaptureDevice throws
CreateCapturer ==
    /\ add = "create"
    /\ \/ /\ captured' \in {n \in Nodes : busOf[n] = cap.bus_info}
          /\ capturer' = "idle" /\ add' = "start"
          /\ UNCHANGED fd
       \/ /\ fd' = "closed" /\ add' = "threw"
          /\ UNCHANGED <<capturer, captured>>
    /\ UNCHANGED <<argVars, opened, cap, fmt, framerate, capability, broadcaster,
                   refs, sent, stale>>

\* the constructor of CapturerTrackSource; a failed StartCapture is an
\* assert(false), or nothing in a build with NDEBUG
StartCapture ==
    /\ add = "start"
    /\ broadcaster' = "live"
    /\ capability' = [size |-> fmt.size, maxFPS |-> framerate,
                      videoType |->
                          fourcc_to_videotype(fourcc_to_string(fmt.pixelformat))]
    /\ \/ /\ capturer' = "capturing"
          /\ refs' = {"video_device"} /\ add' = "track"
       \/ /\ add' = "aborted"
          /\ UNCHANGED <<capturer, refs>>
       \/ /\ refs' = {"video_device"} /\ add' = "track"
          /\ UNCHANGED capturer
    /\ UNCHANGED <<argVars, deviceVars, captured, sent, stale>>

\* CreateVideoTrack: the track holds the source; AddTrack, whose failure is
\* logged
AddTrack ==
    /\ add = "track"
    /\ refs' = refs \cup {"track"}
    /\ sent' \in BOOLEAN
    /\ add' = "leave"
    /\ UNCHANGED <<argVars, deviceVars, captureVars, stale>>

\* mutant: the source is destroyed even when the track has been added
LeaveWithoutTrack ==
    /\ add = "leave"
    /\ refs' = {}
    /\ add' = "destroy"
    /\ UNCHANGED <<argVars, deviceVars, captureVars, sent, stale>>

\* mutant: nobody destroys the source
LeaveLeaks ==
    /\ add = "leave"
    /\ refs' = refs \ (IF sent THEN {"video_device"} ELSE {"track", "video_device"})
    /\ add' = "returned"
    /\ UNCHANGED <<argVars, deviceVars, captureVars, sent, stale>>

\* the locals go: video_track_, and with it a track that nobody took, then
\* video_device. The last reference destroys the source.
Leave ==
    /\ add = "leave"
    /\ refs' = refs \ (IF sent THEN {"video_device"} ELSE {"track", "video_device"})
    /\ add' = IF refs' = {} THEN "destroy" ELSE "returned"
    /\ UNCHANGED <<argVars, deviceVars, captureVars, sent, stale>>

\* the members of CapturerTrackSource go in reverse order: broadcaster_, ...
DestroyBroadcaster ==
    /\ add = "destroy" /\ broadcaster = "live"
    /\ broadcaster' = "destroyed"
    /\ UNCHANGED <<argVars, add, deviceVars, capturer, captured, capability, refs,
                   sent, stale>>

\* ... device_, whose destructor closes the descriptor, ...
DestroyDevice ==
    /\ add = "destroy" /\ broadcaster = "destroyed" /\ fd = "open"
    /\ fd' = "closed"
    /\ UNCHANGED <<argVars, add, opened, cap, fmt, framerate, captureVars, refs,
                   sent, stale>>

\* ... and capturer_: the capture module stops its thread
DestroyCapturer ==
    /\ add = "destroy" /\ fd = "closed"
    /\ capturer' = "gone" /\ add' = "returned"
    /\ UNCHANGED <<argVars, deviceVars, captured, capability, broadcaster, refs,
                   sent, stale>>

Main ==
    \/ Open \/ FillCap \/ FillFormat \/ CheckCaps \/ Configure \/ CreateCapturer
    \/ StartCapture \/ AddTrack \/ Leave
    \/ DestroyBroadcaster \/ DestroyDevice \/ DestroyCapturer

\* the capture thread calls OnFrame of the registered broadcaster_
DeliverFrame ==
    /\ capturer = "capturing" /\ add # "aborted"
    /\ stale' = (stale \/ broadcaster = "destroyed")
    /\ UNCHANGED <<argVars, add, deviceVars, captureVars, refs, sent>>

Next == Main \/ DeliverFrame

Spec == Init /\ [][Next]_vars

(* The system calls and the library's calls return.                         *)
FairSpec == Spec /\ WF_vars(Main)

----------------------------------------------------------------------------
(* Properties.                                                              *)

(* Frames come from the bus of the node that the user named, and from a     *)
(* device that can capture and stream, as long as the number fits the       *)
(* uint8_t. AddCaptureDevice opens /dev/video<n> and hands only its         *)
(* bus_info on, so the same node it need not be.                            *)
CapturesNamed ==
    capturer = "capturing" =>
        /\ request < 256 => opened = request
        /\ busOf[captured] = busOf[opened]
        /\ cap.capture /\ cap.streaming

(* The capture module is started with the size, the rate and the video type *)
(* of the configuration, whatever format the driver reported before: the    *)
(* four characters survive the way through pixelformat.                     *)
StartsAsConfigured ==
    (capability # None /\ config # None) =>
        capability = [size |-> config.size, maxFPS |-> config.fps,
                      videoType |-> fourcc_to_videotype(config.fourcc)]

(* When AddCaptureDevice is over, the descriptor is open exactly when the   *)
(* source lives on with its track, or when the constructor of V4LDevice     *)
(* threw after _open: then nobody owns it.                                  *)
DescriptorOwned ==
    add \in {"returned", "threw"} =>
        (fd = "open" <=> \/ refs # {}
                         \/ add = "threw" /\ opened # None /\ capturer = "none"
                            /\ ~(cap.capture /\ cap.streaming))

(* A frame reaches a destroyed broadcaster_ only when AddTrack has failed:  *)
(* a track that was added keeps the source. The members are destroyed       *)
(* before the capture module stops, so with a failed AddTrack it may.       *)
StaleOnlyUnsent == stale => add \in {"destroy", "returned"} /\ ~sent

(* AddCaptureDevice ends: it returns with the source held by the track or   *)
(* with the source gone and the capture stopped, or it throws, or the       *)
(* assert fails.                                                            *)
AddEnds ==
    <>[](\/ add = "returned" /\ (capturer = "gone" <=> refs = {})
         \/ add \in {"threw", "aborted"} /\ capturer # "capturing")

=============================================================================
