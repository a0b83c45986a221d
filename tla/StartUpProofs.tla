--------------------------- MODULE StartUpProofs ---------------------------
(***************************************************************************)
(* Proofs about what main does before it connects. CaptureDevice, for any   *)
(* nodes and buses, any device number, any configuration and every result   *)
(* of the system calls: the invariant says, stage by stage of               *)
(* AddCaptureDevice, what has been opened, created and destroyed so far,    *)
(* and who refers to it. WadiArgs, for any command line: the invariant says *)
(* what the tokens read so far have put into the variables of the loop.     *)
(***************************************************************************)
EXTENDS CaptureDevice, WadiArgs, FiniteSetTheorems, SequenceTheorems, TLAPS

----------------------------------------------------------------------------
(* The pixel format.                                                        *)

\* A shift by several bytes is that many shifts by one.
LEMMA Shifts ==
    ASSUME NEW n \in Nat
    PROVE  /\ n \div (256 ^ (1 - 1)) = n
           /\ n \div (256 ^ (2 - 1)) = n \div 256
           /\ n \div (256 ^ (3 - 1)) = (n \div 256) \div 256
           /\ n \div (256 ^ (4 - 1)) = ((n \div 256) \div 256) \div 256
BY SMT

\* byte j of a number
Byte(n, j) == (n \div (256 ^ (j - 1))) % 256

Packed(a, b, c, d) == a + 256 * (b + 256 * (c + 256 * d))
Ascii == 0..127

\* Four bytes packed into one number come out again, the lowest first.
LEMMA FourBytes ==
    ASSUME NEW a \in Ascii, NEW b \in Ascii, NEW c \in Ascii, NEW d \in Ascii,
           NEW n, n = Packed(a, b, c, d)
    PROVE  Byte(n, 1) = a /\ Byte(n, 2) = b /\ Byte(n, 3) = c /\ Byte(n, 4) = d
<1> DEFINE high2 == c + 256 * d
           high1 == b + 256 * high2
<1>1. a \in 0..255 /\ b \in 0..255 /\ c \in 0..255 /\ d \in Nat /\ d % 256 = d
  BY SMT DEF Ascii
<1>2. n = a + 256 * high1
  BY SMT DEF Packed
<1>3. high2 \in Nat /\ high2 % 256 = c /\ high2 \div 256 = d
  BY <1>1, SMT
<1> HIDE DEF high2
<1>4. high1 \in Nat /\ high1 % 256 = b /\ high1 \div 256 = high2
  BY <1>1, <1>3, SMT
<1> HIDE DEF high1
<1>5. n \in Nat /\ n % 256 = a /\ n \div 256 = high1
  BY <1>1, <1>2, <1>4, SMT
<1> QED
  BY <1>1, <1>3, <1>4, <1>5, Shifts, SMT DEF Byte

\* fourcc_to_string gives back the four characters that v4l2_fourcc packed.
LEMMA FourCCKept ==
    ASSUME NEW code \in [1..4 -> 0..127]
    PROVE  fourcc_to_string(v4l2_fourcc(code)) = code
<1> DEFINE n == v4l2_fourcc(code)
           a == code[1]
           b == code[2]
           c == code[3]
           d == code[4]
<1>1. a \in Ascii /\ b \in Ascii /\ c \in Ascii /\ d \in Ascii
  BY SMT DEF Ascii
<1>2. n = a + 256 * b + 65536 * c + 16777216 * d
  BY SMT DEF v4l2_fourcc
<1> HIDE DEF n, a, b, c, d
<1>3. n = Packed(a, b, c, d)
  BY <1>1, <1>2, SMT DEF Packed, Ascii
<1>4. Byte(n, 1) = a /\ Byte(n, 2) = b /\ Byte(n, 3) = c /\ Byte(n, 4) = d
  BY <1>1, <1>3, FourBytes
<1>5. \A j \in 1..4 : Byte(n, j) = code[j]
  BY <1>4, SMT DEF a, b, c, d
<1>6. fourcc_to_string(n) = [j \in 1..4 |-> Byte(n, j)]
  BY SMT DEF fourcc_to_string, Byte
<1> QED
  BY <1>5, <1>6, SMT DEF n

----------------------------------------------------------------------------
(* The invariant of AddCaptureDevice.                                       *)

\* stages up to the end of V4LDevice's constructor, then up to StartCapture
Opening == {"cap", "format", "check"}
Creating == {"config", "create", "start"}
Started == {"track", "leave", "destroy", "returned"}

Types ==
    /\ add \in {"call", "threw", "aborted"} \cup Opening \cup Creating \cup Started
    /\ busOf \in [Nodes -> Buses]
    /\ request \in Nat /\ config \in Config \cup {None}
    /\ cap \in [capture : BOOLEAN, streaming : BOOLEAN, bus_info : Buses \cup {Zero}]
    /\ sent \in BOOLEAN /\ stale \in BOOLEAN

\* the node that is open, what is known of it, and the format asked of it
Device ==
    /\ opened \in {None, request % 256}
    /\ opened # None => opened \in Nodes
    /\ opened = None <=> fd = "none"
    /\ add = "call" => opened = None
    /\ add \in Opening \cup Creating \cup Started \cup {"aborted"} => opened # None
    /\ add \in {"call", "cap"} \/ opened = None => cap = NoCap
    /\ cap.capture => cap.bus_info = busOf[opened]
    /\ add \in Creating \cup Started \cup {"aborted"} => cap.capture /\ cap.streaming

Format ==
    /\ (config # None /\ add \in {"create", "start"}) =>
           /\ fmt = [size |-> config.size, pixelformat |-> v4l2_fourcc(config.fourcc)]
           /\ framerate = config.fps
    /\ add \notin Started \cup {"aborted"} => capability = None
    /\ StartsAsConfigured

\* the capture module, its broadcaster and its references, stage by stage
Source ==
    /\ capturer = "none" <=> add \notin {"start", "aborted"} \cup Started
    /\ capturer # "none" => captured \in Nodes /\ busOf[captured] = cap.bus_info
    /\ add \in {"start", "aborted"} => capturer = "idle"
    /\ add \notin Started => refs = {}
    /\ add = "track" => refs = {"video_device"}
    /\ add = "leave" => refs = {"video_device", "track"}
    /\ add = "destroy" => refs = {} /\ ~sent
    /\ add = "returned" => refs = (IF sent THEN {"track"} ELSE {})
    /\ broadcaster = "destroyed" => add \in {"destroy", "returned"} /\ ~sent
    /\ StaleOnlyUnsent

\* who has the descriptor
Descriptor ==
    /\ add \in Opening \cup Creating \cup {"track", "leave"} => fd = "open"
    /\ add = "threw" /\ fd = "open" => ~(cap.capture /\ cap.streaming)
    /\ add = "threw" /\ fd = "closed" => cap.capture /\ cap.streaming
    /\ fd \in {"none", "open", "closed"}
    /\ add = "returned" => (fd = "open" <=> sent)

IInv == Types /\ Device /\ Format /\ Source /\ Descriptor

\* The invariant holds when AddCaptureDevice is called.
LEMMA InitInv == Init => IInv
<1> SUFFICES ASSUME Init PROVE IInv
  OBVIOUS
<1> USE DEF Init, Opening, Creating, Started
<1>1. Types
  BY ConstantsAssumption DEF Types, NoCap
<1>2. Device
  BY DEF Device, NoCap
<1>3. Format /\ Source /\ Descriptor
  BY DEF Format, Source, Descriptor, StartsAsConfigured, StaleOnlyUnsent
<1> QED
  BY <1>1, <1>2, <1>3 DEF IInv

\* Every step of main and of the capture thread keeps the invariant.
LEMMA NextInv ==
    ASSUME IInv, Next
    PROVE  IInv'
<1> USE DEF IInv, Opening, Creating, Started, argVars, deviceVars, captureVars
<1>1. CASE Open
  <2> USE <1>1 DEF Open
  <2>1. Types'
    BY DEF Types
  <2>2. Device'
    <3>1. add = "call" /\ opened = None /\ fd = "none" /\ cap = NoCap /\ ~cap.capture
      BY DEF Device, NoCap
    <3>2. CASE add' = "cap"
      BY <3>1, <3>2, ConstantsAssumption DEF Device
    <3>3. CASE add' = "threw"
      BY <3>1, <3>3 DEF Device
    <3> QED
      BY <3>2, <3>3
  <2>3. Format'
    BY DEF Types, Format, StartsAsConfigured
  <2>4. Source'
    BY DEF Types, Device, Source, StaleOnlyUnsent
  <2>5. Descriptor'
    BY DEF Types, Device, Source, Descriptor
  <2> QED
    BY <2>1, <2>2, <2>3, <2>4, <2>5
<1>2. CASE FillCap
  <2> USE <1>2 DEF FillCap
  <2>1. Types'
    <3>1. busOf[opened] \in Buses
      BY DEF Types, Device
    <3> QED
      BY <3>1 DEF Types
  <2>2. Device'
    BY DEF Types, Device
  <2>3. Format'
    BY DEF Types, Format, StartsAsConfigured
  <2>4. Source'
    BY DEF Types, Device, Source, StaleOnlyUnsent
  <2>5. Descriptor'
    BY DEF Types, Device, Source, Descriptor
  <2> QED
    BY <2>1, <2>2, <2>3, <2>4, <2>5
<1>3. CASE FillFormat
  <2> USE <1>3 DEF FillFormat
  <2>1. Types'
    BY DEF Types
  <2>2. Device'
    BY DEF Types, Device
  <2>3. Format'
    BY DEF Types, Format, StartsAsConfigured
  <2>4. Source'
    BY DEF Types, Device, Source, StaleOnlyUnsent
  <2>5. Descriptor'
    BY DEF Types, Device, Source, Descriptor
  <2> QED
    BY <2>1, <2>2, <2>3, <2>4, <2>5
<1>4. CASE CheckCaps
  <2> USE <1>4 DEF CheckCaps
  <2>1. Types'
    BY DEF Types
  <2>2. Device'
    BY DEF Types, Device
  <2>3. Format'
    BY DEF Types, Format, StartsAsConfigured
  <2>4. Source'
    BY DEF Types, Device, Source, StaleOnlyUnsent
  <2>5. Descriptor'
    BY DEF Types, Device, Source, Descriptor
  <2> QED
    BY <2>1, <2>2, <2>3, <2>4, <2>5
<1>5. CASE Configure
  <2> USE <1>5 DEF Configure
  <2>1. Types'
    BY DEF Types
  <2>2. Device'
    BY DEF Types, Device
  <2>3. Format'
    BY DEF Types, Format, StartsAsConfigured
  <2>4. Source'
    BY DEF Types, Device, Source, StaleOnlyUnsent
  <2>5. Descriptor'
    BY DEF Types, Device, Source, Descriptor
  <2> QED
    BY <2>1, <2>2, <2>3, <2>4, <2>5
<1>6. CASE CreateCapturer
  <2> USE <1>6 DEF CreateCapturer
  <2>1. Types'
    BY DEF Types
  <2>2. Device'
    BY DEF Types, Device
  <2>3. Format'
    BY DEF Types, Format, StartsAsConfigured
  <2>4. Source'
    BY DEF Types, Device, Source, StaleOnlyUnsent
  <2>5. Descriptor'
    BY DEF Types, Device, Source, Descriptor
  <2> QED
    BY <2>1, <2>2, <2>3, <2>4, <2>5
<1>7. CASE StartCapture
  <2> USE <1>7 DEF StartCapture
  <2>1. Types'
    BY DEF Types
  <2>2. Device'
    BY DEF Types, Device
  <2>3. Format'
    <3>1. ASSUME config # None
          PROVE  capability' = [size |-> config.size, maxFPS |-> config.fps,
                                videoType |-> fourcc_to_videotype(config.fourcc)]
      <4>1. config.fourcc \in [1..4 -> 0..127]
        BY <3>1, ConstantsAssumption DEF Types, Config
      <4>2. fourcc_to_string(v4l2_fourcc(config.fourcc)) = config.fourcc
        BY <4>1, FourCCKept
      <4>3. /\ fmt.size = config.size /\ framerate = config.fps
            /\ fmt.pixelformat = v4l2_fourcc(config.fourcc)
        BY <3>1 DEF Format
      <4> QED
        BY <4>2, <4>3
    <3>2. add' \in {"track", "aborted"} /\ UNCHANGED config
      OBVIOUS
    <3> QED
      BY <3>1, <3>2 DEF Format, StartsAsConfigured
  <2>4. Source'
    BY DEF Types, Device, Source, StaleOnlyUnsent
  <2>5. Descriptor'
    BY DEF Types, Device, Source, Descriptor
  <2> QED
    BY <2>1, <2>2, <2>3, <2>4, <2>5
<1>8. CASE AddTrack
  <2> USE <1>8 DEF AddTrack
  <2>1. Types'
    BY DEF Types
  <2>2. Device'
    BY DEF Types, Device
  <2>3. Format'
    BY DEF Types, Format, StartsAsConfigured
  <2>4. Source'
    BY DEF Types, Device, Source, StaleOnlyUnsent
  <2>5. Descriptor'
    BY DEF Types, Device, Source, Descriptor
  <2> QED
    BY <2>1, <2>2, <2>3, <2>4, <2>5
<1>9. CASE Leave
  <2> USE <1>9 DEF Leave
  <2>1. Types'
    BY DEF Types
  <2>2. Device'
    BY DEF Types, Device
  <2>3. Format'
    BY DEF Types, Format, StartsAsConfigured
  <2>4. Source'
    BY DEF Types, Device, Source, StaleOnlyUnsent
  <2>5. Descriptor'
    BY DEF Types, Device, Source, Descriptor
  <2> QED
    BY <2>1, <2>2, <2>3, <2>4, <2>5
<1>10. CASE DestroyBroadcaster
  <2> USE <1>10 DEF DestroyBroadcaster
  <2>1. Types'
    BY DEF Types
  <2>2. Device'
    BY DEF Types, Device
  <2>3. Format'
    BY DEF Types, Format, StartsAsConfigured
  <2>4. Source'
    BY DEF Types, Device, Source, StaleOnlyUnsent
  <2>5. Descriptor'
    BY DEF Types, Device, Source, Descriptor
  <2> QED
    BY <2>1, <2>2, <2>3, <2>4, <2>5
<1>11. CASE DestroyDevice
  <2> USE <1>11 DEF DestroyDevice
  <2>1. Types'
    BY DEF Types
  <2>2. Device'
    BY DEF Types, Device
  <2>3. Format'
    BY DEF Types, Format, StartsAsConfigured
  <2>4. Source'
    BY DEF Types, Device, Source, StaleOnlyUnsent
  <2>5. Descriptor'
    BY DEF Types, Device, Source, Descriptor
  <2> QED
    BY <2>1, <2>2, <2>3, <2>4, <2>5
<1>12. CASE DestroyCapturer
  <2> USE <1>12 DEF DestroyCapturer
  <2>1. Types'
    BY DEF Types
  <2>2. Device'
    BY DEF Types, Device
  <2>3. Format'
    BY DEF Types, Format, StartsAsConfigured
  <2>4. Source'
    BY DEF Types, Device, Source, StaleOnlyUnsent
  <2>5. Descriptor'
    BY DEF Types, Device, Source, Descriptor
  <2> QED
    BY <2>1, <2>2, <2>3, <2>4, <2>5
<1>13. CASE DeliverFrame
  <2> USE <1>13 DEF DeliverFrame
  <2>1. Types'
    BY DEF Types
  <2>2. Device'
    BY DEF Types, Device
  <2>3. Format'
    BY DEF Types, Format, StartsAsConfigured
  <2>4. Source'
    BY DEF Types, Device, Source, StaleOnlyUnsent
  <2>5. Descriptor'
    BY DEF Types, Device, Source, Descriptor
  <2> QED
    BY <2>1, <2>2, <2>3, <2>4, <2>5
<1> QED
  BY <1>1, <1>2, <1>3, <1>4, <1>5, <1>6, <1>7, <1>8, <1>9, <1>10, <1>11, <1>12, <1>13 DEF Next, Main

\* The invariant holds throughout AddCaptureDevice and after it.
THEOREM CaptureInductive == Spec => []IInv
<1>1. IInv /\ UNCHANGED vars => IInv'
  BY DEF vars, argVars, deviceVars, captureVars, IInv, Types, Device, Format, Source,
         Descriptor, StartsAsConfigured, StaleOnlyUnsent
<1>2. IInv /\ [Next]_vars => IInv'
  BY <1>1, NextInv
<1> QED
  BY <1>2, InitInv, PTL DEF Spec

\* Whatever nodes and buses there are, frames come from the bus of the node that
\* the user named, and from a device that can capture and stream.
THEOREM NamedCaptured == Spec => []CapturesNamed
<1>1. IInv => CapturesNamed
  <2> SUFFICES ASSUME IInv, capturer = "capturing" PROVE CapturesNamed
    BY DEF CapturesNamed
  <2>1. add \in Started
    BY DEF IInv, Source, Started
  <2>2. /\ opened = request % 256 /\ cap.capture /\ cap.streaming
        /\ cap.bus_info = busOf[opened] /\ busOf[captured] = cap.bus_info
    BY <2>1 DEF IInv, Device, Source, Started
  <2>3. request < 256 => request % 256 = request
    BY SMT DEF IInv, Types
  <2> QED
    BY <2>2, <2>3 DEF CapturesNamed
<1> QED
  BY <1>1, CaptureInductive, PTL

\* The capture module is started as configured, for every configuration whose
\* code is of four ASCII characters.
THEOREM ConfigurationUsed == Spec => []StartsAsConfigured
<1>1. IInv => StartsAsConfigured
  BY DEF IInv, Format
<1> QED
  BY <1>1, CaptureInductive, PTL

\* When AddCaptureDevice is over, the descriptor is open exactly when the source
\* lives on, or when the constructor of V4LDevice threw behind _open.
THEOREM DescriptorHasOwner == Spec => []DescriptorOwned
<1>1. IInv => DescriptorOwned
  BY DEF IInv, DescriptorOwned, Device, Source, Descriptor, Opening, Creating, Started
<1> QED
  BY <1>1, CaptureInductive, PTL

\* A frame reaches a destroyed broadcaster_ only after a failed AddTrack.
THEOREM StaleAfterFailure == Spec => []StaleOnlyUnsent
<1>1. IInv => StaleOnlyUnsent
  BY DEF IInv, Source
<1> QED
  BY <1>1, CaptureInductive, PTL


----------------------------------------------------------------------------
(* WadiArgs: the words of the command line, for any of them.                *)

\* the place of n when the elements of S are listed in order
Place(S, n) == Cardinality({m \in S : m <= n})

\* s holds the texts of the tokens at the places S, in their order
Lists(s, S, tokens) ==
    /\ Len(s) = Cardinality(S)
    /\ \A n \in S : s[Place(S, n)] = tokens[n].text

\* A word appended to a list is the one of a token behind all the others.
LEMMA ListsAppend ==
    ASSUME NEW S, NEW l \in Nat, S \subseteq 1..l, l \notin S,
           NEW X, NEW s \in Seq(X), NEW tokens, tokens[l].text \in X,
           Lists(s, S, tokens)
    PROVE  Lists(Append(s, tokens[l].text), S \cup {l}, tokens)
<1> DEFINE T == S \cup {l}
           t == Append(s, tokens[l].text)
<1>1. IsFiniteSet(S) /\ Cardinality(S) \in Nat
  <2>1. IsFiniteSet(1..l)
    BY FS_Interval
  <2> QED
    BY <2>1, FS_Subset, FS_CardinalityType
<1>2. Cardinality(T) = Cardinality(S) + 1
  BY <1>1, FS_AddElement
<1>3. ASSUME NEW n \in S PROVE Place(S, n) \in 1..Cardinality(S)
  <2> DEFINE U == {m \in S : m <= n}
  <2>1. U \subseteq S /\ n \in U
    OBVIOUS
  <2>2. IsFiniteSet(U) /\ Cardinality(U) <= Cardinality(S) /\ Cardinality(U) \in Nat
    BY <1>1, <2>1, FS_Subset, FS_CardinalityType
  <2>3. Cardinality(U) # 0
    BY <2>1, <2>2, FS_EmptySet
  <2> QED
    BY <1>1, <2>2, <2>3 DEF Place
<1>4. ASSUME NEW n \in S PROVE Place(T, n) = Place(S, n)
  <2>1. {m \in T : m <= n} = {m \in S : m <= n}
    OBVIOUS
  <2> QED
    BY <2>1 DEF Place
<1>5. Place(T, l) = Cardinality(S) + 1
  <2>1. \A m \in T : m <= l
    OBVIOUS
  <2>2. {m \in T : m <= l} = T
    BY <2>1
  <2> QED
    BY <1>2, <2>2 DEF Place
<1>6. Len(s) = Cardinality(S) /\ \A n \in S : s[Place(S, n)] = tokens[n].text
  BY DEF Lists
<1>7. /\ Len(t) = Cardinality(S) + 1 /\ t[Cardinality(S) + 1] = tokens[l].text
      /\ \A n \in 1..Cardinality(S) : t[n] = s[n]
  BY <1>1, <1>6
<1> HIDE DEF T, t
<1>8. ASSUME NEW n \in T PROVE t[Place(T, n)] = tokens[n].text
  <2>1. CASE n = l
    BY <1>5, <1>7, <2>1
  <2>2. CASE n \in S
    BY <1>3, <1>4, <1>6, <1>7, <2>2
  <2> QED
    BY <2>1, <2>2 DEF T
<1>9. Lists(t, T, tokens)
  BY <1>2, <1>7, <1>8 DEF Lists
<1> QED
  BY <1>9 DEF T, t

----------------------------------------------------------------------------
(* The invariant of the pass over the command line.                         *)

ArgsTypes ==
    /\ argv \in Seq(Tokens) /\ i \in 1..(Len(argv) + 1)
    /\ key \in Names \cup {nullopt}
    /\ named \in [Names -> Words \cup {nullopt}]
    /\ positional \in Seq(Words)

\* the flag that waits for its value is the last token read
Pending ==
    key = IF i > 1 /\ argv[i - 1].flag THEN argv[i - 1].text ELSE nullopt

\* a name has what its last flag was given
NamedInv == \A name \in Names : Says(name, nullopt, named[name])

\* the free words so far, in order
Listed == Lists(positional, Free, argv)

\* FromArgs ran after the last token, main after FromArgs
Configured ==
    /\ wadi_config # nullopt =>
          /\ i > Len(argv)
          /\ wadi_config.video_device \in Words
          /\ wadi_config.video_device = IF named["d"] = nullopt THEN "0" ELSE named["d"]
          /\ wadi_config.fourcc = Code(named["c"])
    /\ device_idx # nullopt =>
          /\ wadi_config # nullopt
          /\ device_idx = atoi[substr[wadi_config.video_device]] % 256

ArgsInv == ArgsTypes /\ Pending /\ NamedInv /\ Listed /\ Configured

\* What a token can be.
LEMMA TokenFields ==
    ASSUME argv \in Seq(Tokens), NEW n \in 1..Len(argv)
    PROVE  /\ argv[n].flag \in BOOLEAN
           /\ argv[n].flag => argv[n].text \in Names
           /\ ~argv[n].flag => argv[n].text \in Words
<1>1. argv[n] \in Tokens
  OBVIOUS
<1> QED
  BY <1>1 DEF Tokens

\* What is behind a flag stands for a word.
LEMMA BehindWord ==
    ASSUME ArgsTypes, NEW name, NEW n \in Given(name)
    PROVE  Behind(n) \in Words
<1>1. argv \in Seq(Tokens) /\ n + 1 \in 1..Len(argv)
  BY DEF ArgsTypes, Given
<1>2. /\ argv[n + 1].flag \in BOOLEAN
      /\ ~argv[n + 1].flag => argv[n + 1].text \in Words
  BY <1>1, TokenFields
<1> QED
  BY <1>2, ArgsAssumption DEF Behind

\* Nothing is read yet: no flag has a value and no word is free.
LEMMA ArgsInitInv == ArgsInit => ArgsInv
<1> SUFFICES ASSUME ArgsInit PROVE ArgsInv
  OBVIOUS
<1> USE ArgsAssumption
<1>1. PICK k \in 0..MaxTokens : argv \in [1..k -> Tokens]
  BY DEF ArgsInit
<1>2. argv \in Seq(Tokens)
  BY <1>1
<1>3. ArgsTypes /\ Pending /\ Configured
  BY <1>2 DEF ArgsInit, ArgsTypes, Pending, Configured
<1>4. Free = {} /\ \A name \in Names : Given(name) = {}
  BY DEF ArgsInit, Free, Given
<1>5. Cardinality(Free) = 0
  BY <1>4, FS_EmptySet
<1>6. NamedInv /\ Listed
  BY <1>4, <1>5 DEF ArgsInit, NamedInv, Says, Listed, Lists
<1> QED
  BY <1>3, <1>6 DEF ArgsInv

\* What a turn of the loop adds to the flags given and to the free words.
LEMMA TurnAdds ==
    ASSUME ArgsTypes, Pending, ParseToken
    PROVE  /\ i \in 1..Len(argv) /\ i' = i + 1 /\ argv' = argv
           /\ \A name \in Names :
                 Given(name)' = Given(name) \cup (IF key = name THEN {i - 1} ELSE {})
           /\ \A name \in Names : Given(name) \subseteq 1..(i - 2)
           /\ Free' = Free \cup (IF ~token.flag /\ key = nullopt THEN {i} ELSE {})
           /\ Free \subseteq 1..(i - 1)
           /\ key # nullopt => key \in Names /\ i - 1 \in 1..Len(argv) /\ argv[i - 1].flag
<1> USE ArgsAssumption
<1>1. i \in 1..Len(argv) /\ i' = i + 1 /\ argv' = argv /\ argv \in Seq(Tokens)
  BY DEF ArgsTypes, ParseToken
<1>2. i > 1 => argv[i - 1].flag \in BOOLEAN /\ (argv[i - 1].flag => argv[i - 1].text \in Names)
  BY <1>1, TokenFields
<1>3. key # nullopt <=> i > 1 /\ argv[i - 1].flag
  BY <1>1, <1>2 DEF Pending
<1>4. key # nullopt => key = argv[i - 1].text /\ key \in Names /\ i - 1 \in 1..Len(argv)
  BY <1>1, <1>2, <1>3 DEF Pending
<1>5. ASSUME NEW name \in Names
      PROVE  /\ Given(name)' = Given(name) \cup (IF key = name THEN {i - 1} ELSE {})
             /\ Given(name) \subseteq 1..(i - 2)
  <2>1. Given(name)' = {n \in 1..(i - 1) : argv[n].flag /\ argv[n].text = name}
    BY <1>1 DEF Given
  <2>2. 1..(i - 1) = 1..(i - 2) \cup (IF i > 1 THEN {i - 1} ELSE {})
    BY <1>1
  <2>3. key = name <=> i > 1 /\ argv[i - 1].flag /\ argv[i - 1].text = name
    BY <1>3, <1>4
  <2> QED
    BY <2>1, <2>2, <2>3 DEF Given
<1>6. /\ Free' = Free \cup (IF ~token.flag /\ key = nullopt THEN {i} ELSE {})
      /\ Free \subseteq 1..(i - 1)
  <2>1. Free' = {n \in 1..i : ~argv[n].flag /\ (n > 1 => ~argv[n - 1].flag)}
    BY <1>1 DEF Free
  <2>2. 1..i = 1..(i - 1) \cup {i}
    BY <1>1
  <2>3. key = nullopt <=> (i > 1 => ~argv[i - 1].flag)
    BY <1>3
  <2> QED
    BY <2>1, <2>2, <2>3 DEF Free, token
<1> QED
  BY <1>1, <1>3, <1>4, <1>5, <1>6

\* A turn of the loop keeps the invariant.
LEMMA TurnInv ==
    ASSUME ArgsInv, ParseToken
    PROVE  ArgsInv'
<1> USE ArgsAssumption DEF ArgsInv
<1>1. /\ i \in 1..Len(argv) /\ i' = i + 1 /\ argv' = argv /\ argv \in Seq(Tokens)
      /\ wadi_config' = wadi_config /\ device_idx' = device_idx
      /\ wadi_config = nullopt /\ device_idx = nullopt
  BY TurnAdds DEF ParseToken, ArgsTypes, Configured
<1>2. /\ token.flag \in BOOLEAN /\ (token.flag => token.text \in Names)
      /\ (~token.flag => token.text \in Words)
  BY <1>1, TokenFields DEF token
<1>3. ArgsTypes'
  BY <1>1, <1>2 DEF ParseToken, ArgsTypes
<1>4. Pending'
  BY <1>1 DEF ParseToken, Pending, token
<1>5. NamedInv'
  <2> SUFFICES ASSUME NEW name \in Names PROVE Says(name, nullopt, named[name])'
    BY DEF NamedInv
  <2>1. \A n : Behind(n)' = Behind(n)
    BY <1>1 DEF Behind
  <2>2. CASE key # name
    <3>1. Given(name)' = Given(name)
      BY <2>2, TurnAdds
    <3>2. named'[name] = named[name]
      BY <2>2 DEF ParseToken, ArgsTypes
    <3> QED
      BY <2>1, <3>1, <3>2 DEF NamedInv, Says
  <2>3. CASE key = name
    <3>1. Given(name)' = Given(name) \cup {i - 1} /\ Given(name) \subseteq 1..(i - 2)
      BY <2>3, TurnAdds
    <3>2. named'[name] = Behind(i - 1)
      BY <1>1, <2>3 DEF ParseToken, ArgsTypes, Behind, token
    <3>3. \A m \in Given(name)' : m <= i - 1
      BY <1>1, <3>1
    <3> QED
      BY <2>1, <3>1, <3>2, <3>3 DEF Says
  <2> QED
    BY <2>2, <2>3
<1>6. Listed'
  <2>1. CASE token.flag \/ key # nullopt
    <3>1. Free' = Free /\ positional' = positional
      BY <1>2, <2>1, TurnAdds DEF ParseToken
    <3> QED
      BY <1>1, <3>1 DEF Listed
  <2>2. CASE ~token.flag /\ key = nullopt
    <3>1. /\ i \in Nat /\ Free \subseteq 1..i /\ i \notin Free /\ Free' = Free \cup {i}
          /\ argv[i].text \in Words /\ positional' = Append(positional, argv[i].text)
      <4>1. Free' = Free \cup {i} /\ Free \subseteq 1..(i - 1)
        BY <2>2, TurnAdds
      <4>2. argv[i].text \in Words /\ positional' = Append(positional, argv[i].text)
        BY <1>2, <2>2 DEF ParseToken, token
      <4>3. i \in Nat /\ 1..(i - 1) \subseteq 1..i /\ i \notin 1..(i - 1)
        BY <1>1
      <4> QED
        BY <4>1, <4>2, <4>3, Zenon
    <3>2. positional \in Seq(Words) /\ Lists(positional, Free, argv)
      BY DEF ArgsTypes, Listed
    <3>3. Lists(Append(positional, argv[i].text), Free \cup {i}, argv)
      BY <3>1, <3>2, ListsAppend
    <3> QED
      BY <1>1, <3>1, <3>3 DEF Listed
  <2> QED
    BY <2>1, <2>2
<1>7. Configured'
  BY <1>1 DEF Configured
<1> QED
  BY <1>3, <1>4, <1>5, <1>6, <1>7

\* FromArgs and the call of AddCaptureDevice leave what was parsed alone.
LEMMA ArgsNextInv ==
    ASSUME ArgsInv, [ArgsNext]_parseVars
    PROVE  ArgsInv'
<1> USE ArgsAssumption DEF ArgsInv
<1>1. CASE ParseToken
  BY <1>1, TurnInv
<1>2. ASSUME UNCHANGED <<argv, i, key, named, positional>>
      PROVE  ArgsTypes' /\ Pending' /\ NamedInv' /\ Listed'
  <2>1. ArgsTypes' /\ Pending'
    BY <1>2 DEF ArgsTypes, Pending
  <2>2. NamedInv'
    BY <1>2 DEF NamedInv, Says, Given, Behind
  <2>3. Free' = Free
    BY <1>2 DEF Free
  <2>4. Listed'
    BY <1>2, <2>3 DEF Listed
  <2> QED
    BY <2>1, <2>2, <2>4
<1>3. CASE FromArgs
  <2>1. named["d"] \in Words \cup {nullopt} /\ named["c"] \in Words \cup {nullopt}
    BY DEF ArgsTypes
  <2>2. /\ wadi_config'.video_device = IF named["d"] = nullopt THEN "0" ELSE named["d"]
        /\ wadi_config'.fourcc = FourCC(Defaults.fourcc)
    BY <1>3 DEF FromArgs, Defaults
  <2>3. FourCC(Defaults.fourcc) = Code(named["c"])
    <3>1. Defaults.fourcc = [n \in 1..4 |-> Defaults.fourcc[n]]
      BY DEF Defaults
    <3>2. CASE named["c"] = nullopt
      BY <3>1, <3>2, Zenon DEF FourCC, Code
    <3>3. CASE named["c"] # nullopt
      BY <3>3, Zenon DEF FourCC, Code
    <3> QED
      BY <3>2, <3>3
  <2>4. Configured'
    BY <1>3, <2>1, <2>2, <2>3 DEF FromArgs, Configured, Code
  <2> QED
    BY <1>2, <1>3, <2>4 DEF FromArgs
<1>4. CASE AddCaptureDevice
  <2>1. Configured'
    BY <1>4 DEF AddCaptureDevice, Configured, Code
  <2> QED
    BY <1>2, <1>4, <2>1 DEF AddCaptureDevice
<1>5. CASE UNCHANGED parseVars
  <2>1. Configured'
    BY <1>5 DEF parseVars, Configured, Code
  <2> QED
    BY <1>2, <1>5, <2>1 DEF parseVars
<1> QED
  BY <1>1, <1>3, <1>4, <1>5 DEF ArgsNext

(* main's pass over the command line, FromArgs and the call of              *)
(* AddCaptureDevice keep the invariant, whatever the tokens.                *)
THEOREM ArgsInductive == ArgsSpec => []ArgsInv
BY ArgsInitInv, ArgsNextInv, PTL DEF ArgsSpec

(* parse_args gives every name what is behind its last flag, and lists the  *)
(* words that no flag claims in their order, for a command line of any      *)
(* length; FromArgs takes the pixel format from it.                         *)
THEOREM ArgsParsed == ArgsSpec => []ParsesArgs
<1>1. ArgsInv => ParsesArgs
  <2> SUFFICES ASSUME ArgsInv PROVE ParsesArgs
    OBVIOUS
  <2>1. "c" \in Names /\ named["c"] \in Words \cup {nullopt}
    BY ArgsAssumption DEF ArgsInv, ArgsTypes
  <2>2. /\ Says("c", nullopt, named["c"])
        /\ \A name \in Names : Says(name, nullopt, named[name])
    BY <2>1 DEF ArgsInv, NamedInv
  <2>3. /\ Len(positional) = Cardinality(Free)
        /\ \A n \in Free :
              positional[Cardinality({m \in Free : m <= n})] = argv[n].text
    BY DEF ArgsInv, Listed, Lists, Place
  <2>4. wadi_config # nullopt => i > Len(argv) /\ wadi_config.fourcc = Code(named["c"])
    BY DEF ArgsInv, Configured
  <2>5. wadi_config # nullopt =>
           \E w \in Words \cup {nullopt} :
              Says("c", nullopt, w) /\ wadi_config.fourcc = Code(w)
    BY <2>1, <2>2, <2>4
  <2> QED
    BY <2>2, <2>3, <2>4, <2>5, Zenon DEF ParsesArgs
<1> QED
  BY <1>1, ArgsInductive, PTL

(* When main calls AddCaptureDevice, the whole command line has been read,  *)
(* and the number is the one that the last -d names, 0 if there is none,    *)
(* for every number that a uint8_t can hold.                                *)
THEOREM DeviceChosen == ArgsSpec => []DeviceAsNamed
<1>1. ArgsInv => DeviceAsNamed
  <2> SUFFICES ASSUME ArgsInv, device_idx # nullopt
               PROVE  /\ i > Len(argv)
                      /\ \E w \in Words :
                            /\ Says("d", "0", w)
                            /\ atoi[substr[w]] <= 255 => device_idx = atoi[substr[w]]
    BY DEF DeviceAsNamed
  <2> DEFINE w == wadi_config.video_device
  <2>1. /\ i > Len(argv) /\ w \in Words /\ device_idx = atoi[substr[w]] % 256
        /\ w = IF named["d"] = nullopt THEN "0" ELSE named["d"]
    BY DEF ArgsInv, Configured
  <2>2. Says("d", nullopt, named["d"]) /\ named["d"] \in Words \cup {nullopt}
    BY ArgsAssumption DEF ArgsInv, NamedInv, ArgsTypes
  <2> HIDE DEF w
  <2>3. Says("d", "0", w)
    <3>1. \A n \in Given("d") : Behind(n) \in Words
      BY BehindWord DEF ArgsInv
    <3> QED
      BY <2>1, <2>2, <3>1, ArgsAssumption DEF Says
  <2>4. atoi[substr[w]] \in Nat
    BY <2>1, ArgsAssumption
  <2>5. atoi[substr[w]] <= 255 => device_idx = atoi[substr[w]]
    BY <2>1, <2>4
  <2> QED
    BY <2>1, <2>3, <2>5
<1> QED
  BY <1>1, ArgsInductive, PTL

=============================================================================
