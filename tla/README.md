# A verification of wadi

wadi captures video from a V4L2 device and publishes it to a WHIP server: it makes
a WebRTC offer, posts it over HTTP and applies the answer. This directory holds
TLA+ modules that model its parts, TLC configurations that check them on small
instances, and proofs for TLAPS of what matters most for all instances.

## The system and what is modelled

| part | source | modules | status |
|---|---|---|---|
| HTTP client | `include/HTTPRequest/Request.hpp` | `HttpRequest`, `HttpCall`, `HttpUri`, `Base64` | modelled |
| WHIP session | `src/whip.cpp`, `include/whip.h` | `WhipSession`, `WhipExchange` | modelled |
| codec filter | `src/whip.cpp`, `SDPForceCodecs` | `SdpForceCodecs` | modelled |
| hardware encoder | `src/encoder/jetson_encoder.cpp` | `JetsonEncoder`, `JetsonLifecycle` | modelled |
| start-up, command line | `src/main.cpp` | `WadiArgs`; order of calls in `WhipSession` | modelled |
| capture device | `src/v4l.cpp`, `CapturerTrackSource` | `CaptureDevice` | modelled |
| reference counting | `include/webrtc/api/scoped_refptr.h`, `rtc_base/ref_count*` | `RefCount` | modelled |
| encoder factory, `tlog` | | | stateless, left out |
| libwebrtc | `include/webrtc` (headers) | its threads as seen by wadi | external |

How they interact: `main` builds a `WHIPSession` and posts a task to the signaling
thread. libwebrtc makes the offer there and calls `OnSuccess`, which sets the local
description, posts the offer with `http::Request::send` and applies the body it
gets. libwebrtc's network thread gathers candidates meanwhile. On a Jetson board
libwebrtc's encoder queue drives `JetsonEncoder`, whose capture plane has a thread
of its own. `main` also reads the command line and adds the capture device before it
asks for the offer; frames come on a thread of the capture module. What the threads
share is kept alive by `scoped_refptr`.

The composition is by abstraction: `HttpRequest` implements `HttpCall`;
`WhipSession` uses the actions of `HttpCall` for its POST; `WhipSession` implements
`WhipExchange`. `CaptureDevice` is the inside of what `WhipSession` takes for one step,
`JetsonEncoder` the inside of one life of `JetsonLifecycle`.

## Modules and how they correspond to the code

**HttpRequest** is one `Request` object and one call of `send()`. `pc` is where the
caller's thread is: constructor, name lookup, socket, connect, send loop, read
loop, header, fields, body. Each action is one turn of a loop of the code or one
system call. The answer is one sequence of tokens (a token is a byte, or a run of
bytes the parser takes in one piece); `pos`, `recvd` and `arrived` cut it into what
was erased, what `responseData` holds and what the kernel holds. `ServerSend` and
`Receive` choose every cut of the answer into segments. An answer is finite: a peer
that sends for ever is not modelled. `Leave` is the way out of
`send()`, with the destructor of `Socket`. `size_t` arithmetic wraps at
`SizeModulus`. `status = 0` stands for a `status.code` that was never assigned: the
member has no initialiser. The request is a number of bytes; what is in it
(request line, header fields, base64) does not matter to the properties of this
module. Only the POSIX branch of the code is modelled.

**HttpCall** is what a caller may rely on: the call ends once; it throws, or
returns nothing, or returns the peer's status with a prefix of the peer's content.

**HttpUri** is what comes before: `parseUri`, one action per part that it cuts off,
and `encodeHtml`. A character stands for its class. The properties compare the parts
with a definition that reads the text from the front, as the grammar does, where the
code cuts it from the end. A position is counted (`Find` and `First` are one more than
the number of positions up to which the character is not there), so that there is no
recursion and no CHOOSE in it.

**Base64** is the loop of `encodeBase64` with its three-byte buffer, whose contents
before the first byte are arbitrary (`Garbage`). `HttpUri` composes it in: `Encode`
calls it for the credentials, `EncodeBytes` takes its steps. `Carries` is what a
decoder that follows RFC 4648 finds: each group of four characters decoded to three
bytes, and the padding.

**WhipSession** has one variable per piece of state that two threads share or that
a later step reads: the two pointers, the number of senders, the signaling thread's
queue, the fate of the offer `desc`, the text `sdp`, the call, the remote
description. Calls that libwebrtc proxies to the signaling thread run between two
tasks. `OnSuccess` is five steps and the end of the POST between the last two, as the
network thread runs between its statements. An uncaught exception, a failed assert,
a null dereference and undefined behaviour end in `crash`. Reading a deleted offer
may also go on with garbage, and both outcomes are there; the first element of an
empty vector of senders is a read through a null pointer and ends the process.
`PostReturns` does not test the status, because `!response.status.Ok` tests an
enumerator.

**WhipExchange** is what the session promises: one offer, then one answer or the
end; a negotiated session stays so, and what was applied is a piece of the answer.

**SdpForceCodecs** is the loop over lines with its three streams, one action per
kind of line. A line is its kind, its id, its codec and the number of CRs before
its LF, because the loop adds one to every line it copies. `Filtered` defines the
same result without a loop: which lines stay (`Kept`, `CodecLines`, `Others`), and at
what place each of them is, by its rank among its own kind. `main.cpp` never sets `allowed_codecs`, so
`ForcesCodecs` is FALSE in the runs of `WhipSession`.

**JetsonEncoder** has the encoder queue (`enc`), the DQ thread (`dq`), and for each
buffer of the two planes who has it. The plane classes are NVIDIA's and are
modelled from their use: a plane gives back what the hardware is done with, and
fails once it was aborted. `Encode` dequeues a raw buffer before any was queued;
`InitEncode` leaves open whether the plane has some to give. The `memcpy` of a frame
that does not fit its buffer (or that `ToI420` failed to give), an index outside
`encoded_images`, and a callback after `Release` freed them either go on or end in
`crashed`. `Starved` is a raw plane that has nothing to give any more: it never had, or
failed calls kept it all.

**JetsonLifecycle** is the same object through several calls of `InitEncode` and
`Release`, and its destruction. A number stands for what one life makes: its encoder,
its `encoded_images`, its DQ thread. `enc`, `images` and `got_error` are the fields
of the one `ctx` that all DQ threads were given, so a thread of an earlier life reads
the pointers of the current one. The asserts of `InitEncode` end the process; a second
`Release` deletes the array again, which is undefined, so it goes on or ends the
process. Buffers and `Encode` are left to `JetsonEncoder`.

**CaptureDevice** is `AddCaptureDevice` with one action per call that can fail, and
the capture thread. `busOf` is which devices the nodes belong to: the capture module
is looked up by bus and not by node. `fourcc_to_string`, `fourcc_to_videotype` and
the kernel's `v4l2_fourcc` are translated on numbers. The members of
`CapturerTrackSource` are destroyed one by one, in C++'s order, with the capture
thread running between them. `framerate` starts with any rate, as nothing sets it.

**WadiArgs** is a turn of the loop of `parse_args` per action, then `FromArgs`, then
the number of the device. What `atoi`, `toupper` and `substr` make of a word are
constants. `ParsesArgs` says of every state what the tokens read so far mean.

**RefCount** has a slot for each `scoped_refptr` variable. Each atomic operation on
`ref_count_` is a step of its own, so an assignment is several: the count of the new
object goes up, the count of the old one goes down, the old object is deleted if that
was its last reference, and only then the pointer changes.
A slot belongs to one thread; a move hands a reference to another thread, as a
posted task does.

The `MC...` modules give the constants values. Definitions marked `mutant:` are
plausible mistakes in the definition below them; each is caught by a property.

## Runs

| run | shows |
|---|---|
| `http_request` | types, `BodyIsPrefix`, `CompleteIsWhole`, `WellFramedAccepted`, `SocketReleased`, refinement of `HttpCall`; past its deadline `send()` ends whatever a peer with a finite answer omits to do, and without one when the peer is gone or the answer carries its own end |
| `http_split_header` | **violation**: a header in two segments gives a blank response |
| `whip_session` | what is posted, what is applied, that the session settles, refinement of `WhipExchange` |
| `whip_refusal` | **violation**: the body of a refusal (409), read in full and with its status, is parsed as an answer |
| `whip_ownership` | **violation**: the offer is read after a failed `SetLocalDescription` deleted it |
| `http_uri` | the parts of a URL are those of the grammar; the request names its resource; the Authorization field carries the credentials |
| `sdp_force_codecs` | the loop returns the filtered offer of the reference definition; for lines in any order: only allowed codecs, and no id without its `a=rtpmap` line |
| `jetson_encoder` | frames are conserved, `Encode` comes back unless the raw plane has nothing to give any more, `Release` reports a stopped DQ thread |
| `jetson_lifecycle` | a DQ thread touches freed memory, or strays into another life, only after its own encoder was released; who aborts which encoder; in every life `Release` reports a thread of its own that gave up |
| `capture_device` | which device captures and with what settings; who closes the descriptor; whom a late frame reaches; the call ends |
| `wadi_args` | the one pass collects what the command line says; short codes; the device that is opened, for numbers up to 255 |
| `ref_count` | what is referred to lives, `HasOneRef` is exact, what is not referred to is deleted, once |

The violations are disagreements between the code and its own comments, log
messages or header documentation; `PROJECT.json` quotes them.

### Bounds

- `http_request`: six well-framed answers, whose payloads hold CR, LF and digits,
  and nine broken ones: one for each of the seven ways the parser gives up, one whose
  chunk size wraps, one without a header. `TempBufferSize` 12
  holds the header of every answer (at most 11 tokens), so that one `recv` can take
  it, but not the chunked answers with content, so that a full buffer is met as well
  as a short read. `Window` 1 and `RequestSize` 2 make the send loop block.
  `SizeModulus` 16 and `MaxSize` 7 are both reached by an answer: a chunk size that
  wraps to 0 and a length that `reserve` refuses.
- `whip_session`: three candidates, so that one can be found before the offer's text
  is read, one during the POST and one behind it, with more than
  one in the queue. Four servers: one accepts, one refuses with a page, one refuses
  with SDP, one breaks HTTP's framing.
- `http_uri`: every text of up to four of six characters behind `http://`, and some
  800 texts that have all parts, with delimiters where a later part may hold them. Each
  delimiter occurs before and behind each other one. Credentials of up to four bytes
  and a colon, so that a whole group is followed by one byte or by two; their set bits
  lie on both sides of each cut.
- `sdp_force_codecs`: sections of up to five attribute lines over three payload
  types, two of one codec; every subset of the codecs; and every text of up to five
  of six lines, whether or not it is an offer. `SingleTrack` says which are offers.
- `jetson_encoder`: three raw and two capture buffers (10 and 6 in the code, also
  more raw ones than capture ones) and four frames: both planes run full and empty.
- `jetson_lifecycle`: three lives, so that the thread of the first meets the second
  and the third.
- `capture_device`: two nodes on one bus or on two, a number beyond the `uint8_t`,
  three pixel formats (one type of its own, one shared, none), with and without a
  configuration.
- `wadi_args`: every command line of up to four of thirteen tokens: two flags with
  their values, the same flag twice, flags in a row and at the end; 255, the largest
  number of a device, alone and in a path, and 300, which its type cannot hold.
- `ref_count`: two threads with two variables and a temporary each, two objects: an
  object shared by both, dropped by both at once, replaced by the other one.

`CHECK_DEADLOCK FALSE` is in every configuration because each system may stop: a
call has returned, a process has ended, a frame limit is reached.

### Fairness

- `HttpRequest`: the caller's thread runs when it is not blocked, and the kernel
  answers or gives up a connection attempt. Nothing is assumed of the peer but that
  its answer is finite: the deadline is a timeout of `select()`, and nothing in the code
  cuts off a peer that keeps the socket readable. A system
  call never has to fail, and the deadline never has to pass. A behaviour in which it
  does not is one of a call without a timeout, so one run covers both.
- `WhipSession`: both threads run, libwebrtc answers `CreateOffer`, and the POST
  ends. The last is an assumption on the server, as `whip.cpp` gives no timeout;
  `EndsUnaided` says when it is met.
- `JetsonEncoder`: a call that can go on does, the DQ thread takes what is there,
  the hardware encodes what it has a buffer for, and calls on an aborted plane
  return. No call has to fail otherwise, and no one has to call.
- `CaptureDevice`: the system calls and libwebrtc's calls return. The capture thread
  never has to deliver a frame.
- `RefCount`: a thread that has begun to drop a reference goes on. No one has to
  drop one.

## Proofs

Proved for every value of the constants that satisfies the assumption stated in the
module (typing of constants; sizes not zero; `None` and the like are not values). With
them every safety invariant, every action property and every refinement that a passing
run checks is a theorem.

- **HttpRequestProofs**: `TypeCorrect`, `BodyPrefix`, `CompleteWhole`, `Accepted`,
  `DescriptorClosed`, `CallRefined`. None of the invariants is inductive. `IInv` adds
  where the parser is in the peer's layout: before the header nothing is consumed; in
  the fields `cursor` is at the start of a line; in the body `pos` is inside chunk `k`
  with so much of its payload taken, at its CRLF, or at the size line of the next, and
  `body` is the content up to there. Each action is shown to go from one such place to
  another; `QuietActions` covers those that do not touch the parser.
- **HttpUriProofs**, for URLs and credentials of any length: `PartsCut`
  (`PartsAsInGrammar`), `ResourceNamed` (`ServerSeesUri`), `CredentialsDecoded`
  (`CredentialsCarried`). `UriInv` says for each stage of `parseUri` which piece of the
  text is left to cut: everything behind `://`, then what is before the first `#`, then
  before the first `?` or `#`, then the authority. That a cut from the end finds the
  delimiter that the grammar finds from the front rests on `CutAt`: a text that ends
  before the first of some characters is cut at the next delimiter where the whole text
  has the first of them all. For the encoder, `Encoding` says that behind `q` whole groups the bytes that
  wait are in `charArray`, whatever else is there; `Quantum` is the arithmetic of one
  group, `GroupMore` the next one, `FinishCarries` the padding.
- **WhipSessionProofs**: `TypeCorrect`, `PostedWithoutCandidates`,
  `AnswerMatchesOffer`, `ExchangeRefined`. `IInv` says how `main`, the queue, the
  signaling thread, `desc` and the call advance together, before the offer and
  after it: the queue holds at most one offer event, and no candidate has been
  handled before the text was read.
- **JetsonEncoderProofs**: `TypeCorrect`, `Conserved`, `StopIsReported`. `IInv` adds
  to conservation that `InitEncode` queues only untouched capture buffers and that
  the DQ thread stops only after `abort()`. The counts change by one element at a
  time (`OneMore`, `OneLess`).
- **JetsonLifecycleProofs**, for any number of lives: `TypeCorrect`,
  `StrayAfterRelease`, `AbortsHaveCauses`, `StopIsReported`. The invariant ties
  `ctx` to the current life from the allocation to `Release`, keeps the threads of
  lives to come off and their arrays unmade, and says where a thread can be whose own life is still on.
  `StopIsReported` says of every life what the property of `JetsonEncoder` says of
  one.
- **StartUpProofs**, about `CaptureDevice`, for any nodes, buses and configurations:
  `NamedCaptured` (`CapturesNamed`), `ConfigurationUsed` (`StartsAsConfigured`),
  `DescriptorHasOwner` (`DescriptorOwned`), `StaleAfterFailure` (`StaleOnlyUnsent`).
  `IInv` says stage by stage which node is open and what is known of it, which format
  was asked for, who holds the source and who the descriptor. `ConfigurationUsed` needs
  that four ASCII characters survive `v4l2_fourcc` and `fourcc_to_string`, which is
  arithmetic on the four bytes (`FourBytes`).
  Its second half is about `WadiArgs`, for command lines of any length:
  `ArgsParsed` (`ParsesArgs`) and `DeviceChosen` (`DeviceAsNamed`): when `main` calls
  `AddCaptureDevice`, everything was read and the number is that of the last `-d`, if a
  `uint8_t` can hold it. `ArgsInv` adds that the key that waits is the last token, if that is a
  flag; a word is appended at the place of its rank (`ListsAppend`).
- **RefCountProofs**, for any threads, variables and objects: `TypeCorrect`,
  `HeldIsLive`, `HasOneRefExact`, `DeletedByOne`. `IInv` equates the counter of
  every object with the number of slots and of half-done operations that refer to
  it (`Counted`), and says that a thread about to delete is alone (`Dying`). Each
  operation adds or removes one element of that set.
- **SdpForceCodecsProofs**: `TypeCorrect`, `AllowedOnly`, `WrittenIdsMapped`,
  `OfferFiltered` (`FiltersOffer`). `IInv` says of the lines that are held back what
  `OnlyAllowed` says of those written; `MInv` says that every id collected has its
  `a=rtpmap` line among the lines written or held back, and that no media line is held
  back among the attributes. `Parts` is the invariant for an offer of one track: before
  the media line the output is a copy; up to the first `a=ssrc` line each stream lists
  its lines so far in order, and `allowed_ids` those of the `a=rtpmap` lines that stay;
  behind it the output is `Filtered` up to the line read. That needs the parameters
  of an id behind its `a=rtpmap` lines, which `SingleTrack` says and libwebrtc does.

Model-checked only: liveness (`TimedRequestEnds`, `EndsUnaided`,
`ExchangeSettles`, `TasksHandled`, `EncodeReturns`, `AddEnds`,
`Collected`), as fairness is outside the prover; and the violations.

No definition that a theorem reaches uses CHOOSE: the SMT backend of tlapm 1.4.5
takes `CHOOSE x \in S : P(x)` to satisfy `P` even when no element of `S` does, and so
proves things that do not follow. Searches are therefore stated as predicates on the
position found (`FirstAt`, `NotIn`) or by counting (`First`, `Find`).

## Hazards

`PROJECT.json` lists, line by line, what is hard to test in this code and which
properties would catch it going wrong. Some of them deserve a reader's attention
although the runs pass, because the property states what the code does guarantee and
not what one might wish:

- a frame may reach a `broadcaster_` that was destroyed, after a failed `AddTrack`
  (`StaleOnlyUnsent` says: only then);
- the descriptor of the device stays open when the constructor of `V4LDevice` throws
  behind `_open` (`DescriptorOwned` says: only then);
- a DQ thread that outlives its encoder works on the next one (`StrayOnlyReleased`
  and `AbortsAccounted` say how far that goes);
- `Encode` may wait for good on a raw plane that has nothing to give (`EncodeReturns`
  says: only there, and only while the DQ thread runs);
- the number of a device beyond 255 is truncated and opens another one
  (`DeviceAsNamed` speaks of the others);
- a peer that keeps sending is not stopped by the deadline (`TimedRequestEnds` is
  about finite answers).

A few have no property, because the code does what is undefined or unspecified there
and no property could both hold and exclude it: a chunk size that wraps, the sender of
a session without a track, the index beyond `encoded_images`, a second `Release`. The
models have these outcomes, and `PROJECT.json` says so in notes.

Some disagreements with the repository's comments are plain from the code and have
no run of their own: no statement calls the callback that
`RegisterEncodeCompleteCallback` stores, although `jetson_encoder.h:82` says that
images are returned through it; `Release`, "Free encoder memory.", leaves the DQ
thread with the freed images; the Host field lacks the port ("RFC 7230, 5.4. Host",
`Request.hpp:1094`), so `ServerSeesUri` leaves URLs with a port out; and a host in
brackets ("RFC 3986, 3.2.2. Host", `Request.hpp:787`) is cut at its first colon.
`SDPForceCodecs` ends each line that it copies in two CRs and a LF; `Filtered` has
them too.

## Not modelled

- **libwebrtc.** Nearly all lines of the repository are its vendored headers:
  declarations and templates of a library whose sources are not there. There is no
  behaviour in a declaration to translate. Two things of it are modelled: what wadi
  sees of its threads (in `WhipSession` and `CaptureDevice`, marked external), and
  reference counting, whose code is in the headers and on which wadi depends.
- **The encoder factory and `tlog`**: constant answers and output, without state.
- **`V4LDevice::sync_format`, `WaitForOffer`**: nothing calls them.
- **The Windows branches** of `Request.hpp`: wadi needs V4L2, so it runs on Linux.
- **Pixels and encoding parameters**: no statement of the code depends on them, apart
  from the buffer handling that is modelled.
- **`atoi` of a negative or an overlong word**: the words that are enumerated are
  natural numbers that fit an `int`.
