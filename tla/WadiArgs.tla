------------------------------ MODULE WadiArgs ------------------------------
(***************************************************************************)
(* The command line (main.cpp): parse_args pairs the tokens in one pass,    *)
(* WadiConfig::FromArgs puts what they say over the defaults, and main      *)
(* takes the number of the device from its name. A token is a flag, with    *)
(* the name behind its dash, or a word; of a word, what atoi reads, its     *)
(* capitals and what follows "/dev/video" are all that the code looks at.   *)
(* The names are apart from those of CaptureDevice, which goes on with what *)
(* is found here.                                                           *)
(***************************************************************************)
EXTENDS Naturals, Sequences, FiniteSets

CONSTANTS
    Names,          \* the names of flags
    Words,          \* tokens that do not start with a dash
    True,           \* the word "true"
    nullopt,        \* std::nullopt, and no value yet
    atoi,           \* what the library's atoi gives for a word
    toupper,        \* the characters of a word, in capitals
    substr,         \* a word without "/dev/video" in front
    MaxTokens

ASSUME ArgsAssumption ==
    /\ {"d", "w", "h", "r", "c"} \subseteq Names /\ nullopt \notin Names \cup Words
    /\ True \in Words /\ "0" \in Words
    /\ substr \in [Words -> Words]
    /\ atoi \in [Words -> Nat]
    /\ DOMAIN toupper = Words
    /\ MaxTokens \in Nat

Tokens == [flag : {TRUE}, text : Names] \cup [flag : {FALSE}, text : Words]

VARIABLES
    argv, i, key,
    named,          \* args.named, with nullopt for a name that is not there
    positional,
    wadi_config,    \* main's WadiConfig
    device_idx      \* what AddCaptureDevice is called with, or nullopt

parseVars == <<argv, i, key, named, positional, wadi_config, device_idx>>

Defaults == [whip_endpoint |-> "default", video_device |-> "0",
             width |-> 1280, height |-> 720, fps |-> 30,
             fourcc |-> <<"I", "4", "2", "0">>]

ArgsInit ==
    /\ argv \in UNION {[1..n -> Tokens] : n \in 0..MaxTokens}
    /\ i = 1
    /\ key = nullopt
    /\ named = [k \in Names |-> nullopt]
    /\ positional = <<>>
    /\ wadi_config = nullopt /\ device_idx = nullopt

token == argv[i]

\* mutant: a key that another flag follows gets no value, instead of "true"
ParseTokenSkips ==
    /\ i <= Len(argv)
    /\ named' = IF key = nullopt \/ token.flag THEN named
                ELSE [named EXCEPT ![key] = token.text]
    /\ key' = IF token.flag THEN token.text ELSE nullopt
    /\ positional' = IF ~token.flag /\ key = nullopt
                     THEN Append(positional, token.text) ELSE positional
    /\ i' = i + 1
    /\ UNCHANGED <<argv, wadi_config, device_idx>>

\* a turn of parse_args' loop
ParseToken ==
    /\ i <= Len(argv)
    /\ named' = IF key = nullopt THEN named
                ELSE [named EXCEPT ![key] = IF token.flag THEN True ELSE token.text]
    /\ key' = IF token.flag THEN token.text ELSE nullopt
    /\ positional' = IF ~token.flag /\ key = nullopt
                     THEN Append(positional, token.text) ELSE positional
    /\ i' = i + 1
    /\ UNCHANGED <<argv, wadi_config, device_idx>>

Number(name, default) == IF named[name] = nullopt THEN default ELSE atoi[named[name]]

\* mempcpy of at most four characters over the default
FourCC(default) ==
    IF named["c"] = nullopt THEN default
    ELSE LET code == toupper[named["c"]]
         IN  [n \in 1..4 |-> IF n \in DOMAIN code THEN code[n] ELSE default[n]]

\* the rest of FromArgs
FromArgs ==
    /\ i > Len(argv) /\ wadi_config = nullopt
    /\ wadi_config' =
          [whip_endpoint |-> IF positional = <<>> THEN Defaults.whip_endpoint
                             ELSE positional[1],
           video_device |-> IF named["d"] = nullopt THEN Defaults.video_device
                            ELSE named["d"],
           width |-> Number("w", Defaults.width),
           height |-> Number("h", Defaults.height),
           fps |-> Number("r", Defaults.fps),
           fourcc |-> FourCC(Defaults.fourcc)]
    /\ UNCHANGED <<argv, i, key, named, positional, device_idx>>

\* mutant: the prefix is not taken off
AddCaptureDeviceWhole ==
    /\ wadi_config # nullopt /\ device_idx = nullopt
    /\ device_idx' = atoi[wadi_config.video_device] % 256
    /\ UNCHANGED <<argv, i, key, named, positional, wadi_config>>

\* main: the name is cut, and its number passed for a uint8_t
AddCaptureDevice ==
    /\ wadi_config # nullopt /\ device_idx = nullopt
    /\ device_idx' = atoi[substr[wadi_config.video_device]] % 256
    /\ UNCHANGED <<argv, i, key, named, positional, wadi_config>>

ArgsNext == ParseToken \/ FromArgs \/ AddCaptureDevice

ArgsSpec == ArgsInit /\ [][ArgsNext]_parseVars

----------------------------------------------------------------------------
(* Properties: what the tokens read so far, 1..(i - 1), say.                *)

\* where a flag is given with something behind it
Given(name) == {n \in 1..(i - 2) : argv[n].flag /\ argv[n].text = name}

Behind(n) == IF argv[n + 1].flag THEN True ELSE argv[n + 1].text

\* v is what is behind the last of them, or there is none and v is the default
Says(name, default, v) ==
    \/ Given(name) = {} /\ v = default
    \/ \E n \in Given(name) : (\A m \in Given(name) : m <= n) /\ v = Behind(n)

\* the words that no flag claims
Free == {n \in 1..(i - 1) : ~argv[n].flag /\ (n > 1 => ~argv[n - 1].flag)}

\* the four bytes of a code: the word's own, in capitals, then the default's
Code(w) == [n \in 1..4 |-> IF w # nullopt /\ n \in DOMAIN toupper[w] THEN toupper[w][n]
                           ELSE Defaults.fourcc[n]]

(* What the one pass collects, defined without it: a name has the value     *)
(* behind its last flag ("true" before another flag), a flag at the very    *)
(* end says nothing, and the words that no flag claims are positional, in   *)
(* order: each at the place of its rank among them. Each token is used      *)
(* once. A code shorter than four characters keeps the rest of the          *)
(* default's, a longer one is cut.                                          *)
ParsesArgs ==
    /\ \A name \in Names : Says(name, nullopt, named[name])
    /\ Len(positional) = Cardinality(Free)
    /\ \A n \in Free :
          positional[Cardinality({m \in Free : m <= n})] = argv[n].text
    /\ wadi_config # nullopt =>
          /\ i > Len(argv)
          /\ \E w \in Words \cup {nullopt} :
                Says("c", nullopt, w) /\ wadi_config.fourcc = Code(w)

(* main calls AddCaptureDevice when the whole command line has been read,   *)
(* with the number that the last -d gives, alone or behind "/dev/video",    *)
(* and with 0 if there is none. That is so for the numbers that the         *)
(* parameter, a uint8_t, can hold; of a larger one nothing is said, for     *)
(* nothing refuses it and another device is opened (44 for 300).            *)
DeviceAsNamed ==
    device_idx # nullopt =>
        /\ i > Len(argv)
        /\ \E w \in Words :
              /\ Says("d", "0", w)
              /\ atoi[substr[w]] <= 255 => device_idx = atoi[substr[w]]

=============================================================================
