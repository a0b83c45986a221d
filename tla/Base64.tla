------------------------------- MODULE Base64 -------------------------------
(***************************************************************************)
(* encodeBase64 (include/HTTPRequest/Request.hpp), which HttpUri calls for  *)
(* the credentials of a URL. The loop collects three bytes at a time and    *)
(* writes four characters; what is left over at the end is padded.          *)
(* Characters are their numbers in chars, '=' is Pad.                       *)
(***************************************************************************)
EXTENDS Integers, Sequences

CONSTANT Garbage    \* what an uninitialised byte may be

VARIABLES
    input, i,       \* the text, and how much of it the loop has read
    c, charArray,
    result

Pad == 64

\* the call; charArray is not initialised
encodeBase64(text) ==
    /\ input' = text
    /\ i' = 0
    /\ c' = 0
    /\ charArray' \in [0..2 -> Garbage]
    /\ result' = <<>>

\* the four characters of three bytes: (a & 0xFC) >> 2 and so on
First(a) == a \div 4
Second(a, b) == (a % 4) * 16 + (b \div 16)
Third(b, d) == (b % 16) * 4 + (d \div 64)
Fourth(d) == d % 64

\* a turn of the loop
Collect ==
    /\ i < Len(input)
    /\ i' = i + 1
    /\ LET a == [charArray EXCEPT ![c] = input[i + 1]]
       IN  /\ charArray' = a
           /\ c' = (c + 1) % 3
           /\ result' = IF c + 1 = 3
                        THEN result \o <<First(a[0]), Second(a[0], a[1]), Third(a[1], a[2]),
                                         Fourth(a[2])>>
                        ELSE result
    /\ UNCHANGED input

\* mutant: the second character of one byte left over uses the byte behind it
FinishStale ==
    /\ i = Len(input)
    /\ result' = result \o
          CASE c = 0 -> <<>>
            [] c = 1 -> <<First(charArray[0]), Second(charArray[0], charArray[1]), Pad, Pad>>
            [] c = 2 -> <<First(charArray[0]), Second(charArray[0], charArray[1]),
                          Third(charArray[1], 0), Pad>>
    /\ UNCHANGED <<input, i, c, charArray>>

\* what is behind the loop
Finish ==
    /\ i = Len(input)
    /\ result' = result \o
          CASE c = 0 -> <<>>
            [] c = 1 -> <<First(charArray[0]), Second(charArray[0], 0), Pad, Pad>>
            [] c = 2 -> <<First(charArray[0]), Second(charArray[0], charArray[1]),
                          Third(charArray[1], 0), Pad>>
    /\ UNCHANGED <<input, i, c, charArray>>

----------------------------------------------------------------------------
\* the three bytes that RFC 4648 decodes group g of four characters to
Decoded(characters, g) ==
    LET digit(k) == IF characters[4 * g + k] = Pad THEN 0 ELSE characters[4 * g + k]
    IN  <<digit(1) * 4 + digit(2) \div 16,
          (digit(2) % 16) * 16 + digit(3) \div 4,
          (digit(3) % 4) * 64 + digit(4)>>

\* the characters are decoded to the bytes, the bits behind the bytes are 0, and
\* as few '=' as that takes pad them to a multiple of four characters
Carries(characters, bytes) ==
    /\ Len(characters) = 4 * ((Len(bytes) + 2) \div 3)
    /\ \A n \in DOMAIN characters :
          IF n <= (8 * Len(bytes) + 5) \div 6
          THEN characters[n] \in 0..63 ELSE characters[n] = Pad
    /\ \A g \in 0..((Len(bytes) + 2) \div 3 - 1), k \in 1..3 :
          Decoded(characters, g)[k] = IF 3 * g + k <= Len(bytes) THEN bytes[3 * g + k] ELSE 0

=============================================================================
