--------------------------- MODULE TextConversion ---------------------------
(***************************************************************************)
(* The text conversions of clipboard.c on sequences of bytes, checked      *)
(* against the definitions of UTF-8 and Latin-1.  The text under test      *)
(* grows by one code point per step.                                       *)
(***************************************************************************)
EXTENDS Integers, Sequences, SequencesExt, FiniteSetsExt

CONSTANTS CodePoints,   \* code points that texts are made of
          MaxLength     \* bound on the length of a text

IsSurrogate(c) == c >= 55296 /\ c < 57344

\* A character of Unicode that a C string can have.
IsCharacter(c) == c \in Nat \ {0} /\ c <= 1114111 /\ ~IsSurrogate(c)

ASSUME TextAssumption == MaxLength \in Nat /\ \A c \in CodePoints : IsCharacter(c)

VARIABLE text   \* code points

TextInit == text = <<>>
TextNext == \E c \in CodePoints : Len(text) < MaxLength /\ text' = Append(text, c)
TextSpec == TextInit /\ [][TextNext]_text
-----------------------------------------------------------------------------
(* The conversions.  A byte is a number, a C string a sequence without zero. *)

CR == 13
Unknown == 65533      \* U+FFFD

\* The byte at position i; after the last one comes the terminating zero.
ByteAt(s, i) == IF i <= Len(s) THEN s[i] ELSE 0

IsContinuation(b) == b \in 128..191

lorieConvertLF(s) == FlattenSeq([i \in DOMAIN s |-> IF s[i] = CR THEN <<>> ELSE <<s[i]>>])

\* Mutant: one lead byte for the whole upper half.
Latin1OneLead(s) ==
  FlattenSeq([i \in DOMAIN s |-> IF s[i] < 128 THEN <<s[i]>> ELSE <<194, (s[i] % 64) + 128>>])

lorieLatin1ToUTF8(s) ==
  FlattenSeq([i \in DOMAIN s |->
    IF s[i] < 128 THEN <<s[i]>>
    ELSE <<194 + (IF s[i] > 191 THEN 1 ELSE 0), (s[i] % 64) + 128>>])

\* Mutant: the four-byte codes are forgotten.
LengthUpToThree(b) ==
  CASE b < 128 -> 1 [] b \in 128..223 -> 2 [] b \in 224..239 -> 3 [] OTHER -> 0

\* Length of the code that lorieCheckUTF8 expects after lead byte b; a continuation byte
\* passes for the lead of a two-byte code.  0: refused.
CodeLength(b) ==
  CASE b < 128 -> 1 [] b \in 128..223 -> 2 [] b \in 224..239 -> 3 [] b \in 240..247 -> 4 [] OTHER -> 0

\* The code reads beyond the property's last byte; s includes what it finds there.
lorieCheckUTF8(s, size) ==
  LET ok[ix \in 1..Len(s) + 4] ==
        \/ ix > size
        \/ ByteAt(s, ix) = 0
        \/ LET n == CodeLength(ByteAt(s, ix))
           IN  /\ n > 0
               /\ \A k \in 1..n - 1 : IsContinuation(ByteAt(s, ix + k))
               /\ ok[ix + n]
  IN  ok[1]

\* Number of continuation bytes that lorieUtf8ToUCS4 expects after b, -1 for none that can lead.
Continuations(b) ==
  CASE b < 128 -> 0
    [] b \in 192..223 -> 1
    [] b \in 224..239 -> 2
    [] b \in 240..247 -> 3
    [] OTHER -> -1

\* The bits of the lead byte.
LeadBits(b, n) == CASE n = 0 -> b [] n = 1 -> b % 32 [] n = 2 -> b % 16 [] n = 3 -> b % 8

\* The code at position i: its code point and the bytes consumed.  A missing continuation
\* byte is consumed with the code that lacks it.
lorieUtf8ToUCS4(s, i) ==
  LET n == Continuations(s[i])
      missing == {k \in 1..n : ~IsContinuation(ByteAt(s, i + k))}
      value[k \in 0..n] == IF k = 0 THEN LeadBits(s[i], n) ELSE 64 * value[k - 1] + (s[i + k] % 64)
      stop == Min({k \in 1..Len(s) + 1 : i + k > Len(s) \/ ~IsContinuation(ByteAt(s, i + k))})
  IN  IF n = -1 THEN [ucs |-> Unknown, len |-> stop]
      ELSE IF missing # {} THEN [ucs |-> Unknown, len |-> Min(missing) + 1]
      ELSE IF IsSurrogate(value[n]) THEN [ucs |-> Unknown, len |-> n + 1]
      ELSE [ucs |-> value[n], len |-> n + 1]

\* Mutant: a code point beyond Latin-1 is cut to its low byte.
Latin1Cut(ucs) == ucs % 256

Latin1Of(ucs) == IF ucs > 255 THEN 63 ELSE ucs   \* '?'

lorieUtf8ToLatin1(s) ==
  LET rest[i \in 1..Len(s) + 4] ==
        IF i > Len(s) THEN <<>>
        ELSE LET code == lorieUtf8ToUCS4(s, i) IN <<Latin1Of(code.ucs)>> \o rest[i + code.len]
  IN  rest[1]
-----------------------------------------------------------------------------
(* What the conversions are for *)

\* UTF-8, by definition.
Code(c) ==
  IF c < 128 THEN <<c>>
  ELSE IF c < 2048 THEN <<192 + (c \div 64), 128 + (c % 64)>>
  ELSE IF c < 65536 THEN <<224 + (c \div 4096), 128 + ((c \div 64) % 64), 128 + (c % 64)>>
  ELSE <<240 + (c \div 262144), 128 + ((c \div 4096) % 64), 128 + ((c \div 64) % 64), 128 + (c % 64)>>

Encoded(t) == FlattenSeq([i \in DOMAIN t |-> Code(t[i])])

IsLatin1(t) == \A i \in DOMAIN t : t[i] < 256

(* lorieLatin1ToUTF8 makes of a Latin-1 text the same text in UTF-8, within *)
(* the buffer of twice its size also after lorieConvertLF, and              *)
(* lorieUtf8ToLatin1 makes it the text again.  What is copied in X has lost *)
(* its carriage returns before: see TextAccepted.                           *)
Latin1RoundTrip ==
  IsLatin1(text) =>
    /\ lorieLatin1ToUTF8(text) = Encoded(text)
    /\ Len(lorieLatin1ToUTF8(lorieConvertLF(text))) <= 2 * Len(text)
    /\ lorieUtf8ToLatin1(lorieLatin1ToUTF8(text)) = text

(* A text of Android pasted as STRING keeps each character that Latin-1 has *)
(* and has one '?' for each other: no code is split or skipped.             *)
PastedAsLatin1 ==
  lorieUtf8ToLatin1(Encoded(text)) =
    [i \in DOMAIN text |-> IF text[i] < 256 THEN text[i] ELSE 63]

(* Every text in UTF-8 passes the check, whatever lies behind the property, *)
(* and reaches Android without its carriage returns and otherwise whole: no *)
(* byte is taken out of another code.                                       *)
TextAccepted ==
  /\ \A beyond \in {0, 65, 128, 255} : lorieCheckUTF8(Encoded(text) \o <<beyond>>, Len(Encoded(text)))
  /\ lorieConvertLF(Encoded(text)) = Encoded(lorieConvertLF(text))
=============================================================================
