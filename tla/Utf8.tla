-------------------------------- MODULE Utf8 --------------------------------
(***************************************************************************)
(* utf8_encoder (src/hw01): a table from the bytes of an 8-bit code page   *)
(* to Unicode is read from a file, and another file is written in UTF-8     *)
(* byte by byte.  toml.c, which other programs use for the texts of their   *)
(* configuration, has a decoder and an encoder of its own.                  *)
(***************************************************************************)
EXTENDS Integers, Sequences

CONSTANTS
    Bytes,      \* bytes of the input
    Codes,      \* the code points of the table, four hexadecimal digits
    UcsCodes,   \* code points that toml.c is asked for
    MaxInput    \* bound: bytes of the input

VARIABLES
    stage,   \* "table", "encode" or "done"
    table,   \* ct->ucode: 0 where the table has nothing
    lines,   \* the bytes whose line of the table is not read yet
    inf,     \* the input that is left
    outf,    \* the output
    meant    \* history: the bytes that are not ignored, and their code points

vars == <<stage, table, lines, inf, outf, meant>>

Init ==
    /\ stage = "table" /\ table = [b \in Bytes |-> 0] /\ lines = Bytes
    /\ inf = <<>> /\ outf = <<>> /\ meant = <<>>

\* A line of a .uct file gives any byte any code point; a byte without a
\* character has a remark in its place, or no line.
ReadLine(b) ==
    /\ stage = "table" /\ b \in lines
    /\ lines' = lines \ {b}
    /\ \E c \in Codes \cup {0} : table' = [table EXCEPT ![b] = c]
    /\ UNCHANGED <<stage, inf, outf, meant>>

OpenFiles ==
    /\ stage = "table" /\ lines = {} /\ stage' = "encode"
    /\ inf' \in UNION {[1 .. n -> Bytes] : n \in 0 .. MaxInput}
    /\ UNCHANGED <<table, lines, outf, meant>>

----------------------------------------------------------------------------
(* The encoders and the decoder. *)

\* Shifts by six bits, twelve, ...
Weight == <<1, 64, 4096, 262144, 16777216, 1073741824>>

\* n bytes: the highest bits behind a mark, then groups of six bits.
Spread(mark, code, n) ==
    [k \in 1 .. n |-> IF k = 1 THEN mark + code \div Weight[n]
                             ELSE 128 + ((code \div Weight[n - k + 1]) % 64)]

\* Variant: the middle group of three is not masked in its place.
EncodeShifted(code, byte) ==
    CASE code < 128     -> <<byte>>
      [] 128 <= code /\ code < 2048 -> Spread(192, code, 2)
      [] 2048 <= code /\ code < 65536 ->
           <<224 + code \div 4096, 128 + ((code \div 64) % 64), 128 + ((code \div 64) % 64)>>
      [] 65536 <= code /\ code < 2097152 -> Spread(240, code, 4)
      [] OTHER -> <<>>

\* encode_to_utf8: below 128 the byte itself is written, not its code point.
Encode(code, byte) ==
    CASE code < 128     -> <<byte>>
      [] 128 <= code /\ code < 2048 -> Spread(192, code, 2)
      [] 2048 <= code /\ code < 65536 -> Spread(224, code, 3)
      [] 65536 <= code /\ code < 2097152 -> Spread(240, code, 4)
      [] OTHER -> <<>>

\* toml_ucs_to_utf8; <<>> for its -1.
toml_ucs_to_utf8(code) ==
    LET banned == (55296 <= code /\ code <= 57343) \/ code \in {65534, 65535}
    IN  CASE banned \/ code < 0 -> <<>>
          [] 0 <= code /\ code < 128 -> <<code>>
          [] 128 <= code /\ code < 2048 -> Spread(192, code, 2)
          [] 2048 <= code /\ code < 65536 /\ ~banned -> Spread(224, code, 3)
          [] 65536 <= code /\ code < 2097152 -> Spread(240, code, 4)
          [] 2097152 <= code /\ code < 67108864 -> Spread(248, code, 5)
          [] 67108864 <= code /\ code <= 2147483647 -> Spread(252, code, 6)
          [] OTHER -> <<>>

\* How many bytes the first byte announces (0: none), and its own bits.
Length(b) == CASE b < 128          -> 1
               [] b \in 192 .. 223 -> 2
               [] b \in 224 .. 239 -> 3
               [] b \in 240 .. 247 -> 4
               [] b \in 248 .. 251 -> 5
               [] b \in 252 .. 253 -> 6
               [] OTHER            -> 0

LeadBits(b) == CASE Length(b) = 2 -> b % 32
                 [] Length(b) = 3 -> b % 16
                 [] Length(b) = 4 -> b % 8
                 [] Length(b) = 5 -> b % 4
                 [] Length(b) = 6 -> b % 2
                 [] OTHER         -> b

\* The value that the first n bytes are shifted into.
Value(s, n) ==
    LET v[k \in 1 .. n] == IF k = 1 THEN LeadBits(s[1]) ELSE v[k - 1] * 64 + (s[k] % 64)
    IN  v[n]

\* toml_utf8_to_ucs: the code point and the bytes consumed; -1 on failure.
toml_utf8_to_ucs(s) ==
    LET n == Length(s[1])
    IN  IF n = 0 \/ Len(s) < n \/ \E k \in 2 .. n : s[k] \notin 128 .. 191
          THEN [code |-> -1, used |-> 1]
          ELSE [code |-> Value(s, n), used |-> n]

\* What toml.c makes of a whole text.
Decoded(text) ==
    LET from[k \in 1 .. Len(text) + 1] ==
            IF k > Len(text) THEN <<>>
            ELSE LET r == toml_utf8_to_ucs(SubSeq(text, k, Len(text)))
                 IN  <<r.code>> \o from[k + r.used]
    IN  from[1]

----------------------------------------------------------------------------
(* The loop over the input. *)

EncodeByte ==
    /\ stage = "encode" /\ inf # <<>>
    /\ LET b == Head(inf)
           ucode == table[b]
       IN  IF b # 0 /\ ucode = 0
             THEN UNCHANGED <<outf, meant>>          \* no such character
             ELSE outf' = outf \o Encode(ucode, b) /\ meant' = Append(meant, [byte |-> b, code |-> ucode])
    /\ inf' = Tail(inf)
    /\ UNCHANGED <<stage, table, lines>>

Finish ==
    /\ stage = "encode" /\ inf = <<>> /\ stage' = "done"
    /\ UNCHANGED <<table, lines, inf, outf, meant>>

Next == (\E b \in Bytes : ReadLine(b)) \/ OpenFiles \/ EncodeByte \/ Finish

----------------------------------------------------------------------------
(* Properties. *)

\* A code point below 128 is not written, its byte is.
Written(m) == IF m.code < 128 THEN m.byte ELSE m.code

\* The output is UTF-8 if no byte from 128 on stands for a character of ASCII;
\* with a table that has such a byte (EBCDIC, GSM 03.38) it is not.
InUtf8 == \A k \in DOMAIN meant : meant[k].byte < 128 \/ meant[k].code >= 128

\* What utf8_encoder writes, if it is UTF-8, toml.c reads back one by one, none
\* lost at the edges of the lengths or merged with its neighbour (hw01/main.c:
\* 82-111, hw07/toml.c:92-176): the code point of every byte that has one from
\* 128 on, and of the others the byte itself, which is their character only
\* where the table agrees with ASCII.  And toml.c reads back what it writes
\* itself, up to 31 bits (184-259).
Utf8RoundTrip ==
    /\ InUtf8 => Decoded(outf) = [k \in DOMAIN meant |-> Written(meant[k])]
    /\ stage = "table" =>
         \A c \in UcsCodes : LET s == toml_ucs_to_utf8(c)
                             IN  s # <<>> => toml_utf8_to_ucs(s) = [code |-> c, used |-> Len(s)]

=============================================================================
