-------------------------------- MODULE Utf8 --------------------------------
\* Characters in UTF-8, as the engine and the line editor of the program keep text.  A text
\* is a sequence of bytes, a position in it an offset in bytes.  Surrogates on their own
\* have an encoding of three bytes like other characters.
EXTENDS Integers, Sequences

utf8_char_len(b) == IF b < 192 THEN 1 ELSE IF b < 224 THEN 2 ELSE IF b < 240 THEN 3 ELSE IF b < 248 THEN 4 ELSE 1
CharLen(s, p) == utf8_char_len(s[p + 1])
CharAt(s, p) ==
  LET n == CharLen(s, p)
      Tail6(i) == s[p + i] % 64
  IN  CASE n = 1 -> s[p + 1]
        [] n = 2 -> (s[p + 1] % 32) * 64 + Tail6(2)
        [] n = 3 -> (s[p + 1] % 16) * 4096 + Tail6(2) * 64 + Tail6(3)
        [] n = 4 -> (s[p + 1] % 8) * 262144 + Tail6(2) * 4096 + Tail6(3) * 64 + Tail6(4)

utf8(c) == IF c < 128 THEN <<c>>
           ELSE IF c < 2048 THEN <<c \div 64 + 192, (c % 64) + 128>>
           ELSE IF c < 65536 THEN <<c \div 4096 + 224, ((c \div 64) % 64) + 128, (c % 64) + 128>>
           ELSE <<c \div 262144 + 240, ((c \div 4096) % 64) + 128, ((c \div 64) % 64) + 128, (c % 64) + 128>>

(* Where the characters of a text begin, and its end; and the character     *)
(* before a position.                                                       *)
IsExt(b) == b \in 128 .. 191
Boundaries(s) == {p \in 0 .. Len(s) : p = Len(s) \/ ~IsExt(s[p + 1])}
PrevBoundary(s, p) == CHOOSE q \in Boundaries(s) : q < p /\ \A r \in Boundaries(s) : r < p => r <= q
=============================================================================
