------------------------------ MODULE Strings ------------------------------
\* Strings of the engine: kept in UTF-8 with lone surrogates (WTF-8), seen by the program
\* in UTF-16.  A single character is a value, any other string a block of the heap; two
\* surrogates that come together become one character of four bytes, and are split again
\* when a substring begins or ends between them.  The positions of the last strings that
\* were indexed are cached.
\*
\* units is what each register holds for the program: a sequence of UTF-16 units.
EXTENDS Utf8, FiniteSets, FiniteSetsExt

CONSTANTS
  Starts,                       \* [texts: the texts of the registers, made: how many strings are made,
                                \*  asks: whether strings are asked for lengths and characters]
  Addresses,                    \* the blocks of the heap
  JS_STRING_POS_CACHE_SIZE,
  JS_STRING_POS_CACHE_MIN_LEN,
  JS_STRING_LEN_MAX

StringsAssumption ==
  /\ Addresses \subseteq Nat \ {0} /\ IsFiniteSet(Addresses)
  /\ JS_STRING_POS_CACHE_SIZE \in Nat \ {0}
  /\ {JS_STRING_POS_CACHE_MIN_LEN, JS_STRING_LEN_MAX} \subseteq Nat

VARIABLES
  heap,    \* the blocks, 0 for the empty string of the ROM
  regs,    \* the registers of the program
  units,   \* what they hold, in UTF-16
  cache,   \* string_pos_cache, string_pos_cache_counter
  agrees,  \* every number the program was told is the one of the units
  left     \* how many strings may still be made, and whether others are asked
vars == <<heap, regs, units, cache, agrees, left>>

POS_TYPE_UTF8 == 1
POS_TYPE_UTF16 == 2
INT32_MAX == 2147483647
Free == [buf |-> <<-1>>, is_ascii |-> FALSE]
JS_NULL == [k |-> "null"]
JS_NewStringChar(c) == [k |-> "char", c |-> c]
Ptr(a) == [k |-> "str", p |-> a]
JS_ATOM_empty == Ptr(0)
NewString(buf, is_ascii) == [k |-> "new", buf |-> buf, is_ascii |-> is_ascii]
Exception == [k |-> "exception"]

is_ascii_string(buf) == \A i \in DOMAIN buf : buf[i] < 128
is_valid_len4_utf8(buf, p) == (buf[p + 1] % 16) * 64 + (buf[p + 2] % 64) >= 16
IsPair(buf, p) == CharLen(buf, p) = 4 /\ is_valid_len4_utf8(buf, p)
JS_NewStringLen(buf) ==
  IF buf = <<>> THEN JS_ATOM_empty
  ELSE IF CharLen(buf, 0) = Len(buf) THEN JS_NewStringChar(CharAt(buf, 0))
  ELSE NewString(buf, is_ascii_string(buf))
get_string_ptr(v) == IF v.k = "char" THEN [buf |-> utf8(v.c), is_ascii |-> v.c <= 127] ELSE heap[v.p]
Text(v) == get_string_ptr(v).buf

(* The units that a text stands for. *)
Left(c) == 55296 + ((c - 65536) \div 1024)
Right(c) == 56320 + ((c - 65536) % 1024)
CharUnits(c) == IF c < 65536 THEN <<c>> ELSE <<Left(c), Right(c)>>
RECURSIVE UnitsFrom(_, _)
UnitsFrom(buf, p) ==
  IF p = Len(buf) THEN <<>> ELSE CharUnits(CharAt(buf, p)) \o UnitsFrom(buf, p + CharLen(buf, p))
Utf16(buf) == UnitsFrom(buf, 0)

Least(S) == CHOOSE n \in S : \A m \in S : n <= m
FreeBlocks(h) == {a \in Addresses : h[a] = Free}
(* Texts become the values of registers one after the other. *)
RECURSIVE Loaded(_, _, _)
Loaded(h, rs, texts) ==
  IF texts = <<>> THEN [heap |-> h, regs |-> rs]
  ELSE LET v == JS_NewStringLen(Head(texts))
           a == Least(FreeBlocks(h))
       IN  IF v.k = "new"
           THEN Loaded([h EXCEPT ![a] = [buf |-> v.buf, is_ascii |-> v.is_ascii]], Append(rs, Ptr(a)), Tail(texts))
           ELSE Loaded(h, Append(rs, v), Tail(texts))
EmptyHeap == [a \in {0} \cup Addresses |-> IF a = 0 THEN [buf |-> <<>>, is_ascii |-> TRUE] ELSE Free]
EmptyCache == [ent |-> [n \in 1 .. JS_STRING_POS_CACHE_SIZE |-> [str |-> JS_NULL, str_pos |-> <<0, 0>>]], counter |-> 1]

Init ==
  \E s \in Starts : \E m \in {Loaded(EmptyHeap, <<>>, s.texts)} :
    /\ heap = m.heap /\ regs = m.regs
    /\ units = [r \in DOMAIN s.texts |-> Utf16(s.texts[r])]
    /\ cache = EmptyCache
    /\ agrees = TRUE
    /\ left = [made |-> s.made, asks |-> s.asks]

-----------------------------------------------------------------------------
(* js_string_convert_pos.  An UTF-8 position is twice the offset of a       *)
(* character, plus one for its right surrogate.                             *)
RECURSIVE Forward(_, _, _, _, _)
Forward(buf, i, j, len, limit) ==
  IF i >= len \/ j = limit THEN [i |-> i, j |-> j, surrogate |-> 0]
  ELSE IF ~IsPair(buf, i) THEN Forward(buf, i + CharLen(buf, i), j + 1, len, limit)
  ELSE IF j + 1 = limit THEN [i |-> i, j |-> j, surrogate |-> 1]
  ELSE Forward(buf, i + 4, j + 2, len, limit)
RECURSIVE Backward(_, _, _, _, _)
Backward(buf, i, j, start, limit) ==
  IF i <= start \/ j = limit THEN [i |-> i, j |-> j, surrogate |-> 0]
  ELSE IF ~IsPair(buf, PrevBoundary(buf, i)) THEN Backward(buf, PrevBoundary(buf, i), j - 1, start, limit)
  ELSE IF j - 1 = limit THEN [i |-> PrevBoundary(buf, i), j |-> j - 2, surrogate |-> 1]
  ELSE Backward(buf, PrevBoundary(buf, i), j - 2, start, limit)
Scan(buf, from, pos, type) ==
  IF from[type] <= pos
  THEN IF type = POS_TYPE_UTF8 THEN Forward(buf, from[1], from[2], pos, INT32_MAX)
       ELSE Forward(buf, from[1], from[2], Len(buf), pos)
  ELSE IF type = POS_TYPE_UTF8 THEN Backward(buf, from[1], from[2], pos, INT32_MAX)
       ELSE Backward(buf, from[1], from[2], 0, pos)

(* The entry of the string nearest to the position, one nearer than its     *)
(* start; without one an entry is replaced, each in its turn.               *)
Distance(e, pos, type) == IF e.str_pos[type] >= pos THEN e.str_pos[type] - pos ELSE pos - e.str_pos[type]
Near(c, v, pos, type) == {n \in DOMAIN c.ent : c.ent[n].str = v /\ Distance(c.ent[n], pos, type) < pos}
Nearest(c, near, pos, type) ==
  Least({n \in near : \A m \in near : Distance(c.ent[n], pos, type) <= Distance(c.ent[m], pos, type)})
Replaced(c, v) ==
  [c EXCEPT !.ent[c.counter] = [str |-> v, str_pos |-> <<0, 0>>],
            !.counter = IF @ = JS_STRING_POS_CACHE_SIZE THEN 1 ELSE @ + 1]
Converted(m, type, flag, c) ==
  [r |-> IF type = POS_TYPE_UTF8 THEN m.j + flag ELSE 2 * m.i + m.surrogate, c |-> c]
Updated(c, n, m, type, flag) == Converted(m, type, flag, [c EXCEPT !.ent[n].str_pos = <<m.i, m.j>>])
AtEntry(buf, c, n, pos, type, flag) == Updated(c, n, Scan(buf, c.ent[n].str_pos, pos, type), type, flag)
Cached(buf, c, v, near, pos, type, flag) ==
  IF near # {} THEN AtEntry(buf, c, Nearest(c, near, pos, type), pos, type, flag)
  ELSE AtEntry(buf, Replaced(c, v), c.counter, pos, type, flag)
Convert(buf, c, v, pos, type, flag) ==
  IF Len(buf) < JS_STRING_POS_CACHE_MIN_LEN THEN Converted(Scan(buf, <<0, 0>>, pos, type), type, flag, c)
  ELSE Cached(buf, c, v, Near(c, v, pos, type), pos, type, flag)
js_string_convert_pos(c, v, pos, type) ==
  CASE get_string_ptr(v).is_ascii ->
         [r |-> IF type = POS_TYPE_UTF8 THEN Least({Len(Text(v)), pos \div 2}) ELSE 2 * Least({Len(Text(v)), pos}), c |-> c]
    [] ~get_string_ptr(v).is_ascii /\ type = POS_TYPE_UTF8 -> Convert(Text(v), c, v, pos \div 2, type, pos % 2)
    [] ~get_string_ptr(v).is_ascii /\ type = POS_TYPE_UTF16 -> Convert(Text(v), c, v, pos, type, 0)

js_string_len(c, v) ==
  IF v.k = "char" THEN [r |-> IF v.c >= 65536 THEN 2 ELSE 1, c |-> c]
  ELSE IF heap[v.p].is_ascii THEN [r |-> Len(heap[v.p].buf), c |-> c]
  ELSE js_string_convert_pos(c, v, 2 * Len(heap[v.p].buf), POS_TYPE_UTF8)

(* string_getcp: -1 outside of the string. *)
CodeAt(c, surrogate, is_codepoint) ==
  IF c < 65536 \/ (surrogate = 0 /\ is_codepoint) THEN c ELSE IF surrogate = 0 THEN Left(c) ELSE Right(c)
GetAt(buf, m, is_codepoint) ==
  [r |-> IF m.r \div 2 >= Len(buf) THEN -1 ELSE CodeAt(CharAt(buf, m.r \div 2), m.r % 2, is_codepoint), c |-> m.c]
string_getcp(c, v, i, is_codepoint) == GetAt(Text(v), js_string_convert_pos(c, v, i, POS_TYPE_UTF16), is_codepoint)

(* js_sub_string_utf8, of UTF-8 positions. *)
Middle(buf, start0, end0) ==
  (IF start0 % 2 = 1 THEN utf8(Right(CharAt(buf, start0 \div 2))) ELSE <<>>)
  \o SubSeq(buf, (start0 \div 2) + (IF start0 % 2 = 1 THEN 5 ELSE 1), end0 \div 2)
  \o (IF end0 % 2 = 1 THEN utf8(Left(CharAt(buf, end0 \div 2))) ELSE <<>>)
js_sub_string_utf8(buf, start0, end0) ==
  CASE start0 = end0 -> JS_ATOM_empty
    [] start0 # end0 /\ (start0 % 2 = 1 \/ end0 % 2 = 1) -> NewString(Middle(buf, start0, end0), FALSE)
    [] start0 # end0 /\ start0 % 2 = 0 /\ end0 % 2 = 0 ->
         IF CharLen(buf, start0 \div 2) = (end0 - start0) \div 2 THEN JS_NewStringChar(CharAt(buf, start0 \div 2))
         ELSE NewString(Middle(buf, start0, end0), is_ascii_string(Middle(buf, start0, end0)))
SubFrom(v, start, e) == [r |-> js_sub_string_utf8(Text(v), start.r, e.r), c |-> e.c]
SubTo(v, start, end) == SubFrom(v, start, js_string_convert_pos(start.c, v, end, POS_TYPE_UTF16))
js_sub_string(c, v, start, end) ==
  IF end <= start THEN [r |-> JS_ATOM_empty, c |-> c]
  ELSE SubTo(v, js_string_convert_pos(c, v, start, POS_TYPE_UTF16), end)

-----------------------------------------------------------------------------
(* StringBuffer: a string, until a second one comes; then bytes. *)
string_buffer_push(len) == IF len > 0 THEN [k |-> "bytes", buf |-> <<>>, is_ascii |-> TRUE] ELSE [k |-> "value", v |-> JS_ATOM_empty]
Failed == [k |-> "failed"]
BufferText(b) == IF b.k = "value" THEN get_string_ptr(b.v) ELSE [buf |-> b.buf, is_ascii |-> b.is_ascii]
is_utf8_left_surrogate(buf, p) == buf[p + 1] = 237 /\ buf[p + 2] \in 160 .. 175
is_utf8_right_surrogate(buf, p) == buf[p + 1] = 237 /\ buf[p + 2] \in 176 .. 191
Contracts(buf1, buf2) ==
  /\ Len(buf2) >= 3 /\ Len(buf1) >= 3
  /\ is_utf8_right_surrogate(buf2, 0) /\ is_utf8_left_surrogate(buf1, Len(buf1) - 3)
Pair(left_, right_) == 65536 + (left_ % 1024) * 1024 + (right_ % 1024)
Joined_apart(t1, t2) == [k |-> "bytes", buf |-> t1.buf \o t2.buf, is_ascii |-> t1.is_ascii /\ t2.is_ascii]
Joined(t1, t2) ==
  IF Contracts(t1.buf, t2.buf)
  THEN [k |-> "bytes", is_ascii |-> FALSE,
        buf |-> SubSeq(t1.buf, 1, Len(t1.buf) - 3)
                \o utf8(Pair(CharAt(t1.buf, Len(t1.buf) - 3), CharAt(t2.buf, 0)))
                \o SubSeq(t2.buf, 4, Len(t2.buf))]
  ELSE [k |-> "bytes", buf |-> t1.buf \o t2.buf, is_ascii |-> t1.is_ascii /\ t2.is_ascii]
string_buffer_concat_str(b, v) ==
  CASE b.k = "failed" \/ Text(v) = <<>> -> b
    [] b.k = "value" /\ BufferText(b).buf = <<>> /\ Text(v) # <<>> -> [k |-> "value", v |-> v]
    [] b.k # "failed" /\ (b.k = "value" => BufferText(b).buf # <<>>) /\ Text(v) # <<>> ->
         IF Len(BufferText(b).buf) + Len(Text(v)) > JS_STRING_LEN_MAX THEN Failed
         ELSE Joined(BufferText(b), get_string_ptr(v))
js_byte_array_to_string(buf, is_ascii) ==
  IF buf = <<>> THEN JS_ATOM_empty
  ELSE IF CharLen(buf, 0) = Len(buf) THEN JS_NewStringChar(CharAt(buf, 0)) ELSE NewString(buf, is_ascii)
string_buffer_pop(b) ==
  CASE b.k = "failed" -> Exception
    [] b.k = "value" -> b.v
    [] b.k = "bytes" -> js_byte_array_to_string(b.buf, b.is_ascii)

RECURSIVE Concatenated(_, _)
Concatenated(b, vs) == IF vs = <<>> THEN b ELSE Concatenated(string_buffer_concat_str(b, Head(vs)), Tail(vs))
JS_ConcatString(vs) == string_buffer_pop(Concatenated(string_buffer_push(0), vs))
js_string_repeat(v, n) ==
  CASE n * Len(Text(v)) > JS_STRING_LEN_MAX -> Exception
    [] n * Len(Text(v)) <= JS_STRING_LEN_MAX /\ (Text(v) = <<>> \/ n = 1) -> v
    [] n * Len(Text(v)) <= JS_STRING_LEN_MAX /\ Text(v) # <<>> /\ n # 1 ->
         string_buffer_pop(Concatenated(string_buffer_push(n * Len(Text(v))), [i \in 1 .. n |-> v]))
(* js_string_fromCharCode, of characters; js_string_toLowerCase, unit by     *)
(* unit.                                                                    *)
js_string_fromCharCode(codes) == JS_ConcatString([i \in DOMAIN codes |-> JS_NewStringChar(codes[i])])
UpperOf(c) == IF c \in 97 .. 122 THEN c - 32 ELSE c
RECURSIVE UpperFrom(_, _, _, _, _)
UpperPut(b, m, v, i, len) == UpperFrom(m.c, string_buffer_concat_str(b, JS_NewStringChar(UpperOf(m.r))), v, i + 1, len)
UpperFrom(c, b, v, i, len) ==
  IF i = len THEN [r |-> string_buffer_pop(b), c |-> c] ELSE UpperPut(b, string_getcp(c, v, i, FALSE), v, i, len)
toUpperFrom(v, len) == UpperFrom(len.c, string_buffer_push(len.r), v, 0, len.r)
js_string_toUpperCase(c, v) == toUpperFrom(v, js_string_len(c, v))

(* js_string_indexOf: the strings are compared unit by unit. *)
RECURSIVE IndexFrom(_, _, _, _, _, _, _)
IndexStep(a, b, v, w, i, j, stop, w_len) ==
  IF a.r = b.r THEN IndexFrom(b.c, v, w, i, j + 1, stop, w_len)
  ELSE IF i = stop THEN [r |-> -1, c |-> b.c] ELSE IndexFrom(b.c, v, w, i + 1, 0, stop, w_len)
IndexBoth(a, v, w, i, j, stop, w_len) == IndexStep(a, string_getcp(a.c, w, j, FALSE), v, w, i, j, stop, w_len)
IndexFrom(c, v, w, i, j, stop, w_len) ==
  IF j = w_len THEN [r |-> i, c |-> c] ELSE IndexBoth(string_getcp(c, v, i + j, FALSE), v, w, i, j, stop, w_len)
IndexOf(v, w, len, w_len) ==
  IF w_len.r > len.r THEN [r |-> -1, c |-> w_len.c] ELSE IndexFrom(w_len.c, v, w, 0, 0, len.r - w_len.r, w_len.r)
IndexLen(v, w, len) == IndexOf(v, w, len, js_string_len(len.c, w))
js_string_indexOf(c, v, w) == IndexLen(v, w, js_string_len(c, v))

(* js_string_compare: by characters, as if they were units. *)
Differ(b1, b2) == {i \in 1 .. Least({Len(b1), Len(b2)}) : b1[i] # b2[i]}
string_get_cp(buf, i) == IF IsExt(buf[i]) THEN CharAt(buf, PrevBoundary(buf, i)) ELSE CharAt(buf, i - 1)
Before_codePoints(c1, c2) == c1 < c2
Before(c1, c2) ==
  CASE (c1 < 65536) = (c2 < 65536) -> c1 < c2
    [] c1 < 65536 /\ c2 >= 65536 -> c1 <= Left(c2)
    [] c1 >= 65536 /\ c2 < 65536 -> Left(c1) < c2
js_string_compare(b1, b2) ==
  IF Differ(b1, b2) # {}
  THEN IF Before(string_get_cp(b1, Least(Differ(b1, b2))), string_get_cp(b2, Least(Differ(b1, b2)))) THEN -1 ELSE 1
  ELSE IF Len(b1) = Len(b2) THEN 0 ELSE IF Len(b1) < Len(b2) THEN -1 ELSE 1
js_string_eq(v1, v2) == Text(v1) = Text(v2)

-----------------------------------------------------------------------------
(* The operations: of the strings in two registers, the result in register  *)
(* d or, of a number, compared with the one that the units give.            *)
Answered(m, expected) ==
  /\ agrees' = (agrees /\ m.r = expected) /\ cache' = m.c
  /\ UNCHANGED <<heap, regs, units, left>>
Stored(d, r) ==
  IF r.k # "new" THEN regs' = [regs EXCEPT ![d] = r] /\ UNCHANGED heap
  ELSE /\ FreeBlocks(heap) # {}
       /\ heap' = [heap EXCEPT ![Least(FreeBlocks(heap))] = [buf |-> r.buf, is_ascii |-> r.is_ascii]]
       /\ regs' = [regs EXCEPT ![d] = Ptr(Least(FreeBlocks(heap)))]
Made(m, us) ==
  /\ left' = [left EXCEPT !.made = @ - 1]
  /\ cache' = m.c
  /\ UNCHANGED agrees
  /\ IF m.r = Exception THEN UNCHANGED <<heap, regs, units>>
     ELSE \E d \in DOMAIN regs : Stored(d, m.r) /\ units' = [units EXCEPT ![d] = us]
Len16(r) == Len(units[r])
Same(r) == [r |-> r, c |-> cache]

get_length == left.asks /\ \E r \in DOMAIN regs : Answered(js_string_len(cache, regs[r]), Len16(r))
charCodeAt == left.asks /\ \E r \in DOMAIN regs : \E i \in 0 .. Len16(r) :
  Answered(string_getcp(cache, regs[r], i, FALSE), IF i < Len16(r) THEN units[r][i + 1] ELSE -1)
CodePoint(us, i) ==
  CASE i > Len(us) -> -1
    [] i < Len(us) /\ us[i] \in 55296 .. 56319 /\ us[i + 1] \in 56320 .. 57343 -> Pair(us[i], us[i + 1])
    [] OTHER -> us[i]
codePointAt == left.asks /\ \E r \in DOMAIN regs : \E i \in 0 .. Len16(r) :
  Answered(string_getcp(cache, regs[r], i, TRUE), CodePoint(units[r], i + 1))
Occurs(us, ws, i) == i + Len(ws) <= Len(us) /\ SubSeq(us, i + 1, i + Len(ws)) = ws
FirstIndex(us, ws) == LET at == {i \in 0 .. Len(us) : Occurs(us, ws, i)} IN IF at = {} THEN -1 ELSE Least(at)
indexOf == left.asks /\ \E r, s \in DOMAIN regs : Answered(js_string_indexOf(cache, regs[r], regs[s]), FirstIndex(units[r], units[s]))

concat == left.made > 0 /\ \E r, s \in DOMAIN regs :
  \E v \in {JS_ConcatString(<<regs[r], regs[s]>>)} : Made(Same(v), units[r] \o units[s])
repeat == left.made > 0 /\ \E r \in DOMAIN regs : \E n \in 0 .. 2 :
  \E v \in {js_string_repeat(regs[r], n)} : Made(Same(v), IF n = 0 THEN <<>> ELSE IF n = 1 THEN units[r] ELSE units[r] \o units[r])
fromCharCode == left.made > 0 /\ \E r, s \in DOMAIN regs : Len16(r) = 1 /\ Len16(s) = 1 /\
  \E v \in {js_string_fromCharCode(<<units[r][1], units[s][1]>>)} : Made(Same(v), units[r] \o units[s])
charAt == left.made > 0 /\ \E r \in DOMAIN regs : \E i \in 0 .. Len16(r) - 1 :
  \E m \in {string_getcp(cache, regs[r], i, FALSE)} : Made([r |-> JS_NewStringChar(m.r), c |-> m.c], <<units[r][i + 1]>>)
SubstringOf(r, start, end) ==
  \E len \in {js_string_len(cache, regs[r])} : \E m \in {js_sub_string(len.c, regs[r], start, end)} :
    Made(m, SubSeq(units[r], start + 1, end))
substring == left.made > 0 /\ \E r \in DOMAIN regs : \E start \in 0 .. Len16(r), end \in 0 .. Len16(r) :
  start <= end /\ SubstringOf(r, start, end)
toUpperCase == left.made > 0 /\ \E r \in DOMAIN regs :
  \E m \in {js_string_toUpperCase(cache, regs[r])} : Made(m, [i \in DOMAIN units[r] |-> UpperOf(units[r][i])])

(* A collection frees what no register holds; the cache is a weak reference. *)
Held == {regs[r].p : r \in {q \in DOMAIN regs : regs[q].k = "str"}} \cup {0}
Kept_stale(e) == e
Kept(e) == IF e.str.k = "str" /\ e.str.p \in Held THEN e ELSE [e EXCEPT !.str = JS_NULL]
JS_GC ==
  /\ FreeBlocks(heap) # Addresses \ Held
  /\ heap' = [a \in DOMAIN heap |-> IF a \in Held THEN heap[a] ELSE Free]
  /\ cache' = [cache EXCEPT !.ent = [n \in DOMAIN @ |-> Kept(@[n])]]
  /\ UNCHANGED <<regs, units, agrees, left>>

Next == \/ get_length \/ charCodeAt \/ codePointAt \/ indexOf
        \/ concat \/ repeat \/ fromCharCode \/ charAt \/ substring \/ toUpperCase \/ JS_GC
Spec == Init /\ [][Next]_vars

-----------------------------------------------------------------------------
(* Properties. *)
(* Every index, length and character that the program is told is the one of *)
(* the units, whatever positions were cached before, and every cached       *)
(* position belongs to the string it is cached for.                         *)
EntryExact(e) ==
  e.str # JS_NULL =>
    /\ heap[e.str.p] # Free
    /\ \E p \in Boundaries(Text(e.str)) : e.str_pos = <<p, Len(Utf16(SubSeq(Text(e.str), 1, p)))>>
PositionsExact == agrees /\ \A n \in DOMAIN cache.ent : EntryExact(cache.ent[n])

(* A register holds the string of its units, so that strings are equal      *)
(* exactly when their bytes are: surrogates that meet are always joined.    *)
StringsCanonical ==
  /\ \A r \in DOMAIN regs : /\ Utf16(Text(regs[r])) = units[r]
                            /\ get_string_ptr(regs[r]).is_ascii => is_ascii_string(Text(regs[r]))
  /\ \A r, s \in DOMAIN regs : js_string_eq(regs[r], regs[s]) <=> units[r] = units[s]

(* Comparing two strings gives the order of their units, but for those that *)
(* differ in a pair of surrogates against its left one alone.               *)
FirstDifference(us, ws) == Least({i \in 1 .. Least({Len(us), Len(ws)}) : us[i] # ws[i]} \cup {1 + Least({Len(us), Len(ws)})})
UnitOrder(us, ws, i) ==
  IF i > Len(us) \/ i > Len(ws) THEN Len(us) - Len(ws) ELSE us[i] - ws[i]
InPair(us, i) == i > 1 /\ i <= Len(us) /\ us[i] \in 56320 .. 57343 /\ us[i - 1] \in 55296 .. 56319
Sign(n) == IF n < 0 THEN -1 ELSE IF n > 0 THEN 1 ELSE 0
ComparesInOrder ==
  \A r, s \in DOMAIN regs :
    \A i \in {FirstDifference(units[r], units[s])} :
      InPair(units[r], i) = InPair(units[s], i)
        => js_string_compare(Text(regs[r]), Text(regs[s])) = Sign(UnitOrder(units[r], units[s], i))
=============================================================================
