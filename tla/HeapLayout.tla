----------------------------- MODULE HeapLayout -----------------------------
(***************************************************************************)
(* The mquickjs heap word by word.  A block is a header word followed by   *)
(* its other words; addresses count words, heap_base is address 1.  The    *)
(* words of a block are JSValues or raw data (character codes, lengths,    *)
(* opaque pointers): raw data may have the bits of a pointer, so the model *)
(* gives it the same form and only the layout tells them apart.            *)
(*                                                                         *)
(* A location is an address or, for the JSValues outside of the heap that  *)
(* the collector knows, a negative number.                                 *)
(***************************************************************************)
EXTENDS Integers, Sequences, FiniteSets

VARIABLES
  mem,         \* location -> word
  heap_free,   \* the address after the last block
  phase,       \* the step of the collector
  ptr          \* the block it is at

heapVars == <<mem, heap_free, phase, ptr>>

\* ctx->unique_strings and the entries of ctx->string_pos_cache, which are weak;
\* further down are the strong ones: the other fields of the context, the
\* stack, the lists of GC references and the parser.
TableLoc == -1
CacheLocs == {-2, -3}   \* JS_STRING_POS_CACHE_SIZE
ExtOf(m) == {l \in DOMAIN m : l < 0}
StrongOf(m) == ExtOf(m) \ (CacheLocs \cup {TableLoc})
HeapEnd(m) == Cardinality({l \in DOMAIN m : l > 0}) + 1

\* A JSValue that is no pointer into the heap.
Imm == [k |-> "imm"]
Ptr(a) == [k |-> "ptr", a |-> a]

\* `n' is the size of the block in words: what get_mblock_size computes from
\* the header (extra_size, len, size, is_detached).  `cls' is the class of an
\* object and "" for the other tags.
Hdr(mtag, cls, n, mark) ==
  [k |-> "hdr", mtag |-> mtag, cls |-> cls, n |-> n, mark |-> mark]
Free(n) == Hdr("free", "", n, FALSE)

JS_IsPtr(w) == w.k = "ptr"
IsHeader(w) == w.k = "hdr"

\* The words of a JSObject before its union: header, proto, props.
ObjectFixed == 3
extra_size(h) == h.n - ObjectFixed

TypedArrayClass == {"uint8_array", "float64_array"}
Class == {"object", "closure", "c_function", "array", "error", "array_buffer",
          "regexp", "user"} \cup TypedArrayClass

MTag == {"free", "object", "float64", "string", "function_bytecode", "value_array", "byte_array", "varref"}
Header == [k : {"hdr"}, mtag : MTag, cls : Class \cup {""}, n : Nat \ {0}, mark : BOOLEAN]

\* The fields gc_mark_flush passes to gc_mark, as offsets from the header.
MarkSlots(h) ==
  CASE h.mtag = "object" ->
         {1, 2} \cup
         (CASE h.cls = "closure" ->
                 {ObjectFixed} \cup {ObjectFixed + 1 + i : i \in 0 .. (extra_size(h) - 2)}
            [] h.cls = "c_function" ->
                 IF extra_size(h) > 1 THEN {ObjectFixed + 1} ELSE {}
            [] h.cls \in {"array", "array_buffer"} \cup TypedArrayClass -> {ObjectFixed}
            [] h.cls \in {"error", "regexp"} -> {ObjectFixed, ObjectFixed + 1}
            [] OTHER -> {})
    [] h.mtag = "value_array" -> 1 .. (h.n - 1)
    [] h.mtag = "varref" -> {1}
    [] h.mtag = "function_bytecode" -> {1, 2, 3, 4, 5, 7, 8}
    [] OTHER -> {}

\* Mutation: the parameters of a C function are not threaded.
ThreadSlots_noParams(h) == IF h.cls = "c_function" THEN {1, 2} ELSE MarkSlots(h)

\* The fields gc_thread_block threads, in its order.
ThreadSlots(h) ==
  CASE h.mtag = "object" ->
         {1, 2} \cup
         (CASE h.cls = "closure" ->
                 {ObjectFixed} \cup {ObjectFixed + 1 + i : i \in 0 .. (extra_size(h) - 2)}
            [] h.cls = "c_function" ->
                 IF extra_size(h) > 1 THEN {ObjectFixed + 1} ELSE {}
            [] h.cls \in {"array", "array_buffer"} \cup TypedArrayClass -> {ObjectFixed}
            [] h.cls \in {"error", "regexp"} -> {ObjectFixed, ObjectFixed + 1}
            [] OTHER -> {})
    [] h.mtag = "value_array" -> 1 .. (h.n - 1)
    [] h.mtag = "varref" -> {1}
    [] h.mtag = "function_bytecode" -> {1, 2, 3, 4, 5, 7, 8}
    [] OTHER -> {}

get_mblock_size(m, a) == m[a].n

\* What walking from one header to the next, from `from' up to `to', meets, and
\* where it ends: each turn but the last goes on by a word at least.
Walked(m, from, to) ==
  LET walk[d \in 0 .. to - from] ==
        IF d = 0 THEN [at |-> from, met |-> {}]
        ELSE LET w == walk[d - 1] IN
             IF w.at < to /\ IsHeader(m[w.at])
             THEN [at |-> w.at + get_mblock_size(m, w.at), met |-> w.met \cup {w.at}]
             ELSE w
  IN walk[to - from]

\* The addresses of the blocks.
BlockAddrs(m, from, to) == Walked(m, from, to).met

\* The walk meets only headers and ends at `to'.
Walkable(m, from, to) == Walked(m, from, to).at = to

\* The blocks B of the memory m lie one after the other.
Laid(m, B, from, to) ==
  /\ from <= to /\ B \subseteq from .. to - 1 /\ from \in B \cup {to}
  /\ \A a \in B :
       /\ m[a] \in Header
       /\ a + m[a].n \in B \cup {to}
       /\ \A b \in B : a < b => a + m[a].n <= b

\* Where the block at a comes to lie when only the blocks B, of the sizes
\* `size', stay: after the words of those before it.
Slid(B, size, a) == 1 + Cardinality({l \in 1 .. a - 1 : \E b \in B : l \in b .. b + size[b] - 1})
=============================================================================
