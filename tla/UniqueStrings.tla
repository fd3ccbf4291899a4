--------------------------- MODULE UniqueStrings ---------------------------
(***************************************************************************)
(* Unique strings of mquickjs.c: property keys are compared by pointer, so *)
(* JS_MakeUniqueString looks a string up in the atoms in ROM and in the    *)
(* sorted table unique_strings, and adds it to the table if it is new.     *)
(* The table holds its strings weakly: a collection takes out the dead     *)
(* ones and shrinks it.  A collection may happen at each allocation, also  *)
(* at those between finding the place for the string and inserting it.     *)
(*                                                                         *)
(* A string is a block Str; its characters are abstracted to a number,     *)
(* ordered as js_string_compare orders strings.                            *)
(***************************************************************************)
EXTENDS Integers, Sequences, FiniteSets, Ranking

CONSTANTS
  Str,       \* string blocks
  Content,   \* what strings hold
  MayHold,   \* bound: the contents each block is used for
  NumLike,   \* contents that start as a number does
  RomAtoms,  \* contents of the atoms in ROM
  Freed       \* the content of a block that is not allocated

Undefined == 0   \* an unused element of the table

ContentAssumption ==
  /\ Undefined \notin Str
  /\ Content \subseteq Nat /\ NumLike \subseteq Content /\ RomAtoms \subseteq Content
  /\ Freed \notin Content
  /\ MayHold \in [Str -> SUBSET Content]

VARIABLES
  text,                \* content of each string block
  is_unique,           \* the blocks with is_unique set
  live,                \* the blocks reachable from the roots
  unique_strings,      \* the elements of the table; <<>> for JS_NULL
  unique_strings_len,
  pc,                  \* where JS_MakeUniqueString is, "idle" if nowhere
  val,                 \* its argument
  a                    \* the place it found (first element: 1)

stringsVars == <<text, is_unique, live, unique_strings, unique_strings_len, pc, val, a>>

StringsInit ==
  /\ text = [s \in Str |-> Freed]
  /\ is_unique = {} /\ live = {}
  /\ unique_strings = <<>>
  /\ unique_strings_len = 0
  /\ pc = "idle" /\ val = Undefined /\ a = 1
-----------------------------------------------------------------------------
\* One turn of the search for c between the places r.a and r.b: the range gets
\* smaller, or stays as it is when c is in the middle of it.
Middle(r) == (r.a + r.b) \div 2
Halved(r, c) ==
  LET t == text[unique_strings[Middle(r)]] IN
  IF r.a > r.b \/ c = t THEN r
  ELSE IF c < t THEN [r EXCEPT !.b = Middle(r) - 1] ELSE [r EXCEPT !.a = Middle(r) + 1]

\* As many turns as there are elements are enough for any search.
Searched(c, range) ==
  LET search[d \in 0 .. unique_strings_len] == IF d = 0 THEN range ELSE Halved(search[d - 1], c)
  IN search[unique_strings_len]
Result(r) ==
  IF r.a <= r.b THEN [found |-> TRUE, idx |-> Middle(r)] ELSE [found |-> FALSE, idx |-> r.a]

\* Mutation: the last element is never looked at.
find_atom_short(c) == Result(Searched(c, [a |-> 1, b |-> unique_strings_len - 1]))

\* The element equal to c, or the place where it would be.
find_atom(c) == Result(Searched(c, [a |-> 1, b |-> unique_strings_len]))

NewString(s, c) ==
  /\ pc = "idle" /\ text[s] = Freed /\ c \in MayHold[s]
  /\ text' = [text EXCEPT ![s] = c]
  /\ live' = live \cup {s}
  /\ UNCHANGED <<is_unique, unique_strings, unique_strings_len, pc, val, a>>

Drop(s) ==
  /\ pc = "idle" /\ s \in live
  /\ live' = live \ {s}
  /\ UNCHANGED <<text, is_unique, unique_strings, unique_strings_len, pc, val, a>>

\* A collection that keeps the strings in `live': the others leave the table,
\* which is cut to the elements that stay.
Collected ==
  LET kept == {i \in DOMAIN unique_strings : unique_strings[i] \in live} IN
  /\ text' = [s \in Str |-> IF s \in live THEN text[s] ELSE Freed]
  /\ is_unique' = is_unique \cap live
  /\ unique_strings' = [j \in 1 .. Cardinality(kept) |-> unique_strings[Nth(kept, j)]]
  /\ unique_strings_len' = Len(unique_strings')

GC ==
  /\ pc = "idle"
  /\ Collected
  /\ UNCHANGED <<live, pc, val, a>>

\* JS_MakeUniqueString up to the search of the tables.
Lookup(s) ==
  LET found == find_atom(text[s]) IN
  /\ pc = "idle" /\ s \in live \ is_unique
  /\ text[s] \notin RomAtoms
  /\ \/ /\ found.found
        /\ live' = live \cup {unique_strings[found.idx]}
        /\ UNCHANGED <<pc, val, a>>
     \/ /\ ~found.found
        /\ val' = s
        /\ a' = found.idx
        /\ pc' = IF text[s] \in NumLike THEN "numeric" ELSE "insert"
        /\ UNCHANGED live
  /\ UNCHANGED <<text, is_unique, unique_strings, unique_strings_len>>

Done == pc' = "idle" /\ val' = Undefined /\ a' = 1

\* js_is_numeric_string allocates a buffer to parse the number: it may collect,
\* with val protected, or fail.
NumericCheck ==
  /\ pc = "numeric"
  /\ \/ UNCHANGED <<text, is_unique, unique_strings, unique_strings_len>>
     \/ Collected
  /\ \/ pc' = "insert" /\ UNCHANGED <<val, a>>
     \/ Done
  /\ UNCHANGED live

Max2(x, y) == IF x > y THEN x ELSE y

\* js_resize_value_array(unique_strings, unique_strings_len + 1): the elements
\* afterwards.  A collection there finds the table among the roots, and the
\* table is full then, so that it stays as it is.
Resized ==
  LET old == Len(unique_strings) IN
  IF unique_strings_len + 1 <= old THEN unique_strings
  ELSE [i \in 1 .. Max2(unique_strings_len + 1, old + old \div 2) |->
          IF i <= old THEN unique_strings[i] ELSE Undefined]

\* Mutation: the string goes to the end of the table.
Inserted_last(tab) ==
  [i \in DOMAIN tab |-> IF i = unique_strings_len + 1 THEN val ELSE tab[i]]

Inserted(tab) ==
  [i \in DOMAIN tab |->
     IF i < a THEN tab[i]
     ELSE IF i = a THEN val
     ELSE IF i <= unique_strings_len + 1 THEN tab[i - 1] ELSE tab[i]]

\* The table grows if need be, collecting or not what is in neither the roots
\* nor the table.  Beyond the end of the table the count given to memmove is
\* negative and the program dies there: the model has no step for it.
Insert ==
  LET kept == live \cup {unique_strings[i] : i \in 1 .. unique_strings_len} IN
  /\ pc = "insert" /\ a <= unique_strings_len + 1
  /\ unique_strings' = Inserted(Resized)
  /\ unique_strings_len' = unique_strings_len + 1
  /\ \/ UNCHANGED text /\ is_unique' = is_unique \cup {val}
     \/ /\ unique_strings_len = Len(unique_strings)
        /\ text' = [s \in Str |-> IF s \in kept THEN text[s] ELSE Freed]
        /\ is_unique' = (is_unique \cap kept) \cup {val}
  /\ Done
  /\ UNCHANGED live

\* No memory for a larger table.
InsertFails ==
  LET kept == live \cup {unique_strings[i] : i \in 1 .. unique_strings_len} IN
  /\ pc = "insert" /\ unique_strings_len = Len(unique_strings)
  /\ text' = [s \in Str |-> IF s \in kept THEN text[s] ELSE Freed]
  /\ is_unique' = is_unique \cap kept
  /\ Done
  /\ UNCHANGED <<live, unique_strings, unique_strings_len>>

StringsNext ==
  \/ \E s \in Str, c \in Content : NewString(s, c)
  \/ \E s \in Str : Drop(s)
  \/ GC
  \/ \E s \in Str : Lookup(s)
  \/ NumericCheck
  \/ Insert
  \/ InsertFails

StringsSpec == StringsInit /\ [][StringsNext]_stringsVars
-----------------------------------------------------------------------------
(* Properties.                                                             *)

Elements == {unique_strings[i] : i \in 1 .. unique_strings_len}

\* Types.  The search found a place in the table, and the string that
\* JS_MakeUniqueString works on stays allocated.
StringsTypeOK ==
  /\ text \in [Str -> Content \cup {Freed}]
  /\ is_unique \subseteq Str
  /\ live \subseteq {s \in Str : text[s] # Freed}
  /\ unique_strings \in Seq(Str \cup {Undefined})
  /\ unique_strings_len \in 0 .. Len(unique_strings)
  /\ pc \in {"idle", "numeric", "insert"}
  /\ val \in IF pc = "idle" THEN {Undefined} ELSE live \ is_unique
  /\ a \in Nat \ {0}

\* The table and the mark is_unique agree, and no element dangles: a collection
\* never frees a string that is still in the table.
WeakTable ==
  /\ Elements = is_unique
  /\ \A s \in is_unique : text[s] \in Content

\* "JSValueArray of sorted strings": each element is before the next one.
TableSorted ==
  \A i \in 1 .. unique_strings_len - 1 :
    text[unique_strings[i]] < text[unique_strings[i + 1]]

\* What is unique is in the table and allocated, equal strings have one unique
\* string, and it can be found: comparing keys by pointer compares their
\* characters.
Canonical ==
  /\ WeakTable
  /\ \A s, t \in is_unique : text[s] = text[t] => s = t
  /\ \A s \in is_unique : LET f == find_atom(text[s]) IN
       f.found /\ unique_strings[f.idx] = s
=============================================================================
