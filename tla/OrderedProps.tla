---------------------------- MODULE OrderedProps ----------------------------
(***************************************************************************)
(* What the own properties of an object promise (tests/test_language.js,   *)
(* for-in and delete): a map from keys to values that remembers in which   *)
(* order the keys were added.  Setting a key that is present keeps its     *)
(* place; a key that is deleted and set again goes to the end.             *)
(***************************************************************************)
EXTENDS SequencesExt

CONSTANTS Key, Val

VARIABLE props   \* sequence of [key, value]

Keys(s) == {s[i].key : i \in DOMAIN s}

Set(k, v) ==
  \/ /\ k \notin Keys(props)
     /\ props' = Append(props, [key |-> k, value |-> v])
  \/ \E i \in DOMAIN props :
       /\ props[i].key = k
       /\ props' = [props EXCEPT ![i].value = v]

Delete(k) ==
  \E i \in DOMAIN props :
    /\ props[i].key = k
    /\ props' = RemoveAt(props, i)

Next == \E k \in Key : Delete(k) \/ \E v \in Val : Set(k, v)

Spec == [][Next]_props
=============================================================================
