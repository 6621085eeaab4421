------------------------------- MODULE KvStore -------------------------------
(***************************************************************************)
(* What the store promises its users, whatever happens underneath: a map   *)
(* from keys to values that changes only when somebody writes, one key at  *)
(* a time.  The version counts the writes, so that an old value coming     *)
(* back does not pass for somebody writing it again.                       *)
(***************************************************************************)
EXTENDS Naturals

CONSTANTS Keys, Values, NotFound

VARIABLES store,     \* what a read of each key returns
          version    \* how many writes made it so

Init == /\ store = [k \in Keys |-> NotFound]
        /\ version = 0

(* put(k, v), or remove(k) when v = NotFound                               *)
Write(k, v) == /\ store' = [store EXCEPT ![k] = v]
               /\ version' = version + 1

Next == \E k \in Keys, v \in Values \cup {NotFound} : Write(k, v)

Spec == Init /\ [][Next]_<<store, version>>
==============================================================================
