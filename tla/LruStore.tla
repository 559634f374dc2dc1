------------------------------ MODULE LruStore ------------------------------
(***************************************************************************)
(* What the response cache of edgeproxy promises about the objects it      *)
(* keeps, with no list, map, byte counter, lock or clock in sight: a set   *)
(* of weighted keys within a capacity, ordered by their last use, of which *)
(* only the least recently used one is ever thrown out, and only while the *)
(* rest does not fit.                                                      *)
(***************************************************************************)
EXTENDS Naturals, Functions

CONSTANTS Keys,       \* names of objects
          Weights,    \* sizes of objects
          Capacity    \* what the objects kept may weigh together

VARIABLES held,       \* the keys kept
          weight,     \* the weight of each key; 0 when it is not kept
          newer,      \* the pairs <<j, k>> of kept keys, j used after k
          found       \* the key the last step found, if it looked one up

vars == <<held, weight, newer, found>>

Load(S) == SumFunctionOnSet(weight, S)

Fits == Load(held) <= Capacity

Among(S) == {p \in newer : p[1] \in S /\ p[2] \in S}

(* The order once k has been used. *)
Used(k) == Among(held \ {k}) \cup ({k} \X (held \ {k}))

Without(k) == /\ held' = held \ {k}
              /\ weight' = [weight EXCEPT ![k] = 0]
              /\ newer' = Among(held \ {k})
              /\ found' = {}

Init == held = {} /\ weight = [k \in Keys |-> 0] /\ newer = {} /\ found = {}

(* An object is looked up and found: from now on it is the newest. *)
Touch(k) == /\ Fits /\ k \in held
            /\ newer' = Used(k)
            /\ found' = {k}
            /\ UNCHANGED <<held, weight>>

(* An object is looked up and found too old. *)
Expire(k) == Fits /\ k \in held /\ Without(k)

(* An object is stored, in the place of the one of the same key. *)
Put(k, n) == /\ Fits
             /\ held' = held \cup {k}
             /\ weight' = [weight EXCEPT ![k] = n]
             /\ newer' = Used(k)
             /\ found' = {}

(* The answer has been given. *)
Rest == found' = {} /\ UNCHANGED <<held, weight, newer>>

(* Nothing else happens before the objects fit again. *)
Evict(k) == /\ ~Fits /\ k \in held
            /\ \A j \in held \ {k} : <<j, k>> \in newer
            /\ Without(k)

Next == \/ Rest
        \/ \E k \in Keys : \/ Touch(k) \/ Expire(k) \/ Evict(k)
                           \/ \E n \in Weights : Put(k, n)

Spec == Init /\ [][Next]_vars
=============================================================================
