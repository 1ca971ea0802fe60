---------------------------- MODULE LockService ----------------------------
(***************************************************************************)
(* What the users of createLock are promised (mutex.mdx: "at most one      *)
(* owner may hold the lock at a time"), seen from the answers they get: a  *)
(* key is taken only while nobody holds it, and a lock ends (released,     *)
(* expired, forced or lost with its holder) before it is another owner's.  *)
(* No rows, no clock, no processes.                                        *)
(***************************************************************************)
CONSTANTS Keys, Owners

VARIABLE holder     \* the owners that may conclude they hold each key

Init == holder = [k \in Keys |-> {}]

Take(o, k) ==
    /\ holder[k] = {}
    /\ holder' = [holder EXCEPT ![k] = {o}]

(* A tick or a crash may end the locks on several keys at once. *)
Drop(ended) ==
    holder' = [k \in Keys |-> IF k \in ended THEN {} ELSE holder[k]]

Next ==
    \/ \E o \in Owners, k \in Keys : Take(o, k)
    \/ \E ended \in SUBSET Keys : Drop(ended)

Spec == Init /\ [][Next]_holder
=============================================================================
