------------------------------- MODULE Lease -------------------------------
(***************************************************************************)
(* What a Redis lock with a time to live promises, whoever implements it.  *)
(* A key has one holder; a worker enters by becoming the holder, leaves by *)
(* giving the key back only if it is still the holder, or dies and leaves  *)
(* the key to its time to live.  When the time to live runs out under a    *)
(* worker that is still inside, the worker is not told: a lapse.           *)
(***************************************************************************)
EXTENDS Naturals, FiniteSets

CONSTANTS
    Worker,  \* who may hold a key
    Key,     \* the keys
    NULL     \* "no holder", not a worker

VARIABLES
    holder,  \* the value of each key in Redis
    inside,  \* <<worker, key>>: workers between their entry and their exit
    lapses   \* keys that expired under a worker inside

vars == <<holder, inside, lapses>>

Init ==
    /\ holder = [k \in Key |-> NULL]
    /\ inside = {}
    /\ lapses = 0

Enter(p, k) ==
    /\ holder[k] = NULL /\ \A j \in Key : <<p, j>> \notin inside
    /\ holder' = [holder EXCEPT ![k] = p]
    /\ inside' = inside \cup {<<p, k>>}
    /\ UNCHANGED lapses

Leave(p, k) ==
    /\ <<p, k>> \in inside
    /\ inside' = inside \ {<<p, k>>}
    /\ holder' = [holder EXCEPT ![k] = IF @ = p THEN NULL ELSE @]
    /\ UNCHANGED lapses

Die(p, k) ==
    /\ <<p, k>> \in inside
    /\ inside' = inside \ {<<p, k>>}
    /\ UNCHANGED <<holder, lapses>>

Lapse(k) ==
    /\ holder[k] # NULL
    /\ holder' = [holder EXCEPT ![k] = NULL]
    /\ lapses' = IF <<holder[k], k>> \in inside THEN lapses + 1 ELSE lapses
    /\ UNCHANGED inside

Next ==
    \E k \in Key :
        \/ \E p \in Worker : Enter(p, k) \/ Leave(p, k) \/ Die(p, k)
        \/ Lapse(k)

Spec == Init /\ [][Next]_vars

-----------------------------------------------------------------------------
\* What the holders of the key may rely on: as long as nothing lapsed, whoever
\* is inside is the holder of its key, so that two are never inside with one key.
Exclusive ==
    lapses = 0 => \A p \in Worker, k \in Key : <<p, k>> \in inside => holder[k] = p
=============================================================================
