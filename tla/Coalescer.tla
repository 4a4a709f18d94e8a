------------------------------ MODULE Coalescer ------------------------------
(***************************************************************************)
(* What the Debouncer promises, with no tasks, sleeps or cancellations.    *)
(* Requests of one (server_id, scan_key) are numbered in the order they    *)
(* are submitted.  At most one request per key is held back; a newer one   *)
(* replaces it; a held request leaves either by being sent, once, or by    *)
(* being discarded together with everything else of its server.            *)
(***************************************************************************)
EXTENDS Naturals

CONSTANTS Server,     \* server ids
          Key,        \* the (server_id, scan_key) pairs
          ServerOf,   \* the server_id of a key
          MaxSubmit   \* bound on the requests submitted per key

None == 0

VARIABLES count,   \* requests submitted so far, per key
          held,    \* the request held back, per key, or None
          sent     \* the requests handed to dispatch
avars == <<count, held, sent>>

AInit == /\ count = [k \in Key |-> 0]
         /\ held = [k \in Key |-> None]
         /\ sent = {}

Hold(k) == /\ count[k] < MaxSubmit
           /\ count' = [count EXCEPT ![k] = @ + 1]
           /\ held' = [held EXCEPT ![k] = count[k] + 1]
           /\ sent' = sent

SendAtOnce(k) == /\ count[k] < MaxSubmit
                 /\ count' = [count EXCEPT ![k] = @ + 1]
                 /\ sent' = sent \cup {<<k, count[k] + 1>>}
                 /\ held' = held

SendHeld(k) == /\ held[k] # None
               /\ sent' = sent \cup {<<k, held[k]>>}
               /\ held' = [held EXCEPT ![k] = None]
               /\ count' = count

DiscardServers(gone) ==
    /\ held' = [k \in Key |-> IF ServerOf[k] \in gone THEN None ELSE held[k]]
    /\ UNCHANGED <<count, sent>>

ANext == \/ \E k \in Key : Hold(k) \/ SendAtOnce(k) \/ SendHeld(k)
         \/ \E gone \in SUBSET Server : DiscardServers(gone)

ASpec == AInit /\ [][ANext]_avars
==============================================================================
