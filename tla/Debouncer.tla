------------------------------ MODULE Debouncer ------------------------------
(***************************************************************************)
(* pipeline/debounce.py: the per-server debouncer, at the granularity of   *)
(* the asyncio event loop.  An action is the code one task runs between    *)
(* two awaits.  Every trailing submit creates one timer task; the i-th     *)
(* request of key k and the task armed for it are both called <<k, i>>.    *)
(*                                                                         *)
(* task.cancel() only requests a cancellation: the CancelledError is       *)
(* delivered when the loop next resumes the task, also when its sleep has  *)
(* already elapsed and its wake-up is queued ("woken").                    *)
(***************************************************************************)
EXTENDS Naturals

CONSTANTS Server,     \* server ids
          Key,        \* the (server_id, scan_key) pairs
          ServerOf,   \* the server_id of a key
          MaxSubmit   \* bound on the requests submitted per key

ASSUME KeyAssumption == ServerOf \in [Key -> Server]
ASSUME SubmitAssumption == MaxSubmit \in Nat

Seqno == 1 .. MaxSubmit
Request == Key \X Seqno
None == 0

Policy == {"gone", "off", "trailing"}   \* "gone": not in the servers dict

VARIABLES servers,     \* self._servers: the policy of each server
          timers,      \* self._timers: the active timer task of each key
          count,       \* requests submitted so far, per key
          pc,          \* where the task (or the inline call) of a request is
          cancelled,   \* tasks whose cancellation has been requested
          phase,       \* progress of aclose
          awaited      \* the tasks aclose waits for
vars == <<servers, timers, count, pc, cancelled, phase, awaited>>

Where == {"none", "inline", "asleep", "woken", "dispatching", "sent", "dropped"}
Asleep == {"asleep", "woken"}
Ended == {"sent", "dropped"}
Active(k) == <<k, timers[k]>>
Armed == {k \in Key : timers[k] # None}

Init == /\ servers \in [Server -> Policy]
        /\ timers = [k \in Key |-> None]
        /\ count = [k \in Key |-> 0]
        /\ pc = [r \in Request |-> "none"]
        /\ cancelled = {}
        /\ phase = "open"
        /\ awaited = {}

----------------------------------------------------------------------------
(* Faults: what the properties are there to notice.  Each is one           *)
(* definition of the model with a bug in it; no specification uses them.   *)

SubmitUnchecked(k) ==
    /\ \A r \in Request : pc[r] # "inline"
    /\ count[k] < MaxSubmit
    /\ servers[ServerOf[k]] = "trailing"
    /\ cancelled' = cancelled \cup {Active(k)}
    /\ count' = [count EXCEPT ![k] = @ + 1]
    /\ timers' = [timers EXCEPT ![k] = count[k] + 1]
    /\ pc' = [pc EXCEPT ![<<k, count[k] + 1>>] = "asleep"]
    /\ UNCHANGED <<servers, phase, awaited>>

SubmitUncancelled(k) ==
    /\ \A r \in Request : pc[r] # "inline"
    /\ count[k] < MaxSubmit
    /\ servers[ServerOf[k]] = "trailing"
    /\ count' = [count EXCEPT ![k] = @ + 1]
    /\ timers' = [timers EXCEPT ![k] = count[k] + 1]
    /\ pc' = [pc EXCEPT ![<<k, count[k] + 1>>] = "asleep"]
    /\ UNCHANGED <<servers, cancelled, phase, awaited>>

SubmitLeading(k) ==
    /\ \A r \in Request : pc[r] # "inline"
    /\ count[k] < MaxSubmit
    /\ servers[ServerOf[k]] = "trailing"
    /\ count' = [count EXCEPT ![k] = @ + 1]
    /\ timers' = IF k \in Armed THEN timers ELSE [timers EXCEPT ![k] = count[k] + 1]
    /\ pc' = [pc EXCEPT ![<<k, count[k] + 1>>] = IF k \in Armed THEN "dropped" ELSE "asleep"]
    /\ UNCHANGED <<servers, cancelled, phase, awaited>>

UpdateServersOnly(new) ==
    servers' = new /\ UNCHANGED <<timers, count, pc, cancelled, phase, awaited>>

UpdateServersAll(new) ==
    /\ servers' = new
    /\ timers' = [k \in Key |-> None]
    /\ cancelled' = cancelled \cup {Active(k) : k \in Armed}
    /\ UNCHANGED <<count, pc, phase, awaited>>

FireInMap(k, i) ==
    /\ pc[<<k, i>>] = "woken"
    /\ <<k, i>> \notin cancelled
    /\ pc' = [pc EXCEPT ![<<k, i>>] = IF timers[k] = i THEN "dispatching" ELSE "dropped"]
    /\ UNCHANGED <<servers, timers, count, cancelled, phase, awaited>>

FireRegardless(k, i) ==
    /\ pc[<<k, i>>] = "woken"
    /\ timers' = IF timers[k] = i THEN [timers EXCEPT ![k] = None] ELSE timers
    /\ pc' = [pc EXCEPT ![<<k, i>>] = "dispatching"]
    /\ UNCHANGED <<servers, count, cancelled, phase, awaited>>

AcloseUnsuppressed ==
    /\ phase = "closing"
    /\ \A r \in awaited : pc[r] = "sent"
    /\ phase' = "closed"
    /\ UNCHANGED <<servers, timers, count, pc, cancelled, awaited>>

----------------------------------------------------------------------------
(* submit: only the engine's consume loop calls it, one request at a time, *)
(* so an immediate dispatch holds the next submit back.                    *)

CallerBusy == \E r \in Request : pc[r] = "inline"

SubmitNow(k) ==
    /\ ~CallerBusy
    /\ count[k] < MaxSubmit
    /\ servers[ServerOf[k]] # "trailing"
    /\ count' = [count EXCEPT ![k] = @ + 1]
    /\ pc' = [pc EXCEPT ![<<k, count[k] + 1>>] = "inline"]
    /\ UNCHANGED <<servers, timers, cancelled, phase, awaited>>

SubmitTrailing(k) ==
    /\ ~CallerBusy
    /\ count[k] < MaxSubmit
    /\ servers[ServerOf[k]] = "trailing"
    /\ cancelled' = IF k \in Armed THEN cancelled \cup {Active(k)} ELSE cancelled
    /\ count' = [count EXCEPT ![k] = @ + 1]
    /\ timers' = [timers EXCEPT ![k] = count[k] + 1]
    /\ pc' = [pc EXCEPT ![<<k, count[k] + 1>>] = "asleep"]
    /\ UNCHANGED <<servers, phase, awaited>>

(* update_servers: keys of servers that are gone lose their timer. *)
UpdateServers(new) ==
    LET orphans == {k \in Armed : new[ServerOf[k]] = "gone"}
    IN  /\ servers' = new
        /\ timers' = [k \in Key |-> IF k \in orphans THEN None ELSE timers[k]]
        /\ cancelled' = cancelled \cup {Active(k) : k \in orphans}
        /\ UNCHANGED <<count, pc, phase, awaited>>

----------------------------------------------------------------------------
(* _fire_after, the body of a timer task. *)

Elapse(r) ==
    /\ pc[r] = "asleep"
    /\ r \notin cancelled
    /\ pc' = [pc EXCEPT ![r] = "woken"]
    /\ UNCHANGED <<servers, timers, count, cancelled, phase, awaited>>

(* CancelledError reaches the task wherever it is suspended. *)
Unwind(r) ==
    /\ r \in cancelled
    /\ pc[r] \in Asleep \cup {"dispatching"}
    /\ pc' = [pc EXCEPT ![r] = "dropped"]
    /\ UNCHANGED <<servers, timers, count, cancelled, phase, awaited>>

Fire(k, i) ==
    /\ pc[<<k, i>>] = "woken"
    /\ <<k, i>> \notin cancelled
    /\ IF timers[k] = i
         THEN /\ timers' = [timers EXCEPT ![k] = None]
              /\ pc' = [pc EXCEPT ![<<k, i>>] = "dispatching"]
         ELSE /\ pc' = [pc EXCEPT ![<<k, i>>] = "dropped"]
              /\ timers' = timers
    /\ UNCHANGED <<servers, count, cancelled, phase, awaited>>

DispatchReturns(r) ==
    /\ pc[r] \in {"inline", "dispatching"}
    /\ r \notin cancelled
    /\ pc' = [pc EXCEPT ![r] = "sent"]
    /\ UNCHANGED <<servers, timers, count, cancelled, phase, awaited>>

----------------------------------------------------------------------------
(* aclose: clear the map, cancel every timer, wait for the tasks to end.   *)
(* Engine.aclose calls it once.                                            *)

Aclose ==
    /\ phase = "open"
    /\ phase' = "closing"
    /\ awaited' = {Active(k) : k \in Armed}
    /\ cancelled' = cancelled \cup awaited'
    /\ timers' = [k \in Key |-> None]
    /\ UNCHANGED <<servers, count, pc>>

AcloseReturns ==
    /\ phase = "closing"
    /\ \A r \in awaited : pc[r] \in Ended
    /\ phase' = "closed"
    /\ UNCHANGED <<servers, timers, count, pc, cancelled, awaited>>

Task(r) == Elapse(r) \/ Unwind(r) \/ Fire(r[1], r[2]) \/ DispatchReturns(r)

Next == \/ \E k \in Key : SubmitNow(k) \/ SubmitTrailing(k)
        \/ \E new \in [Server -> Policy] : UpdateServers(new)
        \/ \E r \in Request : Task(r)
        \/ Aclose
        \/ AcloseReturns

Spec == Init /\ [][Next]_vars

(* Sleeps elapse, the loop resumes ready tasks, and every trigger returns  *)
(* (each HTTP attempt has a timeout).  Nothing has to be submitted.        *)
Fairness == /\ \A r \in Request : WF_vars(Task(r))
            /\ WF_vars(AcloseReturns)
FairSpec == Spec /\ Fairness

----------------------------------------------------------------------------
(* Properties *)

TypeOK == /\ servers \in [Server -> Policy]
          /\ timers \in [Key -> 0 .. MaxSubmit]
          /\ count \in [Key -> 0 .. MaxSubmit]
          /\ pc \in [Request -> Where]
          /\ cancelled \subseteq Request
          /\ phase \in {"open", "closing", "closed"}
          /\ awaited \subseteq Request

(* The map and the tasks agree: the tasks that can still fire are exactly  *)
(* the ones in self._timers.  So no timer leaks past a rebuild or a close, *)
(* and the guard before the dispatch never has to reject a live task.      *)
TimersExact ==
    \A k \in Key, i \in Seqno :
        (timers[k] = i) <=> (pc[<<k, i>>] \in Asleep /\ <<k, i>> \notin cancelled)

(* A timer carries the newest request its key received in trailing mode:   *)
(* whatever was submitted after it was dispatched at once.                 *)
CarriesNewest ==
    \A k \in Armed : \A j \in Seqno :
        (timers[k] < j /\ j <= count[k]) => pc[<<k, j>>] \in {"inline", "sent"}

(* Disabling or deleting a server withdraws its pending scans: no timer    *)
(* is armed for a server that is not configured.                           *)
NoOrphanTimer == \A k \in Armed : servers[ServerOf[k]] # "gone"

(* A dispatch that has begun is never cancelled by a later submit, rebuild *)
(* or aclose: it runs until its trigger returns.                           *)
DispatchNotKilled ==
    [][\A r \in Request : pc[r] = "dispatching" => pc'[r] \in {"dispatching", "sent"}]_vars

(* A request held back is dispatched, unless a newer one of its key comes, *)
(* its server is removed or the debouncer is closed.                       *)
HeldIsDispatched ==
    \A k \in Key, i \in Seqno :
        timers[k] = i ~>
            \/ pc[<<k, i>>] = "sent"
            \/ count[k] > i
            \/ servers[ServerOf[k]] = "gone"
            \/ phase # "open"

(* aclose returns: every task it waits for ends. *)
AcloseTerminates == phase = "closing" ~> phase = "closed"

(* The debouncer implements the coalescer: dispatch is entered at most     *)
(* once per request, and only with the request the coalescer would send.   *)
Entered == {r \in Request : pc[r] \in {"inline", "dispatching", "sent"}}
Abs == INSTANCE Coalescer WITH held <- timers, sent <- Entered
RefinesCoalescer == Abs!ASpec

(* The class says that a burst dispatches "carrying the most recent        *)
(* request".  Not after the policy of the server goes from trailing to     *)
(* off: a newer request is then sent at once, and the timer still sends    *)
(* the older one after it.                                                 *)
ArmedIsNewest == \A k \in Armed : timers[k] = count[k]
==============================================================================
