------------------------------- MODULE Pipeline -------------------------------
(***************************************************************************)
(* One event's way through the engine while it is reconfigured and closed: *)
(* _handle_event in the consume loop, the debouncer, the dispatcher and    *)
(* the HTTP clients, beside the swap of rebuild and beside aclose.         *)
(*                                                                         *)
(* The debouncer is the module Debouncer, whose variables and actions are  *)
(* used as they are.  Routing is a choice: an event matches any keys of    *)
(* servers in the configuration.  Generation g of the clients is the dict  *)
(* the g-th _build_adapters returned; an adapter is known by its clients.  *)
(***************************************************************************)
EXTENDS Naturals

CONSTANTS Server, Key, ServerOf, MaxSubmit,   \* see Debouncer
          Unsupported,   \* servers create_adapter rejects
          MaxGen         \* bound on the client generations: rebuilds plus one

ASSUME KeysAssumption == ServerOf \in [Key -> Server] /\ MaxSubmit \in Nat
ASSUME GenAssumption == MaxGen \in Nat \ {0}

VARIABLES servers, timers, count, pc, cancelled, phase, awaited   \* Debouncer
debouncer == <<servers, timers, count, pc, cancelled, phase, awaited>>
D == INSTANCE Debouncer

VARIABLES config,     \* self._config: the policy of each server it routes to
          adapters,   \* the dispatcher's adapters, by client generation
          clients,    \* self._clients
          gen,        \* generations built so far
          old,        \* old_clients of the rebuild in progress
          shut,       \* generations that were closed
          todo,       \* the keys of the current event still to be submitted
          via,        \* the adapter each dispatch has taken
          result,     \* what became of it
          stop        \* progress of Engine.aclose
engine == <<config, adapters, clients, gen, old, shut>>
requests == <<todo, via, result>>
vars == <<debouncer, engine, requests, stop>>

NoClients == 0
Gen == 1 .. MaxGen

(* A fault of AdaptersOf (see the section Faults below). *)
AdaptersNeverRemoved(c, g) == [s \in Server |-> IF s \in Unsupported THEN NoClients ELSE g]

AdaptersOf(c, g) == [s \in Server |-> IF c[s] = "gone" \/ s \in Unsupported THEN NoClients ELSE g]
Routed(c) == {k \in Key : c[ServerOf[k]] # "gone"}
Upcoming(k) == <<k, count[k] + 1>>   \* the request submitted next for key k

(* Requests whose dispatch has found no adapter: it returns at once. *)
Stranded == {r \in D!Request : pc[r] \in {"inline", "dispatching"} /\ via[r] = NoClients}

(* No task is between two suspension points.  The consume loop suspends    *)
(* within an event only while an immediate dispatch waits for its answer,  *)
(* and the debouncer's aclose only if it has tasks to wait for.            *)
LoopAtAwait == (todo = {} \/ D!CallerBusy) /\ Stranded = {}
AtAwait == LoopAtAwait /\ ~(stop = "debouncer" /\ awaited = {})

Init == /\ D!Init
        /\ config = servers
        /\ gen = 1
        /\ clients = 1
        /\ adapters = AdaptersOf(servers, 1)
        /\ old = NoClients
        /\ shut = {}
        /\ todo = {}
        /\ via = [r \in D!Request |-> NoClients]
        /\ result = [r \in D!Request |-> "none"]
        /\ stop = "no"

----------------------------------------------------------------------------
(* Faults: what the properties are there to notice.  Each is one           *)
(* definition of the model with a bug in it; no specification uses them.   *)

OutcomesRaised(r) == IF via[r] = NoClients THEN {"raised"}
                     ELSE IF via[r] \in shut THEN {"ok", "lost"} ELSE {"ok", "failed"}

CloseOldInForce ==
    /\ AtAwait
    /\ old # NoClients
    /\ shut' = shut \cup {clients}
    /\ old' = NoClients
    /\ UNCHANGED <<debouncer, config, adapters, clients, gen, requests, stop>>

----------------------------------------------------------------------------
(* The consume loop *)

(* The configuration is read once; what it routes is fixed before the      *)
(* first submit.  A closed watcher yields nothing more.                    *)
HandleEvent(matched) ==
    /\ AtAwait /\ ~D!CallerBusy
    /\ stop = "no"
    /\ matched # {} /\ matched \subseteq Routed(config)
    /\ \A k \in matched : count[k] < MaxSubmit
    /\ todo' = matched
    /\ UNCHANGED <<debouncer, engine, via, result, stop>>

(* submit, under the policy of the moment; an immediate dispatch takes the *)
(* adapter of the moment.                                                  *)
Submit(k) ==
    /\ k \in todo
    /\ Stranded = {}
    /\ todo' = todo \ {k}
    /\ \/ D!SubmitTrailing(k) /\ via' = via
       \/ D!SubmitNow(k) /\ via' = [via EXCEPT ![Upcoming(k)] = adapters[ServerOf[k]]]
    /\ UNCHANGED <<engine, result, stop>>

----------------------------------------------------------------------------
(* Timer tasks and dispatches *)

Wait(r) ==
    /\ AtAwait
    /\ D!Elapse(r) \/ D!Unwind(r)
    /\ UNCHANGED <<engine, requests, stop>>

Fire(k, i) ==
    /\ AtAwait
    /\ D!Fire(k, i)
    /\ via' = IF timers[k] = i THEN [via EXCEPT ![<<k, i>>] = adapters[ServerOf[k]]] ELSE via
    /\ UNCHANGED <<engine, todo, result, stop>>

(* What dispatch makes of a request.  Without an adapter it fails; if the  *)
(* clients were closed meanwhile, the answer came before that, or the      *)
(* transport error, or the next attempt on a closed client, is a failure.  *)
Outcomes(r) == IF via[r] = NoClients THEN {"failed"}
               ELSE IF via[r] \in shut THEN {"ok", "lost"} ELSE {"ok", "failed"}

Return(r) ==
    /\ r \in Stranded \/ AtAwait
    /\ D!DispatchReturns(r)
    /\ \E o \in Outcomes(r) : result' = [result EXCEPT ![r] = o]
    /\ UNCHANGED <<engine, todo, via, stop>>

----------------------------------------------------------------------------
(* rebuild: the synchronous swap, then the closing of the old clients.     *)
(* The lock keeps a second rebuild out until they are closed.              *)

Swap(new) ==
    /\ AtAwait
    /\ old = NoClients
    /\ gen < MaxGen
    /\ D!UpdateServers(new)
    /\ config' = new
    /\ gen' = gen + 1
    /\ adapters' = AdaptersOf(new, gen + 1)
    /\ clients' = gen + 1
    /\ old' = clients
    /\ UNCHANGED <<shut, requests, stop>>

CloseOld ==
    /\ AtAwait
    /\ old # NoClients
    /\ shut' = shut \cup {old}
    /\ old' = NoClients
    /\ UNCHANGED <<debouncer, config, adapters, clients, gen, requests, stop>>

----------------------------------------------------------------------------
(* Engine.aclose: the watcher and the debouncer, then the clients of the   *)
(* moment, one dict being closed in one step.                              *)

Aclose == /\ AtAwait /\ stop = "no"
          /\ D!Aclose
          /\ stop' = "debouncer"
          /\ UNCHANGED <<engine, requests>>

AcloseClients == /\ LoopAtAwait /\ stop = "debouncer"
                 /\ D!AcloseReturns
                 /\ shut' = shut \cup {clients}
                 /\ stop' = "clients"
                 /\ UNCHANGED <<config, adapters, clients, gen, old, requests>>

AcloseEnds == /\ AtAwait /\ stop = "clients"
              /\ clients' = NoClients
              /\ stop' = "done"
              /\ UNCHANGED <<debouncer, config, adapters, gen, old, shut, requests>>

Run(r) == Wait(r) \/ Fire(r[1], r[2]) \/ Return(r)

Next == \/ \E matched \in SUBSET Key : HandleEvent(matched)
        \/ \E k \in Key : Submit(k)
        \/ \E r \in D!Request : Run(r)
        \/ \E new \in [Server -> D!Policy] : Swap(new)
        \/ CloseOld
        \/ Aclose \/ AcloseClients \/ AcloseEnds

Spec == Init /\ [][Next]_vars

(* The loop resumes ready tasks, windows elapse and every trigger returns, *)
(* each HTTP attempt having a timeout.  No event, rebuild or shutdown has  *)
(* to come.                                                                *)
Fairness == /\ WF_vars(\E k \in Key : Submit(k))
            /\ \A r \in D!Request : WF_vars(Run(r))
            /\ WF_vars(CloseOld)
FairSpec == Spec /\ Fairness

----------------------------------------------------------------------------
(* Properties *)

TypeOK == /\ D!TypeOK
          /\ config \in [Server -> D!Policy]
          /\ adapters \in [Server -> Gen \cup {NoClients}]
          /\ {clients, old} \subseteq Gen \cup {NoClients}
          /\ gen \in Gen
          /\ shut \subseteq Gen \cup {NoClients}
          /\ todo \subseteq Key
          /\ via \in [D!Request -> Gen \cup {NoClients}]
          /\ result \in [D!Request -> {"none", "ok", "failed", "lost"}]
          /\ stop \in {"no", "debouncer", "clients", "done"}

(* "New requests already use new adapters/clients": a request dispatched   *)
(* since the last swap is never lost to the closing of clients.            *)
NewRequestsSafe == stop = "no" => \A r \in D!Request : result[r] = "lost" => via[r] < gen

(* From the swap that removes a server on, nothing is sent to it: neither  *)
(* by a timer nor by the rest of an event that was routed before.          *)
RemovedIsSilent ==
    [][\A r \in D!Request : via'[r] # via[r] => config[ServerOf[r[1]]] # "gone"
                                                \/ via'[r] = NoClients]_vars

(* What an event matched is dispatched, by its own request or by a newer   *)
(* one of the same key, unless the server is removed or aclose is called.  *)
EventIsDispatched ==
    \A k \in Key, n \in D!Seqno :
        (k \in todo /\ count[k] + 1 = n) ~>
            \/ \E j \in n .. MaxSubmit : result[<<k, j>>] # "none"
            \/ config[ServerOf[k]] = "gone"
            \/ stop # "no"

----------------------------------------------------------------------------
(* What the documentation says and the code does not do. *)

(* rebuild: "No restart, no dropped events."  Not for a dispatch that is   *)
(* under way when the clients it uses are closed, though its server stays. *)
NoScanDropped ==
    stop = "no" => \A r \in D!Request : result[r] = "lost" => config[ServerOf[r[1]]] = "gone"

(* _handle_event: "a concurrent rebuild swap never splits a single event   *)
(* across two configurations".  Not if the swap comes while the event's    *)
(* first dispatch waits: what remains is submitted under the new one, and  *)
(* so to servers that it does not have.                                    *)
EventInOneConfig == todo \subseteq Routed(config)

(* aclose releases the debouncer.  Not if the consume loop is still at     *)
(* work on an event: its next submit arms a new timer.                     *)
DebouncerReleased == stop = "done" => D!Armed = {}
===============================================================================
