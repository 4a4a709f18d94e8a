---------------------------- MODULE PipelineProofs ----------------------------
(***************************************************************************)
(* TLAPS proofs about the way of an event, for every set of servers and    *)
(* keys and every bound on the submissions and rebuilds.  What is proved   *)
(* of the debouncer in DebouncerProofs is used here by its names DP!...    *)
(***************************************************************************)
EXTENDS Pipeline, TLAPS

DP == INSTANCE DebouncerProofs

(* A request with a result has been sent, and so is dispatched no more. *)
AnsweredIsSent == \A r \in D!Request : result[r] # "none" => pc[r] = "sent"

(* Each server of the configuration has the adapter of the last swap, and  *)
(* no other server has one.                                                *)
AdaptersInForce == adapters = AdaptersOf(config, gen)

(* Until aclose begins, what is shut or about to be was built before.      *)
OldIsShut == stop = "no" => /\ clients = gen
                            /\ old < gen
                            /\ \A g \in shut : g < gen

IInv == /\ TypeOK
        /\ DP!IInv
        /\ config = servers
        /\ AnsweredIsSent
        /\ AdaptersInForce
        /\ OldIsShut
        /\ NewRequestsSafe

(* A server the configuration in force does not have has no armed timer. *)
RemovedHasNoTimer == \A k \in DP!Armed : config[ServerOf[k]] # "gone"

(* The actions of the debouncer are those that DebouncerProofs is about. *)
LEMMA SameDebouncer ==
    /\ D!Request = DP!Request
    /\ D!Init => DP!Init
    /\ \A k \in Key : D!SubmitNow(k) \/ D!SubmitTrailing(k) => DP!Next
    /\ \A new \in [Server -> D!Policy] : D!UpdateServers(new) => DP!Next
    /\ \A r \in D!Request : D!Elapse(r) \/ D!Unwind(r) \/ D!Fire(r[1], r[2]) \/ D!DispatchReturns(r) => DP!Next
    /\ D!Aclose \/ D!AcloseReturns => DP!Next
<1> USE DEF D!Request, DP!Request, D!Seqno, DP!Seqno
<1>1. D!Init => DP!Init
  BY DEF D!Init, DP!Init, D!Policy, DP!Policy, D!None, DP!None
<1>2. ASSUME NEW k \in Key, D!SubmitNow(k) \/ D!SubmitTrailing(k) PROVE DP!Next
  <2>1. DP!SubmitNow(k) \/ DP!SubmitTrailing(k)
    BY <1>2 DEF D!SubmitNow, D!SubmitTrailing, D!CallerBusy, D!Armed, D!Active, D!None,
                DP!SubmitNow, DP!SubmitTrailing, DP!CallerBusy, DP!Armed, DP!Active, DP!None
  <2> QED
    BY <2>1 DEF DP!Next
<1>3. ASSUME NEW new \in [Server -> D!Policy], D!UpdateServers(new) PROVE DP!Next
  <2>1. DP!UpdateServers(new)
    BY <1>3 DEF D!UpdateServers, D!Armed, D!Active, D!None, DP!UpdateServers, DP!Armed, DP!Active, DP!None
  <2> QED
    BY <2>1 DEF DP!Next, D!Policy, DP!Policy
<1>4. ASSUME NEW r \in D!Request,
             D!Elapse(r) \/ D!Unwind(r) \/ D!Fire(r[1], r[2]) \/ D!DispatchReturns(r)
      PROVE  DP!Next
  <2>1. DP!Task(r)
    BY <1>4 DEF D!Elapse, D!Unwind, D!Fire, D!DispatchReturns, D!Asleep, D!None,
                DP!Task, DP!Elapse, DP!Unwind, DP!Fire, DP!DispatchReturns, DP!Asleep, DP!None
  <2> QED
    BY <2>1 DEF DP!Next
<1>5. ASSUME D!Aclose \/ D!AcloseReturns PROVE DP!Next
  <2>1. DP!Aclose \/ DP!AcloseReturns
    BY <1>5 DEF D!Aclose, D!AcloseReturns, D!Armed, D!Active, D!None, D!Ended,
                DP!Aclose, DP!AcloseReturns, DP!Armed, DP!Active, DP!None, DP!Ended
  <2> QED
    BY <2>1 DEF DP!Next
<1> QED
  BY <1>1, <1>2, <1>3, <1>4, <1>5

(* Every step of the engine is one of the debouncer's, or leaves it alone. *)
LEMMA DebouncerStep == [Next]_vars => [DP!Next]_(DP!vars)
<1> SUFFICES ASSUME [Next]_vars PROVE DP!Next \/ UNCHANGED debouncer
  BY DEF DP!vars, debouncer
<1>1. CASE \/ \E matched \in SUBSET Key : HandleEvent(matched)
           \/ CloseOld \/ AcloseEnds \/ UNCHANGED vars
  BY <1>1 DEF HandleEvent, CloseOld, AcloseEnds, vars
<1>2. ASSUME NEW k \in Key, Submit(k) PROVE DP!Next
  BY <1>2, SameDebouncer DEF Submit
<1>3. ASSUME NEW r \in D!Request, Run(r) PROVE DP!Next
  BY <1>3, SameDebouncer DEF Run, Wait, Fire, Return
<1>4. ASSUME NEW new \in [Server -> D!Policy], Swap(new) PROVE DP!Next
  BY <1>4, SameDebouncer DEF Swap
<1>5. CASE Aclose \/ AcloseClients
  BY <1>5, SameDebouncer DEF Aclose, AcloseClients
<1> QED
  BY <1>1, <1>2, <1>3, <1>4, <1>5 DEF Next

(* What a debouncer step does to its own state is of the right types. *)
LEMMA DebouncerTyped == DP!IInv => D!TypeOK
BY DEF DP!IInv, DP!TypeOK, D!TypeOK, D!Request, DP!Request, D!Seqno, DP!Seqno, D!Policy, DP!Policy,
       D!Where, DP!Where

(* The invariant holds when the engine starts. *)
LEMMA InitInv == Init => IInv
<1> SUFFICES ASSUME Init PROVE IInv
  OBVIOUS
<1> USE GenAssumption, KeysAssumption
<1>1. DP!IInv
  BY SameDebouncer, DP!InitInv DEF Init
<1>2. servers \in [Server -> D!Policy]
  BY <1>1, DebouncerTyped DEF D!TypeOK
<1>3. TypeOK
  <2>1. 1 \in Gen
    BY DEF Gen
  <2> QED
    BY <1>1, <1>2, <2>1, DebouncerTyped DEF Init, TypeOK, AdaptersOf, NoClients
<1>4. AnsweredIsSent /\ NewRequestsSafe
  BY DEF Init, AnsweredIsSent, NewRequestsSafe
<1>5. AdaptersInForce /\ OldIsShut
  BY DEF Init, AdaptersInForce, OldIsShut, NoClients
<1> QED
  BY <1>1, <1>3, <1>4, <1>5 DEF Init, IInv

(* A request that has been sent stays so, whatever the debouncer does. *)
LEMMA SentStays ==
    ASSUME IInv, [DP!Next]_(DP!vars), NEW r \in D!Request, pc[r] = "sent"
    PROVE  pc'[r] = "sent"
<1> USE DEF D!Request, DP!Request, D!Seqno, DP!Seqno
<1>1. /\ pc \in [DP!Request -> DP!Where] /\ count \in [Key -> 0 .. MaxSubmit]
      /\ DP!Numbered /\ DP!CancelledAsleep
  BY DEF IInv, DP!IInv, DP!TypeOK
<1>2. ASSUME NEW k \in Key, DP!SubmitNow(k) \/ DP!SubmitTrailing(k) PROVE pc'[r] = "sent"
  <2>1. count[k] + 1 \in DP!Seqno /\ pc[<<k, count[k] + 1>>] = "none"
    BY <1>1, <1>2, KeysAssumption DEF DP!SubmitNow, DP!SubmitTrailing, DP!Numbered
  <2> QED
    BY <1>1, <1>2, <2>1 DEF DP!SubmitNow, DP!SubmitTrailing
<1>3. ASSUME NEW t \in DP!Request, DP!Elapse(t) \/ DP!Unwind(t) \/ DP!DispatchReturns(t)
      PROVE  pc'[r] = "sent"
  BY <1>1, <1>3 DEF DP!Elapse, DP!Unwind, DP!DispatchReturns, DP!Asleep
<1>4. ASSUME NEW k \in Key, NEW i \in DP!Seqno, DP!Fire(k, i) PROVE pc'[r] = "sent"
  BY <1>1, <1>4 DEF DP!Fire
<1>5. CASE \/ \E new \in [Server -> DP!Policy] : DP!UpdateServers(new)
           \/ DP!Aclose \/ DP!AcloseReturns \/ UNCHANGED DP!vars
  BY <1>5 DEF DP!UpdateServers, DP!Aclose, DP!AcloseReturns, DP!vars
<1> QED
  BY <1>2, <1>3, <1>4, <1>5 DEF DP!Next, DP!Task

(* A dispatch takes the adapter of the moment, and only once. *)
LEMMA ViaTaken ==
    ASSUME IInv, [Next]_vars, NEW r \in D!Request, via'[r] # via[r]
    PROVE  /\ via'[r] = adapters[ServerOf[r[1]]]
           /\ pc[r] # "sent"
           /\ UNCHANGED <<engine, result, stop>>
<1> USE DEF D!Request, DP!Request, D!Seqno, DP!Seqno
<1>0. /\ pc \in [DP!Request -> DP!Where] /\ count \in [Key -> 0 .. MaxSubmit]
      /\ DP!Numbered /\ via \in [D!Request -> Gen \cup {NoClients}]
  BY DEF IInv, TypeOK, DP!IInv, DP!TypeOK
<1>1. ASSUME NEW k \in Key, Submit(k)
      PROVE  via'[r] = adapters[ServerOf[r[1]]] /\ pc[r] # "sent" /\ UNCHANGED <<engine, result, stop>>
  <2>1. /\ D!SubmitNow(k) /\ via' = [via EXCEPT ![Upcoming(k)] = adapters[ServerOf[k]]]
        /\ UNCHANGED <<engine, result, stop>>
    BY <1>1 DEF Submit
  <2>2. count[k] + 1 \in DP!Seqno /\ pc[<<k, count[k] + 1>>] = "none"
    BY <1>0, <2>1, KeysAssumption DEF D!SubmitNow, DP!Numbered
  <2>3. r = <<k, count[k] + 1>>
    BY <1>0, <2>1 DEF Upcoming
  <2> QED
    BY <1>0, <2>1, <2>2, <2>3 DEF Upcoming
<1>2. ASSUME NEW k \in Key, NEW i \in D!Seqno, Fire(k, i)
      PROVE  via'[r] = adapters[ServerOf[r[1]]] /\ pc[r] # "sent" /\ UNCHANGED <<engine, result, stop>>
  <2>1. r = <<k, i>> /\ via'[r] = adapters[ServerOf[k]] /\ pc[<<k, i>>] = "woken"
    BY <1>0, <1>2 DEF Fire, D!Fire
  <2> QED
    BY <1>2, <2>1 DEF Fire
<1>3. ASSUME NEW t \in D!Request, Wait(t) \/ Return(t) PROVE FALSE
  BY <1>3 DEF Wait, Return, requests
<1>4. CASE \/ \E matched \in SUBSET Key : HandleEvent(matched)
           \/ \E new \in [Server -> D!Policy] : Swap(new)
           \/ CloseOld \/ Aclose \/ AcloseClients \/ AcloseEnds \/ UNCHANGED vars
  BY <1>4 DEF HandleEvent, Swap, CloseOld, Aclose, AcloseClients, AcloseEnds, vars, requests
<1> QED
  BY <1>1, <1>2, <1>3, <1>4 DEF Next, Run

(* Every step of the loop, the tasks, the rebuild and aclose preserves the invariant. *)
LEMMA NextInv == IInv /\ [Next]_vars => IInv'
<1> SUFFICES ASSUME IInv, [Next]_vars PROVE IInv'
  OBVIOUS
<1> USE GenAssumption, KeysAssumption
<1>1. DP!IInv' /\ D!TypeOK'
  <2>1. DP!IInv'
    BY DebouncerStep, DP!NextInv DEF IInv
  <2> QED
    BY <2>1, DebouncerTyped DEF DP!IInv, DP!TypeOK, D!TypeOK, D!Request, DP!Request, D!Seqno, DP!Seqno,
       D!Policy, DP!Policy, D!Where, DP!Where
<1>2. /\ gen \in Nat \ {0} /\ gen \in Gen /\ Gen \subseteq Nat
      /\ \A r \in D!Request : pc[r] = "sent" => pc'[r] = "sent"
      /\ via \in [D!Request -> Gen \cup {NoClients}]
      /\ result \in [D!Request -> {"none", "ok", "failed", "lost"}]
  BY DebouncerStep, SentStays DEF IInv, TypeOK, Gen
<1>3. ASSUME UNCHANGED <<engine, result, stop, servers>>, todo' \subseteq Key,
             via' \in [D!Request -> Gen \cup {NoClients}]
      PROVE  IInv'
  <2>1. \A r \in D!Request : result[r] = "lost" => via'[r] = via[r]
    BY ViaTaken DEF IInv, AnsweredIsSent
  <2>2. TypeOK'
    BY <1>1, <1>3 DEF IInv, TypeOK, engine
  <2>3. AnsweredIsSent' /\ AdaptersInForce' /\ OldIsShut'
    BY <1>2, <1>3 DEF IInv, AnsweredIsSent, AdaptersInForce, OldIsShut, engine
  <2>4. NewRequestsSafe'
    BY <1>2, <1>3, <2>1 DEF IInv, NewRequestsSafe, engine
  <2> QED
    BY <1>1, <1>3, <2>2, <2>3, <2>4 DEF IInv, engine
<1>4. ASSUME NEW matched \in SUBSET Key, HandleEvent(matched) PROVE IInv'
  BY <1>2, <1>3, <1>4 DEF HandleEvent, debouncer
<1>5. ASSUME NEW k \in Key, Submit(k) PROVE IInv'
  <2>1. adapters[ServerOf[k]] \in Gen \cup {NoClients}
    BY DEF IInv, TypeOK
  <2>2. UNCHANGED <<engine, result, stop, servers>> /\ todo' \subseteq Key
    BY <1>5 DEF Submit, D!SubmitNow, D!SubmitTrailing, IInv, TypeOK
  <2>3. via' \in [D!Request -> Gen \cup {NoClients}]
    BY <1>2, <1>5, <2>1 DEF Submit
  <2> QED
    BY <1>3, <2>2, <2>3
<1>6. ASSUME NEW r \in D!Request, Wait(r) PROVE IInv'
  BY <1>2, <1>3, <1>6 DEF Wait, D!Elapse, D!Unwind, requests, IInv, TypeOK
<1>7. ASSUME NEW k \in Key, NEW i \in D!Seqno, Fire(k, i) PROVE IInv'
  <2>1. adapters[ServerOf[k]] \in Gen \cup {NoClients}
    BY DEF IInv, TypeOK
  <2>2. via' \in [D!Request -> Gen \cup {NoClients}]
    BY <1>2, <1>7, <2>1 DEF Fire
  <2> QED
    BY <1>3, <1>7, <2>2 DEF Fire, D!Fire, IInv, TypeOK
<1>8. ASSUME NEW r \in D!Request, Return(r) PROVE IInv'
  <2>a. PICK o \in Outcomes(r) : result' = [result EXCEPT ![r] = o]
    BY <1>8 DEF Return
  <2>b. /\ o \in {"ok", "failed", "lost"} /\ (o = "lost" => via[r] \in shut)
        /\ pc'[r] = "sent" /\ UNCHANGED <<engine, todo, via, stop, servers>>
    BY <1>8, <2>a DEF Return, Outcomes, D!DispatchReturns, IInv, TypeOK, D!TypeOK
  <2>1. TypeOK'
    BY <1>1, <1>2, <2>a, <2>b DEF IInv, TypeOK, engine
  <2>2. AnsweredIsSent' /\ AdaptersInForce' /\ OldIsShut'
    BY <1>2, <2>a, <2>b DEF IInv, AnsweredIsSent, AdaptersInForce, OldIsShut, engine
  <2>3. NewRequestsSafe'
    BY <1>2, <2>a, <2>b DEF IInv, OldIsShut, NewRequestsSafe, engine
  <2> QED
    BY <1>1, <2>b, <2>1, <2>2, <2>3 DEF IInv, engine
<1>9. ASSUME NEW new \in [Server -> D!Policy], Swap(new) PROVE IInv'
  <2>a. /\ config' = new /\ gen' = gen + 1 /\ adapters' = AdaptersOf(new, gen + 1)
        /\ clients' = gen + 1 /\ old' = clients /\ gen + 1 \in Gen
        /\ servers' = new /\ UNCHANGED <<shut, todo, via, result, stop>>
    BY <1>2, <1>9 DEF Swap, D!UpdateServers, requests, Gen
  <2>1. TypeOK'
    <3>1. adapters' \in [Server -> Gen \cup {NoClients}]
      BY <2>a DEF AdaptersOf
    <3> QED
      BY <1>1, <2>a, <3>1 DEF IInv, TypeOK
  <2>2. AnsweredIsSent' /\ AdaptersInForce'
    BY <1>2, <2>a DEF IInv, AnsweredIsSent, AdaptersInForce
  <2>3. shut \subseteq Nat
    BY <1>2 DEF IInv, TypeOK, NoClients
  <2>4. OldIsShut'
    BY <1>2, <2>a, <2>3 DEF IInv, OldIsShut
  <2>5. NewRequestsSafe'
    <3>1. \A r \in D!Request : via[r] \in Nat
      <4>1. Gen \cup {NoClients} \subseteq Nat
        BY <1>2 DEF NoClients
      <4> QED
        BY <1>2, <4>1
    <3>2. \A r \in D!Request : via[r] < gen => via[r] < gen + 1
      BY <1>2, <3>1
    <3> QED
      BY <2>a, <3>1, <3>2 DEF IInv, NewRequestsSafe
  <2> QED
    BY <1>1, <2>a, <2>1, <2>2, <2>4, <2>5 DEF IInv
<1>10. ASSUME CloseOld PROVE IInv'
  <2>a. /\ shut' = shut \cup {old} /\ old' = NoClients
        /\ UNCHANGED <<config, adapters, clients, gen, todo, via, result, stop, servers>>
    BY <1>10 DEF CloseOld, debouncer, requests
  <2>1. TypeOK'
    BY <1>1, <2>a DEF IInv, TypeOK
  <2>2. AnsweredIsSent' /\ AdaptersInForce' /\ NewRequestsSafe'
    BY <1>2, <2>a DEF IInv, AnsweredIsSent, AdaptersInForce, NewRequestsSafe
  <2>3. OldIsShut'
    BY <1>2, <2>a DEF IInv, OldIsShut, NoClients
  <2> QED
    BY <1>1, <2>a, <2>1, <2>2, <2>3 DEF IInv
<1>11. ASSUME Aclose \/ AcloseClients \/ AcloseEnds PROVE IInv'
  <2>a. /\ stop' # "no" /\ stop' \in {"debouncer", "clients", "done"}
        /\ shut' \in {shut, shut \cup {clients}} /\ clients' \in {clients, NoClients}
        /\ UNCHANGED <<config, adapters, gen, old, todo, via, result, servers>>
    BY <1>11 DEF Aclose, AcloseClients, AcloseEnds, D!Aclose, D!AcloseReturns, debouncer, requests, engine
  <2>1. TypeOK'
    BY <1>1, <2>a DEF IInv, TypeOK
  <2>2. AnsweredIsSent' /\ AdaptersInForce' /\ NewRequestsSafe' /\ OldIsShut'
    BY <1>2, <2>a DEF IInv, AnsweredIsSent, AdaptersInForce, NewRequestsSafe, OldIsShut
  <2> QED
    BY <1>1, <2>a, <2>1, <2>2 DEF IInv
<1>12. CASE UNCHANGED vars
  BY <1>2, <1>3, <1>12 DEF vars, requests, debouncer, IInv, TypeOK
<1>13. D!Request = Key \X D!Seqno
  BY DEF D!Request
<1> QED
  BY <1>4, <1>5, <1>6, <1>7, <1>8, <1>9, <1>10, <1>11, <1>12, <1>13 DEF Next, Run

(* The invariant holds in every reachable state. *)
THEOREM Invariance == Spec => []IInv
BY InitInv, NextInv, PTL DEF Spec

(* The state of the loop, the tasks, the rebuild and aclose is always of   *)
(* the declared types, and a generation is never built past its bound.     *)
THEOREM TypeCorrect == Spec => []TypeOK
BY Invariance, PTL DEF IInv

(* A dispatch that began since the last swap never loses its request to    *)
(* the closing of the clients the swap replaced.                           *)
THEOREM NewRequestsAreSafe == Spec => []NewRequestsSafe
BY Invariance, PTL DEF IInv

(* Nothing is sent to a server any more once the swap that removed it has  *)
(* run: neither by its timers nor by an event that was routed before.      *)
THEOREM RemovedStaySilent == Spec => RemovedIsSilent
<1> DEFINE Silent == \A r \in D!Request : via'[r] # via[r] => config[ServerOf[r[1]]] # "gone"
                                                               \/ via'[r] = NoClients
<1>1. ASSUME IInv, [Next]_vars PROVE Silent
  <2> SUFFICES ASSUME NEW r \in D!Request, via'[r] # via[r], config[ServerOf[r[1]]] = "gone"
               PROVE  via'[r] = NoClients
    OBVIOUS
  <2>1. ServerOf[r[1]] \in Server
    BY KeysAssumption DEF D!Request
  <2>2. via'[r] = adapters[ServerOf[r[1]]]
    BY <1>1, ViaTaken
  <2> QED
    BY <1>1, <2>1, <2>2 DEF IInv, AdaptersInForce, AdaptersOf
<1>2. IInv /\ [Next]_vars => [Silent]_vars
  BY <1>1
<1> QED
  BY <1>2, Invariance, PTL DEF Spec, RemovedIsSilent

(* No timer is armed for a server that the configuration in force does not *)
(* have: a swap withdraws what a removed server was still waiting for.     *)
THEOREM RemovedLosesItsTimers == Spec => []RemovedHasNoTimer
<1>1. IInv => RemovedHasNoTimer
  BY DEF IInv, DP!IInv, DP!NoOrphanTimer, RemovedHasNoTimer
<1> QED
  BY <1>1, Invariance, PTL

(* The engine, its rebuilds and its shutdown included, uses the debouncer  *)
(* as DebouncerProofs assumes, so that what is proved there holds here.    *)
THEOREM RunsDebouncer == Spec => DP!Spec
<1>1. Init => DP!Init
  BY SameDebouncer DEF Init
<1> QED
  BY <1>1, DebouncerStep, PTL DEF Spec, DP!Spec

(* The engine coalesces its requests as the abstract coalescer says, also  *)
(* across rebuilds and while it closes.                                    *)
THEOREM PipelineCoalesces == Spec => DP!RefinesCoalescer
BY RunsDebouncer, DP!Refinement, KeysAssumption

(* No later event, rebuild or shutdown cancels a dispatch under way.       *)
THEOREM PipelineKeepsDispatches == Spec => DP!DispatchNotKilled
BY RunsDebouncer, DP!DispatchRunsToItsEnd, KeysAssumption
==============================================================================
