--------------------------- MODULE DebouncerProofs ---------------------------
(***************************************************************************)
(* TLAPS proofs about the debouncer, for every set of servers and keys and *)
(* every bound on the submissions.                                         *)
(***************************************************************************)
EXTENDS Debouncer, TLAPS

(* Exactly the requests up to count have been submitted. *)
Numbered == \A k \in Key, i \in Seqno : (pc[<<k, i>>] = "none") <=> (i > count[k])

(* Only a sleeping task is ever cancelled. *)
CancelledAsleep == \A r \in cancelled : pc[r] \in Asleep \cup {"dropped"}

IInv == /\ TypeOK
        /\ TimersExact
        /\ CarriesNewest
        /\ NoOrphanTimer
        /\ Numbered
        /\ CancelledAsleep

(* A timer in the map is a submitted request, so its task exists. *)
LEMMA ActiveSubmitted ==
    ASSUME IInv, NEW k \in Armed
    PROVE  /\ timers[k] \in Seqno
           /\ Active(k) \in Request
           /\ timers[k] <= count[k]
           /\ pc[Active(k)] \in Asleep
           /\ Active(k) \notin cancelled
BY SubmitAssumption DEF IInv, TypeOK, TimersExact, Numbered, Armed, Active, Asleep, Request, Seqno, None

(* The invariant holds before the first request. *)
LEMMA InitInv == Init => IInv
BY SubmitAssumption DEF Init, IInv, TypeOK, TimersExact, CarriesNewest, NoOrphanTimer, Numbered,
   CancelledAsleep, Armed, Asleep, Request, Seqno, None, Where

(* Every step of the debouncer, its tasks and its callers preserves the invariant. *)
LEMMA NextInv == IInv /\ [Next]_vars => IInv'
<1> SUFFICES ASSUME IInv, [Next]_vars PROVE IInv'
  OBVIOUS
<1> USE SubmitAssumption, KeyAssumption
<1>1. ASSUME NEW k \in Key, SubmitNow(k) PROVE IInv'
  <2> DEFINE n == count[k] + 1
  <2>a. /\ n \in Seqno
        /\ \A j \in Key : count'[j] = IF j = k THEN n ELSE count[j]
        /\ \A j \in Key, i \in Seqno :
             pc'[<<j, i>>] = IF j = k /\ i = n THEN "inline" ELSE pc[<<j, i>>]
        /\ UNCHANGED <<servers, timers, cancelled>>
    BY <1>1 DEF SubmitNow, IInv, TypeOK, Request, Seqno
  <2>b. /\ pc[<<k, n>>] = "none"
        /\ \A j \in Key : count[j] \in 0 .. MaxSubmit /\ timers[j] \in 0 .. MaxSubmit
    BY <2>a DEF IInv, TypeOK, Numbered, Seqno
  <2>1. TypeOK'
    BY <1>1 DEF SubmitNow, IInv, TypeOK, Request, Seqno, None, Where
  <2> HIDE DEF n
  <2>2. TimersExact'
    <3> SUFFICES ASSUME NEW j \in Key, NEW m \in Seqno
                 PROVE  (timers'[j] = m) <=> (pc'[<<j, m>>] \in Asleep /\ <<j, m>> \notin cancelled')
      BY DEF TimersExact
    <3>0. (timers[j] = m) <=> (pc[<<j, m>>] \in Asleep /\ <<j, m>> \notin cancelled)
      BY DEF IInv, TimersExact
    <3> QED
      BY <3>0, <2>a, <2>b DEF Asleep
  <2>3. CarriesNewest'
    <3> SUFFICES ASSUME NEW j \in Armed, NEW i \in Seqno, timers[j] < i, i <= count'[j]
                 PROVE  pc'[<<j, i>>] \in {"inline", "sent"}
      BY <2>a DEF CarriesNewest, Armed
    <3>1. CASE j = k /\ i = n
      BY <3>1, <2>a DEF Armed
    <3>2. CASE ~(j = k /\ i = n)
      <4>1. i <= count[j]
        BY <3>2, <2>a, <2>b DEF n, Seqno, Armed
      <4> QED
        BY <4>1, <3>2, <2>a DEF IInv, CarriesNewest, Armed
    <3> QED
      BY <3>1, <3>2
  <2>4. NoOrphanTimer'
    BY <2>a DEF IInv, NoOrphanTimer, Armed
  <2>5. Numbered'
    <3> SUFFICES ASSUME NEW j \in Key, NEW m \in Seqno
                 PROVE  (pc'[<<j, m>>] = "none") <=> (m > count'[j])
      BY DEF Numbered
    <3>0. (pc[<<j, m>>] = "none") <=> (m > count[j])
      BY DEF IInv, Numbered
    <3> QED
      BY <3>0, <2>a, <2>b DEF Seqno, n
  <2>6. CancelledAsleep'
    BY <1>1, <2>b DEF n, SubmitNow, IInv, TypeOK, CancelledAsleep, Asleep, Numbered, Request, Seqno
  <2> QED
    BY <2>1, <2>2, <2>3, <2>4, <2>5, <2>6 DEF IInv
<1>2. ASSUME NEW k \in Key, SubmitTrailing(k) PROVE IInv'
  <2> DEFINE n == count[k] + 1
  <2>a. /\ n \in Seqno
        /\ \A j \in Key : count'[j] = IF j = k THEN n ELSE count[j]
        /\ \A j \in Key : timers'[j] = IF j = k THEN n ELSE timers[j]
        /\ \A j \in Key, i \in Seqno :
             pc'[<<j, i>>] = IF j = k /\ i = n THEN "asleep" ELSE pc[<<j, i>>]
    BY <1>2 DEF SubmitTrailing, IInv, TypeOK, Request, Seqno
  <2>b. /\ pc[<<k, n>>] = "none" /\ <<k, n>> \notin cancelled
        /\ \A j \in Key : count[j] \in 0 .. MaxSubmit /\ timers[j] \in 0 .. MaxSubmit
    BY <2>a DEF IInv, TypeOK, Numbered, CancelledAsleep, Asleep, Seqno
  <2>c. \A j \in Key, i \in Seqno :
          <<j, i>> \in cancelled' <=> <<j, i>> \in cancelled \/ (j = k /\ i = timers[k])
    BY <1>2 DEF SubmitTrailing, Armed, Active, None, Seqno
  <2>1. TypeOK'
    BY <1>2, ActiveSubmitted DEF SubmitTrailing, IInv, TypeOK, Request, Seqno, Where
  <2>2. TimersExact'
    <3> SUFFICES ASSUME NEW j \in Key, NEW i \in Seqno
                 PROVE  (timers'[j] = i) <=> (pc'[<<j, i>>] \in Asleep /\ <<j, i>> \notin cancelled')
      BY DEF TimersExact
    <3>0. (timers[j] = i) <=> (pc[<<j, i>>] \in Asleep /\ <<j, i>> \notin cancelled)
      BY DEF IInv, TimersExact
    <3> HIDE DEF n
    <3>1. CASE j = k /\ i = n
      BY <3>0, <3>1, <2>a, <2>b, <2>c DEF Asleep
    <3>2. CASE j = k /\ i # n
      BY <3>0, <3>2, <2>a, <2>b, <2>c
    <3>3. CASE j # k
      BY <3>0, <3>3, <2>a, <2>b, <2>c
    <3> QED
      BY <3>1, <3>2, <3>3
  <2>3. CarriesNewest'
    BY <1>2 DEF SubmitTrailing, IInv, TypeOK, CarriesNewest, Numbered, Armed, Request, Seqno, None
  <2>4. NoOrphanTimer'
    BY <1>2 DEF SubmitTrailing, IInv, TypeOK, NoOrphanTimer, Armed, None
  <2>5. Numbered'
    <3> SUFFICES ASSUME NEW j \in Key, NEW m \in Seqno
                 PROVE  (pc'[<<j, m>>] = "none") <=> (m > count'[j])
      BY DEF Numbered
    <3>0. (pc[<<j, m>>] = "none") <=> (m > count[j])
      BY DEF IInv, Numbered
    <3> QED
      BY <3>0, <2>a, <2>b DEF Seqno, n
  <2>6. CancelledAsleep'
    BY <1>2, ActiveSubmitted DEF SubmitTrailing, IInv, TypeOK, CancelledAsleep, Asleep, Numbered, Request, Seqno
  <2> QED
    BY <2>1, <2>2, <2>3, <2>4, <2>5, <2>6 DEF IInv
<1>3. ASSUME NEW new \in [Server -> Policy], UpdateServers(new) PROVE IInv'
  <2> DEFINE orphans == {k \in Armed : new[ServerOf[k]] = "gone"}
  <2>a. /\ \A j \in Key : timers'[j] = IF j \in orphans THEN None ELSE timers[j]
        /\ \A j \in Key, i \in Seqno :
             <<j, i>> \in cancelled' <=> <<j, i>> \in cancelled \/ (j \in orphans /\ i = timers[j])
        /\ UNCHANGED <<count, pc>>
    BY <1>3 DEF UpdateServers, Active, Armed
  <2>1. TypeOK'
    BY <1>3, ActiveSubmitted DEF UpdateServers, IInv, TypeOK, None, Armed
  <2>2. TimersExact'
    <3> SUFFICES ASSUME NEW j \in Key, NEW m \in Seqno
                 PROVE  (timers'[j] = m) <=> (pc'[<<j, m>>] \in Asleep /\ <<j, m>> \notin cancelled')
      BY DEF TimersExact
    <3>0. (timers[j] = m) <=> (pc[<<j, m>>] \in Asleep /\ <<j, m>> \notin cancelled)
      BY DEF IInv, TimersExact
    <3> QED
      BY <3>0, <2>a DEF Armed, None, Seqno
  <2>3. CarriesNewest'
    BY <2>a DEF IInv, CarriesNewest, Armed
  <2>4. NoOrphanTimer'
    BY <1>3, <2>a DEF UpdateServers, NoOrphanTimer, Armed
  <2>5. Numbered'
    BY <2>a DEF IInv, Numbered
  <2>6. CancelledAsleep'
    BY <1>3, ActiveSubmitted DEF UpdateServers, IInv, CancelledAsleep
  <2> QED
    BY <2>1, <2>2, <2>3, <2>4, <2>5, <2>6 DEF IInv
<1>4. ASSUME NEW r \in Request, Elapse(r) PROVE IInv'
  BY <1>4 DEF Elapse, IInv, TypeOK, TimersExact, CarriesNewest, NoOrphanTimer, Numbered,
     CancelledAsleep, Armed, Asleep, Request, Seqno, None, Where
<1>5. ASSUME NEW r \in Request, Unwind(r) PROVE IInv'
  BY <1>5 DEF Unwind, IInv, TypeOK, TimersExact, CarriesNewest, NoOrphanTimer, Numbered,
     CancelledAsleep, Armed, Asleep, Request, Seqno, None, Where
<1>6. ASSUME NEW k \in Key, NEW i \in Seqno, Fire(k, i) PROVE IInv'
  <2>a. timers[k] = i   \* the guard before the dispatch holds
    BY <1>6 DEF Fire, IInv, TimersExact, Asleep
  <2>b. /\ timers' = [timers EXCEPT ![k] = None]
        /\ pc' = [pc EXCEPT ![<<k, i>>] = "dispatching"]
        /\ UNCHANGED <<servers, count, cancelled, phase, awaited>>
    BY <1>6, <2>a DEF Fire
  <2>c. /\ \A j \in Key : timers'[j] = IF j = k THEN None ELSE timers[j]
        /\ \A j \in Key, m \in Seqno :
             pc'[<<j, m>>] = IF j = k /\ m = i THEN "dispatching" ELSE pc[<<j, m>>]
    BY <2>b DEF IInv, TypeOK, Request
  <2>1. TypeOK'
    BY <2>b DEF IInv, TypeOK, Request, Seqno, None, Where
  <2>2. TimersExact'
    <3> SUFFICES ASSUME NEW j \in Key, NEW m \in Seqno
                 PROVE  (timers'[j] = m) <=> (pc'[<<j, m>>] \in Asleep /\ <<j, m>> \notin cancelled')
      BY DEF TimersExact
    <3>0. (timers[j] = m) <=> (pc[<<j, m>>] \in Asleep /\ <<j, m>> \notin cancelled)
      BY DEF IInv, TimersExact
    <3> QED
      BY <3>0, <2>a, <2>b, <2>c DEF Asleep, None, Seqno
  <2>3. CarriesNewest'
    BY <2>b, <2>c DEF IInv, CarriesNewest, Armed
  <2>4. NoOrphanTimer'
    BY <2>b, <2>c DEF IInv, NoOrphanTimer, Armed
  <2>5. Numbered'
    <3> SUFFICES ASSUME NEW j \in Key, NEW m \in Seqno
                 PROVE  (pc'[<<j, m>>] = "none") <=> (m > count'[j])
      BY DEF Numbered
    <3>0. (pc[<<j, m>>] = "none") <=> (m > count[j])
      BY DEF IInv, Numbered
    <3> QED
      BY <3>0, <1>6, <2>b, <2>c DEF Fire
  <2>6. CancelledAsleep'
    BY <1>6, <2>b DEF Fire, IInv, TypeOK, CancelledAsleep, Request
  <2> QED
    BY <2>1, <2>2, <2>3, <2>4, <2>5, <2>6 DEF IInv
<1>7. ASSUME NEW r \in Request, DispatchReturns(r) PROVE IInv'
  BY <1>7 DEF DispatchReturns, IInv, TypeOK, TimersExact, CarriesNewest, NoOrphanTimer, Numbered,
     CancelledAsleep, Armed, Asleep, Request, Seqno, None, Where
<1>8. CASE Aclose
  <2>a. /\ \A j \in Key : timers'[j] = None
        /\ \A j \in Key, i \in Seqno :
             <<j, i>> \in cancelled' <=> <<j, i>> \in cancelled \/ (j \in Armed /\ i = timers[j])
        /\ UNCHANGED <<servers, count, pc>>
    BY <1>8 DEF Aclose, Active, Armed
  <2>1. TypeOK'
    BY <1>8, ActiveSubmitted DEF Aclose, IInv, TypeOK, None
  <2>2. TimersExact'
    <3> SUFFICES ASSUME NEW j \in Key, NEW m \in Seqno
                 PROVE  (timers'[j] = m) <=> (pc'[<<j, m>>] \in Asleep /\ <<j, m>> \notin cancelled')
      BY DEF TimersExact
    <3>0. (timers[j] = m) <=> (pc[<<j, m>>] \in Asleep /\ <<j, m>> \notin cancelled)
      BY DEF IInv, TimersExact
    <3> QED
      BY <3>0, <2>a DEF Armed, None, Seqno
  <2>3. CarriesNewest'
    BY <2>a DEF CarriesNewest, Armed
  <2>4. NoOrphanTimer'
    BY <2>a DEF NoOrphanTimer, Armed
  <2>5. Numbered'
    BY <2>a DEF IInv, Numbered
  <2>6. CancelledAsleep'
    BY <1>8, ActiveSubmitted DEF Aclose, IInv, CancelledAsleep
  <2> QED
    BY <2>1, <2>2, <2>3, <2>4, <2>5, <2>6 DEF IInv
<1>9. CASE AcloseReturns \/ UNCHANGED vars
  BY <1>9 DEF AcloseReturns, vars, IInv, TypeOK, TimersExact, CarriesNewest, NoOrphanTimer, Numbered,
     CancelledAsleep, Armed, Asleep
<1> QED
  BY <1>1, <1>2, <1>3, <1>4, <1>5, <1>6, <1>7, <1>8, <1>9 DEF Next, Task, Request

(* The invariant holds in every reachable state. *)
THEOREM Invariance == Spec => []IInv
<1>1. Init => IInv
  BY InitInv
<1>2. IInv /\ [Next]_vars => IInv'
  BY NextInv
<1> QED
  BY <1>1, <1>2, PTL DEF Spec

(* The state of the debouncer is always of the declared types. *)
THEOREM TypeCorrect == Spec => []TypeOK
BY Invariance, PTL DEF IInv

(* The tasks that can still fire are exactly those in self._timers, so no  *)
(* re-arm, rebuild or close leaves a live timer behind.                    *)
THEOREM TimersAreExact == Spec => []TimersExact
BY Invariance, PTL DEF IInv

(* What a timer will dispatch is the newest request its key received in    *)
(* trailing mode.                                                          *)
THEOREM TimersCarryNewest == Spec => []CarriesNewest
BY Invariance, PTL DEF IInv

(* No timer is armed for a server that is not configured. *)
THEOREM NoTimerOfGoneServer == Spec => []NoOrphanTimer
BY Invariance, PTL DEF IInv

(* A dispatch in flight is never cancelled by submit, update_servers or    *)
(* aclose: only sleeping tasks are ever in the map they cancel from.       *)
THEOREM DispatchRunsToItsEnd == Spec => DispatchNotKilled
<1> DEFINE Kept == \A r \in Request : pc[r] = "dispatching" => pc'[r] \in {"dispatching", "sent"}
<1>1. ASSUME IInv, [Next]_vars PROVE Kept
  <2> SUFFICES ASSUME NEW r \in Request, pc[r] = "dispatching"
               PROVE  pc'[r] \in {"dispatching", "sent"}
    OBVIOUS
  <2>1. r \notin cancelled /\ pc \in [Request -> Where]
    BY <1>1 DEF IInv, TypeOK, CancelledAsleep, Asleep
  <2>2. ASSUME NEW k \in Key, SubmitNow(k) \/ SubmitTrailing(k) PROVE pc'[r] = "dispatching"
    <3>1. <<k, count[k] + 1>> \in Request /\ pc[<<k, count[k] + 1>>] = "none"
      BY <1>1, <2>2, SubmitAssumption DEF SubmitNow, SubmitTrailing, IInv, TypeOK, Numbered, Request, Seqno
    <3> QED
      BY <2>1, <2>2, <3>1 DEF SubmitNow, SubmitTrailing
  <2>3. ASSUME NEW t \in Request, Elapse(t) \/ Unwind(t) \/ DispatchReturns(t)
        PROVE  pc'[r] \in {"dispatching", "sent"}
    BY <2>1, <2>3 DEF Elapse, Unwind, DispatchReturns
  <2>4. ASSUME NEW k \in Key, NEW i \in Seqno, Fire(k, i) PROVE pc'[r] \in {"dispatching", "sent"}
    BY <2>1, <2>4 DEF Fire, Request
  <2>5. CASE \/ \E new \in [Server -> Policy] : UpdateServers(new)
             \/ Aclose \/ AcloseReturns \/ UNCHANGED vars
    BY <2>5 DEF UpdateServers, Aclose, AcloseReturns, vars
  <2> QED
    BY <1>1, <2>2, <2>3, <2>4, <2>5 DEF Next, Task, Request
<1>2. IInv /\ [Next]_vars => [Kept]_vars
  BY <1>1
<1> QED
  BY <1>2, Invariance, PTL DEF Spec, DispatchNotKilled

(* The debouncer implements the coalescer: a request enters dispatch only  *)
(* as its key's newest, at most once, and disappears undispatched only     *)
(* when it is replaced or everything of its server is discarded.           *)
THEOREM Refinement == Spec => RefinesCoalescer
<1> USE SubmitAssumption, KeyAssumption
<1>1. Init => Abs!AInit
  BY DEF Init, Abs!AInit, Entered, None, Abs!None, Request
<1>2. ASSUME IInv, [Next]_vars PROVE [Abs!ANext]_(Abs!avars)
  <2> SUFFICES Abs!ANext \/ UNCHANGED <<count, timers, Entered>>
    BY DEF Abs!avars
  <2>0. pc \in [Request -> Where]
    BY <1>2 DEF IInv, TypeOK
  <2>1. ASSUME NEW k \in Key, SubmitNow(k) PROVE Abs!ANext
    <3>1. <<k, count[k] + 1>> \in Request
      BY <1>2, <2>1 DEF SubmitNow, IInv, TypeOK, Request, Seqno
    <3>2. Entered' = Entered \cup {<<k, count[k] + 1>>}
      BY <2>0, <2>1, <3>1 DEF SubmitNow, Entered
    <3>3. Abs!SendAtOnce(k)
      BY <2>1, <3>2 DEF SubmitNow, Abs!SendAtOnce
    <3> QED
      BY <3>3 DEF Abs!ANext
  <2>2. ASSUME NEW k \in Key, SubmitTrailing(k) PROVE Abs!ANext
    <3>1. <<k, count[k] + 1>> \in Request /\ pc[<<k, count[k] + 1>>] = "none"
      BY <1>2, <2>2 DEF SubmitTrailing, IInv, TypeOK, Numbered, Request, Seqno
    <3>2. Entered' = Entered
      BY <2>0, <2>2, <3>1 DEF SubmitTrailing, Entered
    <3>3. Abs!Hold(k)
      BY <2>2, <3>2 DEF SubmitTrailing, Abs!Hold
    <3> QED
      BY <3>3 DEF Abs!ANext
  <2>3. ASSUME NEW new \in [Server -> Policy], UpdateServers(new) PROVE Abs!ANext
    <3> DEFINE gone == {s \in Server : new[s] = "gone"}
    <3>1. Abs!DiscardServers(gone)
      BY <1>2, <2>3 DEF UpdateServers, Abs!DiscardServers, Abs!None, None, Entered, Armed, IInv, TypeOK
    <3>2. gone \in SUBSET Server
      OBVIOUS
    <3> QED
      BY <3>1, <3>2 DEF Abs!ANext
  <2>4. ASSUME NEW r \in Request, Elapse(r) \/ Unwind(r) \/ DispatchReturns(r)
        PROVE  UNCHANGED <<count, timers, Entered>>
    <3>1. Entered' = Entered
      BY <1>2, <2>0, <2>4 DEF Elapse, Unwind, DispatchReturns, Entered, IInv, CancelledAsleep, Asleep
    <3> QED
      BY <2>4, <3>1 DEF Elapse, Unwind, DispatchReturns
  <2>5. ASSUME NEW k \in Key, NEW i \in Seqno, Fire(k, i) PROVE Abs!ANext
    <3>1. timers[k] = i /\ <<k, i>> \in Request
      BY <1>2, <2>5 DEF Fire, IInv, TimersExact, Asleep, Request
    <3>2. Entered' = Entered \cup {<<k, i>>}
      BY <2>0, <2>5, <3>1 DEF Fire, Entered
    <3>3. Abs!SendHeld(k)
      BY <2>5, <3>1, <3>2 DEF Fire, Abs!SendHeld, Abs!None, None, Seqno
    <3> QED
      BY <3>3 DEF Abs!ANext
  <2>6. CASE Aclose
    <3>1. Abs!DiscardServers(Server)
      BY <2>6 DEF Aclose, Abs!DiscardServers, Abs!None, None, Entered
    <3> QED
      BY <3>1 DEF Abs!ANext
  <2>7. CASE AcloseReturns \/ UNCHANGED vars
    BY <2>7 DEF AcloseReturns, vars, Entered
  <2> QED
    BY <1>2, <2>1, <2>2, <2>3, <2>4, <2>5, <2>6, <2>7 DEF Next, Task, Request
<1> QED
  BY <1>1, <1>2, Invariance, PTL DEF Spec, RefinesCoalescer, Abs!ASpec
==============================================================================
