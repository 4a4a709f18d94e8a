----------------------------- MODULE RouterProofs -----------------------------
(***************************************************************************)
(* TLAPS proofs about the routing of one event, for any number of servers  *)
(* and folders, any rows and any paths.                                    *)
(***************************************************************************)
EXTENDS Router, FiniteSetTheorems, SequenceTheorems, TLAPS

(* The invariant *)

RowsOk == /\ servers \in [1 .. NServers -> ServerRow]
          /\ \E n \in Nat : folders \in [1 .. n -> FolderRow]

(* How the routes are the enabled folders in some order *)
Lists(order) == /\ \A i, j \in 1 .. Len(routes) : order[i] = order[j] => i = j
                /\ \A k \in Enabled : \E i \in 1 .. Len(routes) : order[i] = k
                /\ \A i \in 1 .. Len(routes) : routes[i] = Route(folders[order[i]])

RoutesOk == routes # None => /\ routes \in Seq({Route(folders[k]) : k \in Enabled})
                             /\ \E order \in [1 .. Len(routes) -> Enabled] : Lists(order)
                             /\ watched = {r.path : r \in ToSet(routes)}

EventOk == event # None => event.path \in EventPath /\ routes # None

(* The routes looked at so far that match *)
Matching == {i \in 1 .. Len(routes) : i < next /\ ~Ignored(event.path) /\ Matches(routes[i], event)}

(* What has been collected: one request for each of them *)
Collected(from) == /\ \A i, j \in 1 .. Len(requests) : from[i] = from[j] => i = j
                   /\ \A m \in Matching : \E i \in 1 .. Len(requests) : from[i] = m
                   /\ \A i \in 1 .. Len(requests) : requests[i] = ScanRequest(routes[from[i]], event)

RequestsOk == /\ next \in Nat \ {0}
              /\ event = None => requests = <<>>
              /\ event # None => /\ requests \in Seq({ScanRequest(r, event) : r \in ToSet(routes)})
                                 /\ \E from \in [1 .. Len(requests) -> Matching] : Collected(from)
                                 /\ Ignored(event.path) => next > Len(routes)

IInv == RowsOk /\ RoutesOk /\ EventOk /\ RequestsOk

----------------------------------------------------------------------------
(* Lemmas *)

(* A function onto a set that repeats nothing has as many arguments. *)
LEMMA SameSize ==
    ASSUME NEW A, NEW B, IsFiniteSet(A), NEW f \in [A -> B],
           \A x, y \in A : f[x] = f[y] => x = y,
           \A z \in B : \E x \in A : f[x] = z
    PROVE  IsFiniteSet(B) /\ Cardinality(B) = Cardinality(A)
<1>1. f \in Bijection(A, B)
  BY DEF Bijection, Injection, Surjection, IsInjective
<1>2. ExistsBijection(A, B)
  BY <1>1 DEF ExistsBijection
<1> QED
  BY <1>2, FS_Bijection

(* There are finitely many folders. *)
LEMMA FoldersFinite ==
    ASSUME RowsOk
    PROVE  /\ IsFiniteSet(DOMAIN folders) /\ DOMAIN folders \subseteq Nat
           /\ Enabled \subseteq DOMAIN folders /\ IsFiniteSet(Enabled)
           /\ \A k \in DOMAIN folders : folders[k] \in FolderRow
<1>1. PICK n \in Nat : folders \in [1 .. n -> FolderRow]
  BY DEF RowsOk
<1>2. IsFiniteSet(DOMAIN folders)
  BY <1>1, FS_Interval
<1>3. Enabled \subseteq DOMAIN folders
  BY DEF Enabled
<1>4. IsFiniteSet(Enabled)
  BY <1>2, <1>3, FS_Subset
<1> QED
  BY <1>1, <1>2, <1>3, <1>4

(* The paths of the routes are those of folders. *)
LEMMA RoutePath ==
    ASSUME RowsOk, NEW k \in Enabled
    PROVE  /\ Route(folders[k]).path = folders[k].path /\ folders[k].path \in Seq(Segment)
           /\ Route(folders[k]).server = folders[k].server
           /\ Route(folders[k]).library = folders[k].library
           /\ Route(folders[k]).mode = servers[folders[k].server].mode
           /\ Route(folders[k]).exts = folders[k].exts
           /\ Route(folders[k]).types = servers[folders[k].server].types
BY FoldersFinite, PathAssumption DEF Route

(* A prefix of whole segments, by its segments *)
LEMMA PrefixIs ==
    ASSUME NEW p \in Seq(Segment), NEW q \in Seq(Segment)
    PROVE  /\ IsPrefix(p, q) <=> Len(p) <= Len(q) /\ \A i \in 1 .. Len(p) : p[i] = q[i]
           /\ IsPrefix(p, q) <=> \E k \in 0 .. Len(q) : SubSeq(q, 1, k) = p
<1>1. Len(p) \in Nat /\ Len(q) \in Nat /\ SubSeq(p, 1, Len(p)) = p
  BY LenProperties, SubSeqFull
<1>2. ASSUME NEW k \in 0 .. Len(q)
      PROVE  /\ SubSeq(q, 1, k) \in Seq(Segment) /\ Len(SubSeq(q, 1, k)) = k
             /\ \A i \in 1 .. k : SubSeq(q, 1, k)[i] = q[i]
  <2>1. \A i \in 1 .. k : q[i] \in Segment
    BY <1>1, ElementOfSeq
  <2> QED
    BY <1>1, <2>1, SubSeqProperties
<1>3. IsPrefix(p, q) => Len(p) <= Len(q) /\ \A i \in 1 .. Len(p) : p[i] = q[i]
  <2> SUFFICES ASSUME IsPrefix(p, q) PROVE Len(p) <= Len(q) /\ \A i \in 1 .. Len(p) : p[i] = q[i]
    OBVIOUS
  <2>1. Len(p) <= Len(q) /\ p = SubSeq(q, 1, Len(p))
    BY <1>1 DEF IsPrefix
  <2>2. \A i \in 1 .. Len(p) : SubSeq(q, 1, Len(p))[i] = q[i]
    BY <1>1, <1>2, <2>1
  <2> QED
    BY <2>1, <2>2
<1>4. Len(p) <= Len(q) /\ (\A i \in 1 .. Len(p) : p[i] = q[i]) => IsPrefix(p, q)
  <2> SUFFICES ASSUME Len(p) <= Len(q), \A i \in 1 .. Len(p) : p[i] = q[i] PROVE IsPrefix(p, q)
    OBVIOUS
  <2> DEFINE r == SubSeq(q, 1, Len(p))
  <2>1. r \in Seq(Segment) /\ Len(r) = Len(p) /\ \A i \in 1 .. Len(p) : r[i] = p[i]
    BY <1>1, <1>2
  <2> HIDE DEF r
  <2>2. r = p
    BY <1>1, <2>1, SeqEqual
  <2> QED
    BY <1>1, <2>2 DEF IsPrefix, r
<1>5. IsPrefix(p, q) => \E k \in 0 .. Len(q) : SubSeq(q, 1, k) = p
  <2> SUFFICES ASSUME IsPrefix(p, q) PROVE SubSeq(q, 1, Len(p)) = p /\ Len(p) \in 0 .. Len(q)
    BY Zenon
  <2> QED
    BY <1>1 DEF IsPrefix
<1>6. ASSUME NEW k \in 0 .. Len(q), SubSeq(q, 1, k) = p PROVE IsPrefix(p, q)
  BY <1>1, <1>2, <1>4, <1>6
<1> QED
  BY <1>3, <1>4, <1>5, <1>6

----------------------------------------------------------------------------
(* The invariant is inductive *)

(* No configuration has been built and no event routed at first. *)
LEMMA InitInv == Init => IInv
<1> SUFFICES ASSUME Init PROVE IInv
  OBVIOUS
<1>1. PICK n \in 0 .. MaxFolders : folders \in [1 .. n -> FolderRow]
  BY DEF Init
<1>2. RowsOk
  BY <1>1, NumberAssumption DEF Init, RowsOk
<1> QED
  BY <1>2 DEF Init, IInv, RoutesOk, EventOk, RequestsOk

(* The routes are read off the enabled folders, each once. *)
LEMMA BuildInv == ASSUME IInv, BuildRuntimeConfig PROVE IInv'
<1>1. /\ routes = None /\ event = None /\ UNCHANGED <<servers, folders, event, next, requests>>
      /\ watched' = {r.path : r \in ToSet(routes')}
  BY DEF BuildRuntimeConfig, IInv, EventOk
<1>2. PICK order \in SetToSeqs(Enabled) : routes' = [i \in DOMAIN order |-> Route(folders[order[i]])]
  BY DEF BuildRuntimeConfig
<1> DEFINE n == Cardinality(Enabled)
<1>3. n \in Nat /\ IsFiniteSet(Enabled)
  BY FoldersFinite, FS_CardinalityType DEF IInv
<1>4. order \in [1 .. n -> Enabled] /\ \A i, j \in 1 .. n : order[i] = order[j] => i = j
  BY <1>2 DEF SetToSeqs
<1>5. \A k \in Enabled : \E i \in 1 .. n : order[i] = k
  <2>1. order \in Injection(1 .. n, Enabled)
    BY <1>4 DEF Injection, IsInjective
  <2>2. IsFiniteSet(1 .. n) /\ Cardinality(1 .. n) = n
    BY <1>3, FS_Interval
  <2>3. order \in Surjection(1 .. n, Enabled)
    BY <1>3, <2>1, <2>2, FS_Injection
  <2> QED
    BY <2>3 DEF Surjection
<1> HIDE DEF n
<1>6. routes' \in [1 .. n -> {Route(folders[k]) : k \in Enabled}]
  BY <1>2, <1>4
<1>7. routes' \in Seq({Route(folders[k]) : k \in Enabled})
  BY <1>3, <1>6, SeqDef
<1>8. Len(routes') = n
  <2>1. DOMAIN routes' = 1 .. n
    BY <1>6
  <2>2. DOMAIN routes' = 1 .. Len(routes') /\ Len(routes') \in Nat
    BY <1>7, LenProperties
  <2> QED
    BY <1>3, <2>1, <2>2
<1>9. Lists(order)' /\ order \in [1 .. Len(routes') -> Enabled]
  BY <1>1, <1>2, <1>4, <1>5, <1>8 DEF Lists, Enabled, Route
<1>10. Enabled' = Enabled /\ \A k \in Enabled : (Route(folders[k]))' = Route(folders[k])
  BY <1>1 DEF Enabled, Route
<1>11. RoutesOk'
  BY <1>1, <1>7, <1>9, <1>10 DEF RoutesOk
<1>12. RowsOk' /\ EventOk' /\ RequestsOk'
  BY <1>1 DEF IInv, RowsOk, EventOk, RequestsOk
<1> QED
  BY <1>11, <1>12 DEF IInv

(* What does not touch the configuration leaves it well-formed. *)
LEMMA SameConfig ==
    ASSUME IInv, UNCHANGED <<servers, folders, config>>
    PROVE  RowsOk' /\ RoutesOk'
<1>1. servers' = servers /\ folders' = folders /\ routes' = routes /\ watched' = watched
  BY DEF config
<1>2. Enabled' = Enabled /\ \A k : (Route(folders[k]))' = Route(folders[k])
  BY <1>1 DEF Enabled, Route
<1>3. RowsOk'
  BY <1>1 DEF IInv, RowsOk
<1>4. ASSUME routes # None PROVE routes' \in Seq({Route(folders[k]) : k \in Enabled})'
  <2>1. {Route(folders[k]) : k \in Enabled}' = {Route(folders[k]) : k \in Enabled}
    BY <1>2
  <2> QED
    BY <1>1, <1>4, <2>1 DEF IInv, RoutesOk
<1>5. ASSUME routes # None PROVE \E order \in [1 .. Len(routes') -> Enabled'] : Lists(order)'
  <2>1. PICK order \in [1 .. Len(routes) -> Enabled] : Lists(order)
    BY <1>5 DEF IInv, RoutesOk
  <2>2. Lists(order)'
    BY <1>1, <1>2, <2>1 DEF Lists
  <2> QED
    BY <1>1, <1>2, <2>1, <2>2
<1> QED
  BY <1>1, <1>3, <1>4, <1>5 DEF IInv, RoutesOk

(* An event begins with nothing looked at, or at the end if it is ignored. *)
LEMMA ObserveInv ==
    ASSUME IInv, NEW path \in EventPath, NEW type \in EventType, Observe(path, type)
    PROVE  IInv'
<1>1. /\ routes # None /\ event = None /\ UNCHANGED <<servers, folders, config, requests>>
      /\ event' = [path |-> path, type |-> type] /\ requests = <<>> /\ routes' = routes
      /\ next' = IF Ignored(path) THEN Len(routes) + 1 ELSE 1
  BY DEF Observe, IInv, RequestsOk, config
<1>2. RowsOk' /\ RoutesOk'
  BY <1>1, SameConfig
<1>3. Len(routes) \in Nat
  BY <1>1, LenProperties DEF IInv, RoutesOk
<1>4. EventOk'
  BY <1>1 DEF EventOk
<1>5. Matching' = {}
  BY <1>1, <1>3 DEF Matching, Ignored
<1>6. Len(requests') = 0 /\ \A S : requests' \in Seq(S)
  BY <1>1, EmptySeq
<1>7. \E from \in [1 .. Len(requests') -> Matching'] : Collected(from)'
  <2> DEFINE from == [i \in {} |-> 0]
  <2>1. 1 .. Len(requests') = {}
    BY <1>6
  <2>2. from \in [1 .. Len(requests') -> Matching']
    BY <2>1
  <2>3. Collected(from)'
    BY <1>5, <2>1 DEF Collected
  <2> QED
    BY <2>2, <2>3
<1>8. next' \in Nat \ {0} /\ (Ignored(event.path)' => next' > Len(routes'))
  BY <1>1, <1>3 DEF Ignored
<1>9. RequestsOk'
  BY <1>1, <1>6, <1>7, <1>8 DEF RequestsOk
<1> QED
  BY <1>2, <1>4, <1>9 DEF IInv

(* A route that matches adds its request. *)
LEMMA TakeInv == ASSUME IInv, Take PROVE IInv'
<1>1. /\ event # None /\ next <= Len(routes) /\ Matches(routes[next], event)
      /\ requests' = Append(requests, ScanRequest(routes[next], event)) /\ next' = next + 1
      /\ UNCHANGED <<servers, folders, config, event>> /\ routes' = routes /\ event' = event
  BY DEF Take, Routing, config
<1>2. routes # None /\ RowsOk' /\ RoutesOk' /\ EventOk'
  BY <1>1, SameConfig DEF IInv, EventOk
<1> DEFINE Asked == {ScanRequest(r, event) : r \in ToSet(routes)}
           m == Len(requests)
<1>3. /\ requests \in Seq(Asked) /\ m \in Nat /\ Len(routes) \in Nat /\ DOMAIN routes = 1 .. Len(routes)
      /\ next \in Nat \ {0}
  <2>1. requests \in Seq(Asked) /\ routes \in Seq({Route(folders[k]) : k \in Enabled}) /\ next \in Nat \ {0}
    BY <1>1, <1>2 DEF IInv, RequestsOk, RoutesOk
  <2> QED
    BY <2>1, LenProperties
<1>4. PICK from \in [1 .. m -> Matching] : Collected(from)
  BY <1>1 DEF IInv, RequestsOk
<1>5. ~Ignored(event.path)
  BY <1>1, <1>3 DEF IInv, RequestsOk
<1>6. next \in 1 .. Len(routes) /\ routes[next] \in ToSet(routes)
  BY <1>1, <1>3 DEF ToSet
<1>7. ScanRequest(routes[next], event) \in Asked
  BY <1>6
<1>8. Matching' = Matching \cup {next} /\ next \notin Matching
  <2>1. Matching' = {i \in 1 .. Len(routes) : i < next + 1 /\ ~Ignored(event.path) /\ Matches(routes[i], event)}
    BY <1>1 DEF Matching
  <2> QED
    BY <1>1, <1>3, <1>5, <1>6, <2>1 DEF Matching
<1> HIDE DEF Asked
<1>9. /\ requests' \in Seq(Asked) /\ Len(requests') = m + 1
      /\ \A i \in 1 .. m : requests'[i] = requests[i]
      /\ requests'[m + 1] = ScanRequest(routes[next], event)
  BY <1>1, <1>3, <1>7, AppendProperties
<1>10. \A i \in 1 .. m + 1 : i \in 1 .. m \/ i = m + 1
  BY <1>3
<1>11. PICK new \in [1 .. m + 1 -> Matching'] : new = [i \in 1 .. m + 1 |-> IF i = m + 1 THEN next ELSE from[i]]
  BY <1>4, <1>8, <1>10
<1>12. Collected(new)'
  <2>1. \A i \in 1 .. m : new[i] = from[i] /\ from[i] \in Matching
    BY <1>3, <1>4, <1>11
  <2>2. new[m + 1] = next
    BY <1>3, <1>11
  <2> HIDE DEF m
  <2>3. \A i, j \in 1 .. m + 1 : new[i] = new[j] => i = j
    BY <1>4, <1>8, <1>10, <2>1, <2>2 DEF Collected, m
  <2>4. \A x \in Matching' : \E i \in 1 .. m + 1 : new[i] = x
    <3> SUFFICES ASSUME NEW x \in Matching' PROVE \E i \in 1 .. m + 1 : new[i] = x
      OBVIOUS
    <3>1. CASE x = next
      BY <1>3, <2>2, <3>1
    <3>2. CASE x \in Matching
      <4>1. PICK i \in 1 .. m : from[i] = x
        BY <1>4, <3>2 DEF Collected, m
      <4> QED
        BY <1>3, <2>1, <4>1
    <3> QED
      BY <1>8, <3>1, <3>2
  <2>5. \A i \in 1 .. m + 1 : requests'[i] = ScanRequest(routes[new[i]], event)
    BY <1>4, <1>9, <1>10, <2>1, <2>2 DEF Collected, m
  <2>6. \A i \in 1 .. m + 1 : requests'[i] = ScanRequest(routes[new[i]], event)'
    BY <1>1, <2>5 DEF ScanRequest
  <2> QED
    BY <1>1, <1>9, <2>3, <2>4, <2>6 DEF Collected
<1>13. {ScanRequest(r, event) : r \in ToSet(routes)}' = Asked
  BY <1>1 DEF Asked, ScanRequest
<1>14. RequestsOk'
  <2>1. next' \in Nat \ {0} /\ event' # None /\ ~Ignored(event.path)'
    BY <1>1, <1>3, <1>5 DEF Ignored
  <2>2. \E f \in [1 .. Len(requests') -> Matching'] : Collected(f)'
    BY <1>9, <1>11, <1>12
  <2>3. requests' \in Seq({ScanRequest(r, event) : r \in ToSet(routes)}')
    BY <1>9, <1>13
  <2> QED
    BY <2>1, <2>2, <2>3 DEF RequestsOk
<1> QED
  BY <1>2, <1>14 DEF IInv

(* A route that does not match adds nothing. *)
LEMMA SkipInv == ASSUME IInv, Skip PROVE IInv'
<1>1. /\ event # None /\ next <= Len(routes) /\ ~Matches(routes[next], event)
      /\ requests' = requests /\ next' = next + 1
      /\ UNCHANGED <<servers, folders, config, event>> /\ routes' = routes /\ event' = event
  BY DEF Skip, Routing, config
<1>2. routes # None /\ RowsOk' /\ RoutesOk' /\ EventOk'
  BY <1>1, SameConfig DEF IInv, EventOk
<1>3. Len(routes) \in Nat /\ next \in Nat \ {0}
  BY <1>2, LenProperties DEF IInv, RequestsOk, RoutesOk
<1>4. Matching' = Matching
  <2>1. Matching' = {i \in 1 .. Len(routes) : i < next + 1 /\ ~Ignored(event.path) /\ Matches(routes[i], event)}
    BY <1>1 DEF Matching
  <2> QED
    BY <1>1, <1>3, <2>1 DEF Matching
<1>5. \A from : Collected(from)' <=> Collected(from)
  <2>1. \A i, from : (ScanRequest(routes[from[i]], event))' = ScanRequest(routes[from[i]], event)
    BY <1>1 DEF ScanRequest
  <2> QED
    BY <1>1, <1>4, <2>1 DEF Collected
<1>6. {ScanRequest(r, event) : r \in ToSet(routes)}' = {ScanRequest(r, event) : r \in ToSet(routes)}
  BY <1>1 DEF ScanRequest
<1>7. ~Ignored(event.path) /\ ~Ignored(event.path)'
  BY <1>1, <1>3 DEF IInv, RequestsOk, Ignored
<1>8. RequestsOk'
  BY <1>1, <1>3, <1>4, <1>5, <1>6, <1>7 DEF IInv, RequestsOk
<1> QED
  BY <1>2, <1>8 DEF IInv

(* Every step preserves the invariant. *)
LEMMA NextInv == IInv /\ [Next]_vars => IInv'
<1> SUFFICES ASSUME IInv, [Next]_vars PROVE IInv'
  OBVIOUS
<1>1. CASE UNCHANGED vars
  <2>1. UNCHANGED <<servers, folders, config>> /\ routes' = routes /\ event' = event /\ next' = next
        /\ requests' = requests
    BY <1>1 DEF vars, config
  <2>2. RowsOk' /\ RoutesOk' /\ EventOk'
    BY <2>1, SameConfig DEF IInv, EventOk
  <2>3. RequestsOk'
    BY <2>1 DEF IInv, RequestsOk, Collected, Matching
  <2> QED
    BY <2>2, <2>3 DEF IInv
<1> QED
  BY <1>1, BuildInv, ObserveInv, TakeInv, SkipInv DEF Next

(* The invariant holds in every reachable state. *)
THEOREM Invariance == Spec => []IInv
BY InitInv, NextInv, PTL DEF Spec

----------------------------------------------------------------------------
(* One request per folder that wants the event *)

(* A suffix filter, by the last segment's stem and extension *)
LEMMA ExtensionIs ==
    ASSUME NEW path \in Seq(Segment), NEW exts
    PROVE  ExtensionMatches(path, exts) <=>
             (exts # {} =>
                \E e \in DOMAIN Lower, s \in {n.stem : n \in ToSet(path)} \ {""} :
                    path[Len(path)] = [stem |-> s, ext |-> e] /\ Lower[e] \in exts)
<1> DEFINE last == path[Len(path)]
           Has(e, s) == last = [stem |-> s, ext |-> e] /\ Lower[e] \in exts
           Stems == {n.stem : n \in ToSet(path)} \ {""}
<1>1. Len(path) \in Nat /\ DOMAIN path = 1 .. Len(path) /\ (path # <<>> <=> Len(path) > 0)
  BY LenProperties, EmptySeq
<1>2. CASE path = <<>>
  <2>1. Stems = {}
    BY <1>1, <1>2 DEF ToSet
  <2> QED
    BY <1>2, <2>1 DEF ExtensionMatches
<1>3. CASE path # <<>>
  <2>1. last \in Segment /\ last \in ToSet(path)
    BY <1>1, <1>3, ElementOfSeq DEF ToSet
  <2> HIDE DEF last
  <2>2. last = [stem |-> last.stem, ext |-> last.ext] /\ last.ext \in DOMAIN Lower \cup {NoDot}
    BY <2>1 DEF Segment
  <2>3. ASSUME last.ext # NoDot, last.stem # "", Lower[last.ext] \in exts
        PROVE  \E e \in DOMAIN Lower, s \in Stems : Has(e, s)
    <3>1. last.ext \in DOMAIN Lower /\ last.stem \in Stems /\ Has(last.ext, last.stem)
      BY <2>1, <2>2, <2>3
    <3> QED
      BY <3>1
  <2>4. ASSUME NEW e \in DOMAIN Lower, NEW s \in Stems, Has(e, s)
        PROVE  last.ext # NoDot /\ last.stem # "" /\ Lower[last.ext] \in exts
    <3>1. last.ext = e /\ last.stem = s /\ s # ""
      BY <2>4
    <3> QED
      BY <2>4, <3>1, NoneAssumption
  <2>5. ExtensionMatches(path, exts) <=>
          exts = {} \/ (last.ext # NoDot /\ last.stem # "" /\ Lower[last.ext] \in exts)
    BY <1>3 DEF ExtensionMatches, Last, last
  <2>6. ExtensionMatches(path, exts) <=> (exts # {} => \E e \in DOMAIN Lower, s \in Stems : Has(e, s))
    BY <2>3, <2>4, <2>5
  <2> QED
    BY <2>6 DEF last
<1> QED
  BY <1>2, <1>3

(* A folder wants an event exactly if it has a route and the route matches. *)
LEMMA WantsIs ==
    ASSUME IInv, event # None, NEW k \in DOMAIN folders
    PROVE  Wants(folders[k]) <=> k \in Enabled /\ ~Ignored(event.path) /\ Matches(Route(folders[k]), event)
<1> DEFINE f == folders[k]
           Extension == f.exts # {} =>
                          \E e \in DOMAIN Lower, s \in {n.stem : n \in ToSet(event.path)} \ {""} :
                              event.path[Len(event.path)] = [stem |-> s, ext |-> e] /\ Lower[e] \in f.exts
<1>1. event.path \in Seq(Segment)
  BY PathAssumption DEF IInv, EventOk
<1>2. f.path \in Seq(Segment)
  BY FoldersFinite, PathAssumption DEF IInv
<1>3. IsPathPrefix(f.path, event.path) <=> \E n \in 0 .. Len(event.path) : SubSeq(event.path, 1, n) = f.path
  BY <1>1, <1>2, PrefixIs DEF IsPathPrefix
<1>4. ExtensionMatches(event.path, f.exts) <=> Extension
  BY <1>1, ExtensionIs
<1>5. ~Ignored(event.path) <=> \A n \in DOMAIN event.path : event.path[n] \notin IgnoreDirs
  BY DEF Ignored, ToSet
<1>6. k \in Enabled <=> f.enabled /\ servers[f.server].enabled
  BY DEF Enabled
<1>7. Matches(Route(f), event) <=> /\ IsPathPrefix(f.path, event.path)
                                   /\ ExtensionMatches(event.path, f.exts)
                                   /\ event.type \in servers[f.server].types
  BY DEF Matches, Route, Subscribed
<1>8. Wants(f) <=> /\ f.enabled /\ servers[f.server].enabled
                   /\ event.type \in servers[f.server].types
                   /\ \E n \in 0 .. Len(event.path) : SubSeq(event.path, 1, n) = f.path
                   /\ \A n \in DOMAIN event.path : event.path[n] \notin IgnoreDirs
                   /\ Extension
  BY DEF Wants
<1> HIDE DEF Extension, f
<1>9. Wants(f) <=> k \in Enabled /\ ~Ignored(event.path) /\ Matches(Route(f), event)
  BY <1>3, <1>4, <1>5, <1>6, <1>7, <1>8
<1> QED
  BY <1>9 DEF f

(* When all routes have been looked at, the requests are those of the      *)
(* folders that want the event, each once.                                 *)
LEMMA RequestOfEach ==
    ASSUME IInv, Routed
    PROVE  \E of \in [1 .. Len(requests) -> {k \in DOMAIN folders : Wants(folders[k])}] :
              /\ \A i, j \in 1 .. Len(requests) : of[i] = of[j] => i = j
              /\ \A k \in DOMAIN folders : Wants(folders[k]) => \E i \in 1 .. Len(requests) : of[i] = k
              /\ \A i \in 1 .. Len(requests) : requests[i] = ScanRequest(Route(folders[of[i]]), event)
<1> DEFINE wanting == {k \in DOMAIN folders : Wants(folders[k])}
           m == Len(requests)
           n == Len(routes)
<1>1. event # None /\ next > n /\ routes # None /\ Enabled \subseteq DOMAIN folders
  BY FoldersFinite DEF Routed, IInv, EventOk
<1>2. n \in Nat /\ next \in Nat
  BY <1>1, LenProperties DEF IInv, RequestsOk, RoutesOk
<1>3. PICK order \in [1 .. n -> Enabled] : Lists(order)
  BY <1>1 DEF IInv, RoutesOk
<1>4. PICK from \in [1 .. m -> Matching] : Collected(from)
  BY <1>1 DEF IInv, RequestsOk
<1>5. \A x : x \in Matching <=> x \in 1 .. n /\ ~Ignored(event.path) /\ Matches(routes[x], event)
  BY <1>1, <1>2 DEF Matching
<1>6. \A x \in 1 .. n : routes[x] = Route(folders[order[x]]) /\ order[x] \in Enabled
  BY <1>3 DEF Lists
<1>7. \A x \in 1 .. n : x \in Matching <=> order[x] \in wanting
  BY <1>1, <1>5, <1>6, WantsIs
<1> DEFINE of == [i \in 1 .. m |-> order[from[i]]]
<1>8. \A i \in 1 .. m : from[i] \in Matching /\ from[i] \in 1 .. n
  BY <1>4, <1>5
<1> HIDE DEF wanting, m
<1>9. of \in [1 .. m -> wanting]
  BY <1>7, <1>8
<1>10. \A i, j \in 1 .. m : of[i] = of[j] => i = j
  BY <1>3, <1>4, <1>8 DEF Lists, Collected, m
<1>11. ASSUME NEW k \in wanting PROVE \E i \in 1 .. m : of[i] = k
  <2>1. k \in Enabled
    BY <1>1, WantsIs DEF wanting
  <2>2. PICK x \in 1 .. n : order[x] = k
    BY <1>3, <2>1 DEF Lists
  <2>3. x \in Matching
    BY <1>7, <2>2
  <2>4. PICK i \in 1 .. m : from[i] = x
    BY <1>4, <2>3 DEF Collected, m
  <2> QED
    BY <2>2, <2>4
<1>12. \A i \in 1 .. m : requests[i] = ScanRequest(Route(folders[of[i]]), event)
  BY <1>4, <1>6, <1>8 DEF Collected, m
<1> HIDE DEF of
<1> QED
  BY <1>9, <1>10, <1>11, <1>12 DEF wanting, m

(* route() gives one request per matching folder of each server and        *)
(* library, and the folder of each is watched.                             *)
LEMMA RequestsMatch == IInv => OneRequestPerMatch
<1> SUFFICES ASSUME IInv, Routed PROVE OneRequestPerMatch
  BY DEF OneRequestPerMatch
<1> DEFINE wanting == {k \in DOMAIN folders : Wants(folders[k])}
           m == Len(requests)
           Asked(s, l) == {i \in 1 .. m : requests[i].server = s /\ requests[i].library = l}
           Wanted(s, l) == {k \in wanting : folders[k].server = s /\ folders[k].library = l}
<1>1. event # None /\ routes # None
  BY DEF Routed, IInv, EventOk
<1>2. m \in Nat /\ DOMAIN requests = 1 .. m
  BY <1>1, LenProperties DEF IInv, RequestsOk
<1>3. wanting \subseteq Enabled
  BY <1>1, WantsIs
<1>4. PICK of \in [1 .. m -> wanting] :
              /\ \A i, j \in 1 .. m : of[i] = of[j] => i = j
              /\ \A k \in DOMAIN folders : Wants(folders[k]) => \E i \in 1 .. m : of[i] = k
              /\ \A i \in 1 .. m : requests[i] = ScanRequest(Route(folders[of[i]]), event)
  BY RequestOfEach
<1>5. \A k \in wanting : \E i \in 1 .. m : of[i] = k
  BY <1>4
<1> HIDE DEF wanting, m
<1>6. IsFiniteSet(1 .. m) /\ Cardinality(1 .. m) = m
  BY <1>2, FS_Interval
<1>7. m = Cardinality(wanting)
  BY <1>4, <1>5, <1>6, SameSize
<1>8. ASSUME NEW i \in 1 .. m
      PROVE  requests[i].server = folders[of[i]].server /\ requests[i].library = folders[of[i]].library
  <2>1. of[i] \in Enabled
    BY <1>3, <1>4
  <2>2. requests[i] = ScanRequest(Route(folders[of[i]]), event)
    BY <1>4
  <2> QED
    BY <2>1, <2>2, RoutePath DEF ScanRequest, IInv
<1>9. ASSUME NEW s, NEW l PROVE Cardinality(Asked(s, l)) = Cardinality(Wanted(s, l))
  <2> DEFINE part == [i \in Asked(s, l) |-> of[i]]
  <2>1. part \in [Asked(s, l) -> Wanted(s, l)]
    BY <1>4, <1>8
  <2>2. \A i, j \in Asked(s, l) : part[i] = part[j] => i = j
    BY <1>4
  <2>3. \A k \in Wanted(s, l) : \E i \in Asked(s, l) : part[i] = k
    BY <1>5, <1>8
  <2>4. IsFiniteSet(Asked(s, l))
    BY <1>6, FS_Subset
  <2> HIDE DEF part, Asked, Wanted
  <2> QED
    BY <2>1, <2>2, <2>3, <2>4, SameSize
<1>10. ASSUME NEW k \in wanting PROVE folders[k].path \in watched
  <2>1. watched = {r.path : r \in ToSet(routes)} /\ DOMAIN routes = 1 .. Len(routes)
    BY <1>1, LenProperties DEF IInv, RoutesOk
  <2>2. PICK order \in [1 .. Len(routes) -> Enabled] : Lists(order)
    BY <1>1 DEF IInv, RoutesOk
  <2>3. PICK i \in 1 .. Len(routes) : order[i] = k
    BY <1>3, <2>2 DEF Lists
  <2>4. routes[i] = Route(folders[k]) /\ routes[i] \in ToSet(routes)
    BY <2>1, <2>2, <2>3 DEF Lists, ToSet
  <2>5. routes[i].path = folders[k].path
    BY <1>3, <2>4, RoutePath DEF IInv
  <2> QED
    BY <2>1, <2>4, <2>5
<1> HIDE DEF Asked, Wanted
<1>11. /\ Len(requests) = Cardinality(wanting)
       /\ \A k \in wanting : folders[k].path \in watched
       /\ \A s \in 1 .. NServers, l \in {f.library : f \in ToSet(folders)} :
             Cardinality(Asked(s, l)) = Cardinality(Wanted(s, l))
  BY <1>7, <1>9, <1>10 DEF m
<1> QED
  BY <1>2, <1>11 DEF OneRequestPerMatch, wanting, m, Asked, Wanted

(* Every routed event has one request per folder that wants it, for any    *)
(* rows, whatever the order of the routes: a server with two overlapping   *)
(* folders that match is asked twice.                                      *)
THEOREM OneRequestEach == Spec => []OneRequestPerMatch
<1>1. IInv => OneRequestPerMatch
  BY RequestsMatch
<1> QED
  BY <1>1, Invariance, PTL

----------------------------------------------------------------------------
(* What the requests ask for *)

(* Each request is that of an enabled folder whose path leads to the file. *)
LEMMA RequestFrom ==
    ASSUME IInv, NEW q \in ToSet(requests)
    PROVE  /\ event # None /\ event.path \in Seq(Segment) /\ q.file = event.path
           /\ \E k \in Enabled : /\ q = ScanRequest(Route(folders[k]), event)
                                 /\ IsPrefix(folders[k].path, event.path)
                                 /\ folders[k].path \in watched
<1>1. PICK i \in 1 .. Len(requests) : q = requests[i]
  <2>1. event # None
    BY EmptySeq DEF IInv, RequestsOk, ToSet
  <2>2. DOMAIN requests = 1 .. Len(requests)
    BY <2>1, LenProperties DEF IInv, RequestsOk
  <2> QED
    BY <2>2 DEF ToSet
<1>2. event # None /\ routes # None /\ event.path \in Seq(Segment)
  BY <1>1, EmptySeq, PathAssumption DEF IInv, RequestsOk, EventOk
<1>3. PICK from \in [1 .. Len(requests) -> Matching] : Collected(from)
  BY <1>2 DEF IInv, RequestsOk
<1>4. PICK order \in [1 .. Len(routes) -> Enabled] : Lists(order)
  BY <1>2 DEF IInv, RoutesOk
<1>5. from[i] \in 1 .. Len(routes) /\ Matches(routes[from[i]], event)
      /\ q = ScanRequest(routes[from[i]], event)
  BY <1>1, <1>3 DEF Collected, Matching
<1>6. PICK k \in Enabled : routes[from[i]] = Route(folders[k])
  BY <1>4, <1>5 DEF Lists
<1>7. folders[k].path = routes[from[i]].path /\ IsPrefix(folders[k].path, event.path)
  BY <1>5, <1>6, RoutePath DEF Matches, IsPathPrefix, IInv
<1>8. folders[k].path \in watched
  <2>1. DOMAIN routes = 1 .. Len(routes)
    BY <1>2, LenProperties DEF IInv, RoutesOk
  <2>2. routes[from[i]] \in ToSet(routes)
    BY <1>5, <2>1 DEF ToSet
  <2> QED
    BY <1>2, <1>7, <2>2 DEF IInv, RoutesOk
<1>9. q.file = event.path
  BY <1>5 DEF ScanRequest
<1> QED
  BY <1>2, <1>5, <1>6, <1>7, <1>8, <1>9

(* The scan path of a file under a root: the root, or one segment more. *)
LEMMA ScanPathIs ==
    ASSUME NEW root \in Seq(Segment), NEW path \in Seq(Segment), IsPrefix(root, path)
    PROVE  LET scan == ComputeScanPath(root, path)
           IN /\ scan \in Seq(Segment) /\ IsPrefix(scan, path) /\ IsPrefix(root, scan)
              /\ Len(path) >= Len(root) + 2 => Len(scan) = Len(root) + 1
              /\ Len(path) <= Len(root) + 1 => scan = root
              /\ scan = path => root = path
<1> DEFINE n == Len(root) + 1
           scan == SubSeq(path, 1, n)
<1>1. /\ Len(root) \in Nat /\ Len(path) \in Nat /\ Len(root) <= Len(path)
      /\ \A i \in 1 .. Len(root) : root[i] = path[i]
  BY LenProperties, PrefixIs
<1>2. CASE Len(path) < Len(root) + 2
  <2>1. ComputeScanPath(root, path) = root
    BY <1>1, <1>2 DEF ComputeScanPath
  <2>2. IsPrefix(root, root)
    BY <1>1, PrefixIs
  <2> QED
    BY <1>1, <1>2, <2>1, <2>2
<1>3. CASE Len(path) >= Len(root) + 2
  <2>1. ComputeScanPath(root, path) = scan
    BY <1>3 DEF ComputeScanPath
  <2>2. \A i \in 1 .. n : path[i] \in Segment
    BY <1>1, <1>3, ElementOfSeq
  <2>3. scan \in Seq(Segment) /\ Len(scan) = n /\ \A i \in 1 .. n : scan[i] = path[i]
    BY <1>1, <2>2, SubSeqProperties
  <2> HIDE DEF scan
  <2>4. IsPrefix(scan, path) /\ IsPrefix(root, scan)
    BY <1>1, <1>3, <2>3, PrefixIs
  <2>5. scan # path
    BY <1>1, <1>3, <2>3
  <2> QED
    BY <1>1, <1>3, <2>1, <2>3, <2>4, <2>5
<1> QED
  BY <1>1, <1>2, <1>3

(* A targeted request scans no more than what the event calls for. *)
LEMMA RequestCovers == IInv => ScanCovers
<1> SUFFICES ASSUME IInv, NEW q \in ToSet(requests), q.mode = "targeted"
             PROVE  /\ IsPrefix(q.scanPath, q.file)
                    /\ q.scanPath = q.file => q.file \in watched
                    /\ \E root \in watched :
                          /\ IsPrefix(root, q.scanPath)
                          /\ q.scanPath = root <=> Len(q.file) <= Len(root) + 1
                          /\ Len(q.scanPath) <= Len(root) + 1
  BY DEF ScanCovers
<1>1. event.path \in Seq(Segment) /\ q.file = event.path
  BY RequestFrom
<1>2. PICK k \in Enabled : /\ q = ScanRequest(Route(folders[k]), event)
                           /\ IsPrefix(folders[k].path, event.path)
                           /\ folders[k].path \in watched
  BY RequestFrom
<1>3. folders[k].path \in Seq(Segment) /\ Route(folders[k]).path = folders[k].path
  BY RoutePath DEF IInv
<1>4. q.scanPath = ComputeScanPath(folders[k].path, event.path)
  BY <1>2, <1>3 DEF ScanRequest
<1> DEFINE root == folders[k].path
           scan == ComputeScanPath(root, event.path)
<1>5. /\ scan \in Seq(Segment) /\ IsPrefix(scan, event.path) /\ IsPrefix(root, scan)
      /\ Len(event.path) >= Len(root) + 2 => Len(scan) = Len(root) + 1
      /\ Len(event.path) <= Len(root) + 1 => scan = root
      /\ scan = event.path => root = event.path
  BY <1>1, <1>2, <1>3, ScanPathIs
<1>6. Len(root) \in Nat /\ Len(event.path) \in Nat
  BY <1>1, <1>3, LenProperties
<1> HIDE DEF scan, root
<1>7. /\ scan = root <=> Len(event.path) <= Len(root) + 1
      /\ Len(scan) <= Len(root) + 1
  BY <1>5, <1>6
<1> QED
  BY <1>1, <1>2, <1>4, <1>5, <1>7 DEF scan, root

(* No targeted scan misses its file or reaches beyond the top folder that  *)
(* contains it, for any rows and any path.                                 *)
THEOREM TargetedScansCover == Spec => []ScanCovers
<1>1. IInv => ScanCovers
  BY RequestCovers
<1> QED
  BY <1>1, Invariance, PTL

(* A prefix as long as the whole is the whole. *)
LEMMA PrefixWhole ==
    ASSUME NEW p \in Seq(Segment), NEW q \in Seq(Segment), IsPrefix(p, q), Len(p) >= Len(q)
    PROVE  p = q
<1>1. Len(p) \in Nat /\ Len(q) \in Nat /\ Len(p) <= Len(q) /\ \A i \in 1 .. Len(p) : p[i] = q[i]
  BY LenProperties, PrefixIs
<1>2. Len(p) = Len(q)
  BY <1>1
<1> QED
  BY <1>1, <1>2, SeqEqual

(* Of two roots from which a file has one scan path, the longer one is     *)
(* the other root or the scan path.                                        *)
LEMMA InnerRoot ==
    ASSUME NEW outer \in Seq(Segment), NEW inner \in Seq(Segment), NEW path \in Seq(Segment),
           IsPrefix(outer, path), IsPrefix(inner, path), Len(outer) <= Len(inner),
           ComputeScanPath(outer, path) = ComputeScanPath(inner, path)
    PROVE  IsPrefix(outer, inner) /\ inner \in {outer, ComputeScanPath(outer, path)}
<1> DEFINE scan == ComputeScanPath(outer, path)
<1>1. /\ Len(outer) \in Nat /\ Len(inner) \in Nat /\ Len(path) \in Nat
      /\ \A i \in 1 .. Len(outer) : outer[i] = path[i]
      /\ \A i \in 1 .. Len(inner) : inner[i] = path[i]
  BY LenProperties, PrefixIs
<1>2. IsPrefix(outer, inner)
  BY <1>1, PrefixIs
<1>3. /\ scan \in Seq(Segment) /\ IsPrefix(inner, scan)
      /\ Len(path) >= Len(outer) + 2 => Len(scan) = Len(outer) + 1
      /\ Len(path) <= Len(outer) + 1 => scan = outer
  BY ScanPathIs
<1> HIDE DEF scan
<1>4. Len(scan) <= Len(outer) + 1
  BY <1>1, <1>3
<1>5. CASE Len(inner) = Len(outer)
  BY <1>2, <1>5, PrefixWhole
<1>6. CASE Len(inner) >= Len(outer) + 1
  <2>1. Len(scan) \in Nat /\ Len(inner) >= Len(scan)
    BY <1>1, <1>3, <1>4, <1>6, LenProperties
  <2>2. inner = scan
    BY <1>3, <2>1, PrefixWhole
  <2> QED
    BY <1>2, <2>2 DEF scan
<1> QED
  BY <1>1, <1>5, <1>6

(* Two requests of one key ask for one scan, and for one library unless    *)
(* the folder of one is that of the other or the scan itself.              *)
LEMMA OneKeyOneScan == IInv => SameKeySameScan
<1> SUFFICES ASSUME IInv, NEW a \in ToSet(requests), NEW b \in ToSet(requests),
                    a.server = b.server, a.key = b.key
             PROVE  /\ a.scanPath = b.scanPath
                    /\ a.library # b.library =>
                         \E i, j \in DOMAIN folders :
                             /\ i # j /\ folders[i].server = a.server /\ folders[j].server = a.server
                             /\ IsPrefix(folders[i].path, folders[j].path)
                             /\ folders[j].path \in {folders[i].path, a.scanPath}
  BY DEF SameKeySameScan
<1>1. PICK i \in Enabled : /\ a = ScanRequest(Route(folders[i]), event)
                           /\ IsPrefix(folders[i].path, event.path)
  BY RequestFrom
<1>2. PICK j \in Enabled : /\ b = ScanRequest(Route(folders[j]), event)
                           /\ IsPrefix(folders[j].path, event.path)
  BY RequestFrom
<1>3. /\ event.path \in Seq(Segment) /\ i \in DOMAIN folders /\ j \in DOMAIN folders
      /\ folders[i].path \in Seq(Segment) /\ folders[j].path \in Seq(Segment)
  BY RequestFrom, RoutePath, FoldersFinite DEF IInv
<1> DEFINE mode == servers[a.server].mode
           Scan(f) == ComputeScanPath(f.path, event.path)
<1>4. /\ a.server = folders[i].server /\ a.library = folders[i].library
      /\ b.server = folders[j].server /\ b.library = folders[j].library
  BY <1>1, <1>2, RoutePath DEF ScanRequest, IInv
<1>5. Route(folders[i]).mode = mode /\ Route(folders[j]).mode = mode
  BY <1>4, RoutePath DEF IInv
<1>6. CASE mode = "targeted"
  <2>1. /\ a.scanPath = Scan(folders[i]) /\ b.scanPath = Scan(folders[j])
        /\ a.key = <<"path", Scan(folders[i])>> /\ b.key = <<"path", Scan(folders[j])>>
    BY <1>1, <1>2, <1>5, <1>6, RoutePath DEF ScanRequest, ScanKey, IInv
  <2>2. Scan(folders[i]) = Scan(folders[j])
    <3>1. <<"path", Scan(folders[i])>> = <<"path", Scan(folders[j])>>
      BY <2>1, Zenon
    <3> QED
      BY <3>1, Zenon
  <2>3. a.library # b.library => i # j
    BY <1>4
  <2>4. Len(folders[i].path) \in Nat /\ Len(folders[j].path) \in Nat
    BY <1>3, LenProperties
  <2>5. CASE Len(folders[i].path) <= Len(folders[j].path)
    <3>1. /\ IsPrefix(folders[i].path, folders[j].path)
          /\ folders[j].path \in {folders[i].path, Scan(folders[i])}
      BY <1>1, <1>2, <1>3, <2>2, <2>5, InnerRoot
    <3> HIDE DEF Scan
    <3> QED
      BY <1>3, <1>4, <2>1, <2>2, <2>3, <3>1
  <2>6. CASE Len(folders[j].path) <= Len(folders[i].path)
    <3>1. /\ IsPrefix(folders[j].path, folders[i].path)
          /\ folders[i].path \in {folders[j].path, Scan(folders[j])}
      BY <1>1, <1>2, <1>3, <2>2, <2>6, InnerRoot
    <3> HIDE DEF Scan
    <3> QED
      BY <1>3, <1>4, <2>1, <2>2, <2>3, <3>1
  <2> QED
    BY <2>4, <2>5, <2>6
<1>7. CASE mode # "targeted"
  <2>1. /\ a.scanPath = None /\ b.scanPath = None
        /\ a.key = <<"lib", a.library>> /\ b.key = <<"lib", b.library>>
    BY <1>1, <1>2, <1>4, <1>5, <1>7 DEF ScanRequest, ScanKey
  <2>2. <<"lib", a.library>> = <<"lib", b.library>>
    BY <2>1, Zenon
  <2>3. a.library = b.library
    BY <2>2, Zenon
  <2> QED
    BY <2>1, <2>3
<1> HIDE DEF mode
<1> QED
  BY <1>6, <1>7

(* Two requests of one key ask for the same scan, for any rows, unless     *)
(* their folders want different libraries and one of them is the other or  *)
(* lies directly in it.  Coalescing then loses the scan of one library.    *)
THEOREM KeysMergeSafely == Spec => []SameKeySameScan
<1>1. IInv => SameKeySameScan
  BY OneKeyOneScan
<1> QED
  BY <1>1, Invariance, PTL
===============================================================================
