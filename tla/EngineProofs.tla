----------------------------- MODULE EngineProofs -----------------------------
(***************************************************************************)
(* TLAPS proofs about the engine, for every database, every number of      *)
(* concurrent web requests and both ways of serving.                       *)
(***************************************************************************)
EXTENDS Engine, TLAPS

Reader == {"folders", "policy", "limit"}

(* Which suspension points are whose, and what has been wired by then. *)
PcOk ==
    /\ pc[Start] \in {"init", "consuming", "done", "servers"} \cup Reader
    /\ \A h \in Handler : pc[h] \in {"idle", "committed", "waiting", "servers", "closing"} \cup Reader
    /\ \A h \in Handler : pc[h] \in {"servers", "closing"} \cup Reader => lock = h
    /\ \A h \in Handler : pc[h] \in {"waiting", "servers", "closing"} \cup Reader => Wired
    /\ pc[Start] \in {"policy", "limit", "consuming"} => Wired
    /\ pc[Start] \in {"init", "servers", "folders"} => ~Wired

(* Only enabled servers are left to be read, and none once the read ends. *)
TodoOk ==
    /\ \A t \in Task : \A s \in todo[t] : read[t].srv[s] # Disabled
    /\ \A t \in Task : pc[t] \in {"policy", "limit"} => todo[t] = {}

(* What task t has read so far is what the database says now. *)
Fresh(t) == \A s \in Server :
    /\ read[t].srv[s] = srv[s]
    /\ s \notin todo[t] => read[t].fold[s] = Snapshot.fold[s]

(* Some rebuild that will read the database, or has begun to, is still to swap. *)
Pending == Owing \cup Underway # {}
Excused == Pending \/ ~Readable \/ lapse

(* A rebuild's read is current unless another rebuild has yet to begin     *)
(* reading; start's read and the configuration in force are current unless *)
(* a rebuild is pending, the database is unreadable or there was a lapse.  *)
FreshRebuild == \A h \in Underway : Owing # {} \/ Fresh(h)
FreshStart == pc[Start] \in Reader => Excused \/ Fresh(Start)
FreshConfig == Wired => Excused \/ config = Snapshot

(* The same three for the inotify_gate policy. *)
PolicyRebuild == \A h \in Handler : pc[h] = "limit" => Owing # {} \/ pol[h] = policy
PolicyStart == pc[Start] = "limit" => Excused \/ pol[Start] = policy
PolicyState == Attached /\ Wired /\ stop = "no" /\ policy = "off" => Excused \/ state = "running"

(* Until start attaches, its local config is the engine's, and nothing is watched. *)
StartLocal ==
    /\ pc[Start] \in {"policy", "limit"} /\ ~lapse => config = read[Start] /\ roots = {}
    /\ ~Wired => roots = {}

(* Which bundles a task holds. *)
Bundles ==
    /\ mine[Start] = NoBundle
    /\ ~Wired => clients = NoBundle /\ open = {}
    /\ \A h \in Handler : pc[h] \notin {"policy", "limit", "closing"} => mine[h] = NoBundle
    /\ stop = "no" => \A h \in Handler : pc[h] \in {"policy", "limit"} => mine[h] \in open

(* Every open bundle is the engine's or a rebuild's; once aclose has closed *)
(* the engine's, a rebuild's.                                              *)
Accounted ==
    /\ Wired /\ stop \in {"no", "debouncer"} =>
         \A b \in open : b = clients \/ \E h \in Handler : mine[h] = b /\ lock = h
    /\ Emptied /\ ~late => \A b \in open : \E h \in Handler : mine[h] = b /\ lock = h

(* What an ended web server and an ended aclose leave behind. *)
WoundUp ==
    /\ stop # "no" => pc[Start] # "init"
    /\ stop \in {"waiting", "done"} /\ ~late => state = "stopped"
    /\ web \in {"held", "ended"} =>
         (\A h \in Handler : pc[h] = "idle") \/ (~Wired /\ pc[Start] = "done")
    /\ stop = "done" => web = "ended" \/ (~Wired /\ pc[Start] = "done")

IInv == /\ TypeOK /\ PcOk /\ TodoOk
        /\ FreshRebuild /\ FreshStart /\ FreshConfig
        /\ PolicyRebuild /\ PolicyStart /\ PolicyState
        /\ StartLocal /\ RootsMatch
        /\ BlockedExplained
        /\ Bundles /\ ClientsExact /\ Accounted /\ WoundUp

(* The state is well typed at the start ... *)
LEMMA TypeInit == Init => TypeOK
<1> SUFFICES ASSUME Init PROVE TypeOK
  OBVIOUS
<1>1. Empty \in Config /\ Empty.srv \in [Server -> Row]
  BY RowAssumption DEF Empty, Config
<1>2. pc \in [Task -> Point]
  BY DEF Init, Point
<1> HIDE DEF Point
<1>3. read \in [Task -> Config]
  BY <1>1 DEF Init
<1> QED
  BY <1>1, <1>2, <1>3, NameAssumption DEF Init, TypeOK

(* ... and stays so. *)
LEMMA TypeNext == TypeOK /\ [Next]_vars => TypeOK'
<1> SUFFICES ASSUME TypeOK, [Next]_vars PROVE TypeOK'
  OBVIOUS
<1>e. Empty \in Config
  BY RowAssumption DEF Empty, Config
<1>t. Start \in Task /\ \A h \in Handler : h \in Task
  BY DEF Task
<1>p. \A c \in Config : /\ AdaptersOf(c) \in [Server -> Row]
                        /\ WatchPaths(c) \subseteq Path
                        /\ c.srv \in [Server -> Row]
  BY RowAssumption DEF Config, AdaptersOf, WatchPaths
<1>q. /\ {"idle", "committed", "waiting", "servers", "folders"} \subseteq Point
      /\ {"policy", "limit", "closing", "consuming", "done"} \subseteq Point
  BY DEF Point
<1> USE <1>e, <1>t, <1>p, <1>q DEF db, reading, runtime, watch, shutdown, ghosts
<1>1. ASSUME NEW t \in Task, ReadServers(t) PROVE TypeOK'
  <2>1. [Empty EXCEPT !.srv = srv] \in Config
    BY DEF Empty, Config, TypeOK
  <2> QED
    BY <1>1, <2>1 DEF ReadServers, TypeOK, Enabled
<1>2. ASSUME NEW t \in Task, NEW s \in Server, ReadFolders(t, s) PROVE TypeOK'
  <2>1. [read[t] EXCEPT !.fold[s] = fold[s]] \in Config
    BY DEF Config, TypeOK
  <2>2. read' = [read EXCEPT ![t] = [read[t] EXCEPT !.fold[s] = fold[s]]]
    BY <1>2 DEF ReadFolders, TypeOK
  <2>3. read' \in [Task -> Config]
    BY <2>1, <2>2 DEF TypeOK
  <2> QED
    BY <1>2, <2>3 DEF ReadFolders, TypeOK
<1>3. ASSUME NEW t \in Task, ReadRaises(t) PROVE TypeOK'
  BY <1>3, NameAssumption DEF ReadRaises, TypeOK
<1>4. ASSUME NEW t \in Task, ReadPolicy(t) PROVE TypeOK'
  BY <1>4 DEF ReadPolicy, TypeOK
<1>5. CASE StartCall \/ ConsumeEnds
  BY <1>5 DEF StartCall, ConsumeEnds, TypeOK
<1>6. ASSUME NEW b \in Bundle, StartWire(b) PROVE TypeOK'
  BY <1>6 DEF StartWire, Install, TypeOK
<1>7. ASSUME NEW fits \in BOOLEAN, StartAttach(fits) PROVE TypeOK'
  BY <1>7 DEF StartAttach, TypeOK
<1>8. ASSUME NEW h \in Handler, Request(h) PROVE TypeOK'
  <2>1. ASSUME NEW s \in Server, NEW row \in Row, NEW paths \in SUBSET Path,
               WriteServer(h, s, row, paths)
        PROVE  TypeOK'
    BY <2>1 DEF WriteServer, TypeOK
  <2>2. ASSUME NEW value \in {"enforce", "off"}, WritePolicy(h, value) PROVE TypeOK'
    BY <2>2 DEF WritePolicy, TypeOK
  <2>3. CASE Recheck(h)
    BY <2>3 DEF Recheck, TypeOK
  <2> QED
    BY <1>8, <2>1, <2>2, <2>3 DEF Request
<1>9. ASSUME NEW h \in Handler, Refused(h) \/ EnterRebuild(h) PROVE TypeOK'
  <2>1. CASE Refused(h)
    BY <2>1 DEF Refused, TypeOK
  <2>2. CASE EnterRebuild(h)
    BY <2>2 DEF EnterRebuild, TypeOK
  <2> QED
    BY <1>9, <2>1, <2>2
<1>10. ASSUME NEW h \in Handler, AcquireLock(h) \/ RebuildEnds(h) PROVE TypeOK'
  <2>1. CASE AcquireLock(h)
    BY <2>1 DEF AcquireLock, TypeOK
  <2>2. CASE RebuildEnds(h)
    BY <2>2 DEF RebuildEnds, TypeOK
  <2> QED
    BY <1>10, <2>1, <2>2
<1>11. ASSUME NEW h \in Handler, NEW b \in Bundle, NEW ok \in BOOLEAN,
              NEW limit \in {"none", "ok", "short"}, open' \subseteq Bundle, Swap(h, b, limit, ok)
       PROVE  TypeOK'
  BY <1>11 DEF Swap, Install, Repoint, TypeOK, Attached
<1>12. ASSUME NEW h \in Handler, NEW b \in Bundle, RebuildBuild(h, b) PROVE TypeOK'
  <2>1. open' \subseteq Bundle
    BY <1>12 DEF RebuildBuild, TypeOK
  <2>2. CASE WatchPaths(read[h]) = {}
    BY <1>11, <1>12, <2>1, <2>2 DEF RebuildBuild
  <2>3. CASE WatchPaths(read[h]) # {}
    <3>1. /\ mine' = [mine EXCEPT ![h] = b] /\ pc' = [pc EXCEPT ![h] = "policy"]
          /\ UNCHANGED <<db, reading, lock, state, runtime, watch, shutdown, ghosts>>
      BY <1>12, <2>3 DEF RebuildBuild
    <3> QED
      BY <2>1, <3>1 DEF TypeOK
  <2> QED
    BY <2>2, <2>3
<1>13. ASSUME NEW h \in Handler, NEW fits \in BOOLEAN, RebuildSwap(h, fits) PROVE TypeOK'
  BY <1>13 DEF RebuildSwap, Swap, Install, Repoint, TypeOK, Attached
<1>14. CASE Shutdown \/ WebServer
  BY <1>14 DEF Shutdown, AcloseUnwired, Aclose, AcloseClients, AcloseEnds, ServeReturns,
     WebServer, WebStops, WebDrained, StreamsClose, Told, TypeOK
<1>15. CASE UNCHANGED vars
  BY <1>15 DEF vars, TypeOK
<1> QED
  BY <1>1, <1>2, <1>3, <1>4, <1>5, <1>6, <1>7, <1>8, <1>9, <1>10, <1>12, <1>13, <1>14, <1>15
     DEF Next, StartStep, Rebuild

(* The suspension points, the lock and the wiring stay consistent. *)
LEMMA PcNext == TypeOK /\ PcOk /\ Next => PcOk'
<1> SUFFICES ASSUME TypeOK, PcOk, Next PROVE PcOk'
  OBVIOUS
<1>t. /\ Start \in Task /\ \A h \in Handler : h \in Task /\ h # Start /\ h # NoHandler
      /\ \A t \in Task : t = Start \/ t \in Handler
      /\ pc \in [Task -> Point] /\ pc' \in [Task -> Point]
  BY NameAssumption, TypeNext DEF Task, TypeOK
<1> USE <1>t DEF db, reading, runtime, watch, shutdown, ghosts, PcOk, Reader, Wired
<1>1. ASSUME NEW t \in Task, ReadServers(t) PROVE PcOk'
  BY <1>1 DEF ReadServers
<1>2. ASSUME NEW t \in Task, NEW s \in Server, ReadFolders(t, s) PROVE PcOk'
  BY <1>2 DEF ReadFolders
<1>3. ASSUME NEW t \in Task, ReadRaises(t) PROVE PcOk'
  BY <1>3 DEF ReadRaises
<1>4. ASSUME NEW t \in Task, ReadPolicy(t) PROVE PcOk'
  BY <1>4 DEF ReadPolicy
<1>5. CASE StartCall
  BY <1>5 DEF StartCall
<1>6. ASSUME NEW b \in Bundle, StartWire(b) PROVE PcOk'
  BY <1>6 DEF StartWire, Install, ReadDone
<1>7. ASSUME NEW fits \in BOOLEAN, StartAttach(fits) PROVE PcOk'
  BY <1>7 DEF StartAttach
<1>8. CASE ConsumeEnds
  BY <1>8 DEF ConsumeEnds
<1>9. ASSUME NEW h \in Handler, Request(h) PROVE PcOk'
  BY <1>9 DEF Request, WriteServer, WritePolicy, Recheck
<1>10. ASSUME NEW h \in Handler, Refused(h) \/ EnterRebuild(h) PROVE PcOk'
  BY <1>10 DEF Refused, EnterRebuild
<1>11. ASSUME NEW h \in Handler, AcquireLock(h) PROVE PcOk'
  BY <1>11 DEF AcquireLock
<1>12. ASSUME NEW h \in Handler, NEW b \in Bundle, RebuildBuild(h, b) PROVE PcOk'
  BY <1>12 DEF RebuildBuild, ReadDone, Swap, Install, Repoint
<1>13. ASSUME NEW h \in Handler, NEW fits \in BOOLEAN, RebuildSwap(h, fits) PROVE PcOk'
  BY <1>13 DEF RebuildSwap, Swap, Install, Repoint
<1>14. ASSUME NEW h \in Handler, RebuildEnds(h) PROVE PcOk'
  BY <1>14 DEF RebuildEnds
<1>15. CASE Shutdown \/ WebServer
  BY <1>15 DEF Shutdown, AcloseUnwired, Aclose, AcloseClients, AcloseEnds, ServeReturns,
     WebServer, WebStops, WebDrained, StreamsClose
<1> QED
  BY <1>1, <1>2, <1>3, <1>4, <1>5, <1>6, <1>7, <1>8, <1>9, <1>10, <1>11, <1>12, <1>13, <1>14, <1>15
     DEF Next, StartStep, Rebuild

(* A blocked engine keeps the measurement that blocked it. *)
LEMMA BlockedNext == TypeOK /\ BlockedExplained /\ Next => BlockedExplained'
<1> SUFFICES ASSUME TypeOK, BlockedExplained, Next PROVE BlockedExplained'
  OBVIOUS
<1>t. Start \in Task /\ Handler \subseteq Task /\ Start \notin Handler
  BY NameAssumption DEF Task
<1> USE <1>t DEF db, reading, runtime, watch, shutdown, ghosts, BlockedExplained
<1>1. ASSUME NEW t \in Task, ReadServers(t) PROVE BlockedExplained'
  BY <1>1 DEF ReadServers
<1>2. ASSUME NEW t \in Task, NEW s \in Server, ReadFolders(t, s) PROVE BlockedExplained'
  BY <1>2 DEF ReadFolders
<1>3. ASSUME NEW t \in Task, ReadRaises(t) PROVE BlockedExplained'
  BY <1>3 DEF ReadRaises
<1>4. ASSUME NEW t \in Task, ReadPolicy(t) PROVE BlockedExplained'
  BY <1>4 DEF ReadPolicy
<1>5. CASE StartCall
  BY <1>5 DEF StartCall
<1>6. ASSUME NEW b \in Bundle, StartWire(b) PROVE BlockedExplained'
  BY <1>6 DEF StartWire, Install, ReadDone
<1>7. ASSUME NEW fits \in BOOLEAN, StartAttach(fits) PROVE BlockedExplained'
  BY <1>7 DEF StartAttach, GateOk
<1>8. CASE ConsumeEnds
  BY <1>8 DEF ConsumeEnds
<1>9. ASSUME NEW h \in Handler, Request(h) PROVE BlockedExplained'
  BY <1>9 DEF Request, WriteServer, WritePolicy, Recheck
<1>10. ASSUME NEW h \in Handler, Refused(h) \/ EnterRebuild(h) PROVE BlockedExplained'
  BY <1>10 DEF Refused, EnterRebuild
<1>11. ASSUME NEW h \in Handler, AcquireLock(h) PROVE BlockedExplained'
  BY <1>11 DEF AcquireLock
<1>12. ASSUME NEW h \in Handler, NEW b \in Bundle, RebuildBuild(h, b) PROVE BlockedExplained'
  BY <1>12 DEF RebuildBuild, ReadDone, Swap, Install, Repoint
<1>13. ASSUME NEW h \in Handler, NEW fits \in BOOLEAN, RebuildSwap(h, fits) PROVE BlockedExplained'
  BY <1>13 DEF RebuildSwap, Swap, Install, Repoint, GateOk
<1>14. ASSUME NEW h \in Handler, RebuildEnds(h) PROVE BlockedExplained'
  BY <1>14 DEF RebuildEnds
<1>15. CASE Shutdown \/ WebServer
  BY <1>15 DEF Shutdown, AcloseUnwired, Aclose, AcloseClients, AcloseEnds, ServeReturns,
     WebServer, WebStops, WebDrained, StreamsClose
<1> QED
  BY <1>1, <1>2, <1>3, <1>4, <1>5, <1>6, <1>7, <1>8, <1>9, <1>10, <1>11, <1>12, <1>13, <1>14, <1>15
     DEF Next, StartStep, Rebuild

(* What is left to read are enabled servers. *)
LEMMA TodoNext == TypeOK /\ PcOk /\ TodoOk /\ Next => TodoOk'
<1> SUFFICES ASSUME TypeOK, PcOk, TodoOk, Next PROVE TodoOk'
  OBVIOUS
<1>t. Start \in Task /\ Handler \subseteq Task /\ Start \notin Handler
  BY NameAssumption DEF Task
<1> USE <1>t DEF db, reading, runtime, watch, shutdown, ghosts, TypeOK, TodoOk, Enabled, Empty, Config
<1>1. ASSUME NEW t \in Task, ReadServers(t) PROVE TodoOk'
  BY <1>1 DEF ReadServers
<1>2. ASSUME NEW t \in Task, NEW s \in Server, ReadFolders(t, s) PROVE TodoOk'
  BY <1>2 DEF ReadFolders
<1>3. ASSUME NEW t \in Task, ReadRaises(t) PROVE TodoOk'
  BY <1>3 DEF ReadRaises
<1>4. ASSUME NEW t \in Task, ReadPolicy(t) PROVE TodoOk'
  BY <1>4 DEF ReadPolicy
<1>5. CASE StartCall
  BY <1>5 DEF StartCall
<1>6. ASSUME NEW b \in Bundle, StartWire(b) PROVE TodoOk'
  BY <1>6 DEF StartWire, Install, ReadDone
<1>7. ASSUME NEW fits \in BOOLEAN, StartAttach(fits) PROVE TodoOk'
  BY <1>7 DEF StartAttach
<1>8. CASE ConsumeEnds
  BY <1>8 DEF ConsumeEnds
<1>9. ASSUME NEW h \in Handler, Request(h) PROVE TodoOk'
  <2>1. UNCHANGED <<read, todo>> /\ pc' = [pc EXCEPT ![h] = "committed"]
    BY <1>9 DEF Request, WriteServer, WritePolicy, Recheck
  <2> QED
    BY <2>1
<1>10. ASSUME NEW h \in Handler, Refused(h) \/ EnterRebuild(h) PROVE TodoOk'
  <2>1. UNCHANGED <<read, todo>> /\ (pc' = [pc EXCEPT ![h] = "idle"] \/ pc' = [pc EXCEPT ![h] = "waiting"])
    BY <1>10 DEF Refused, EnterRebuild
  <2> QED
    BY <2>1
<1>11. ASSUME NEW h \in Handler, AcquireLock(h) PROVE TodoOk'
  BY <1>11 DEF AcquireLock
<1>12. ASSUME NEW h \in Handler, NEW b \in Bundle, RebuildBuild(h, b) PROVE TodoOk'
  <2>1. todo' = todo /\ todo[h] = {}
    BY <1>12 DEF RebuildBuild, ReadDone, Swap, Install, Repoint
  <2>2. \A t \in Task : t # h => read'[t] = read[t] /\ pc'[t] = pc[t]
    BY <1>12 DEF RebuildBuild, Swap, Install, Repoint
  <2> SUFFICES ASSUME NEW t \in Task
               PROVE  /\ \A s \in todo'[t] : read'[t].srv[s] # Disabled
                      /\ pc'[t] \in {"policy", "limit"} => todo'[t] = {}
    BY DEF TodoOk
  <2>3. CASE t = h
    BY <2>1, <2>3
  <2>4. CASE t # h
    BY <2>1, <2>2, <2>4
  <2> QED
    BY <2>3, <2>4
<1>13. ASSUME NEW h \in Handler, NEW fits \in BOOLEAN, RebuildSwap(h, fits) PROVE TodoOk'
  BY <1>13 DEF RebuildSwap, Swap, Install, Repoint
<1>14. ASSUME NEW h \in Handler, RebuildEnds(h) PROVE TodoOk'
  BY <1>14 DEF RebuildEnds
<1>15. CASE Shutdown \/ WebServer
  BY <1>15 DEF Shutdown, AcloseUnwired, Aclose, AcloseClients, AcloseEnds, ServeReturns,
     WebServer, WebStops, WebDrained, StreamsClose
<1> QED
  BY <1>1, <1>2, <1>3, <1>4, <1>5, <1>6, <1>7, <1>8, <1>9, <1>10, <1>11, <1>12, <1>13, <1>14, <1>15
     DEF Next, StartStep, Rebuild

(* The local configuration of start is the engine's until a rebuild overtakes it. *)
LEMMA StartLocalNext == TypeOK /\ PcOk /\ StartLocal /\ Next => StartLocal'
<1> SUFFICES ASSUME TypeOK, PcOk, StartLocal, Next PROVE StartLocal'
  OBVIOUS
<1>t. Start \in Task /\ Handler \subseteq Task /\ Start \notin Handler
  BY NameAssumption DEF Task
<1> USE <1>t DEF db, reading, runtime, watch, shutdown, ghosts, TypeOK, StartLocal, PcOk, Reader, Wired, Attached
<1>1. ASSUME NEW t \in Task, ReadServers(t) PROVE StartLocal'
  BY <1>1 DEF ReadServers
<1>2. ASSUME NEW t \in Task, NEW s \in Server, ReadFolders(t, s) PROVE StartLocal'
  BY <1>2 DEF ReadFolders
<1>3. ASSUME NEW t \in Task, ReadRaises(t) PROVE StartLocal'
  BY <1>3 DEF ReadRaises
<1>4. ASSUME NEW t \in Task, ReadPolicy(t) PROVE StartLocal'
  BY <1>4 DEF ReadPolicy
<1>5. CASE StartCall
  BY <1>5 DEF StartCall
<1>6. ASSUME NEW b \in Bundle, StartWire(b) PROVE StartLocal'
  BY <1>6 DEF StartWire, Install, ReadDone
<1>7. ASSUME NEW fits \in BOOLEAN, StartAttach(fits) PROVE StartLocal'
  BY <1>7 DEF StartAttach
<1>8. CASE ConsumeEnds
  BY <1>8 DEF ConsumeEnds
<1>9. ASSUME NEW h \in Handler, Request(h) PROVE StartLocal'
  BY <1>9 DEF Request, WriteServer, WritePolicy, Recheck
<1>10. ASSUME NEW h \in Handler, Refused(h) \/ EnterRebuild(h) PROVE StartLocal'
  BY <1>10 DEF Refused, EnterRebuild
<1>11. ASSUME NEW h \in Handler, AcquireLock(h) PROVE StartLocal'
  BY <1>11 DEF AcquireLock
<1>12. ASSUME NEW h \in Handler, NEW b \in Bundle, RebuildBuild(h, b) PROVE StartLocal'
  BY <1>12 DEF RebuildBuild, ReadDone, Swap, Install, Repoint
<1>13. ASSUME NEW h \in Handler, NEW fits \in BOOLEAN, RebuildSwap(h, fits) PROVE StartLocal'
  BY <1>13 DEF RebuildSwap, Swap, Install, Repoint
<1>14. ASSUME NEW h \in Handler, RebuildEnds(h) PROVE StartLocal'
  BY <1>14 DEF RebuildEnds
<1>15. CASE Shutdown \/ WebServer
  BY <1>15 DEF Shutdown, AcloseUnwired, Aclose, AcloseClients, AcloseEnds, ServeReturns,
     WebServer, WebStops, WebDrained, StreamsClose
<1> QED
  BY <1>1, <1>2, <1>3, <1>4, <1>5, <1>6, <1>7, <1>8, <1>9, <1>10, <1>11, <1>12, <1>13, <1>14, <1>15
     DEF Next, StartStep, Rebuild

(* The roots follow the configuration once start has attached. *)
LEMMA RootsNext == TypeOK /\ PcOk /\ StartLocal /\ RootsMatch /\ Next => RootsMatch'
<1> SUFFICES ASSUME TypeOK, PcOk, StartLocal, RootsMatch, Next PROVE RootsMatch'
  OBVIOUS
<1>t. Start \in Task /\ Handler \subseteq Task /\ Start \notin Handler
  BY NameAssumption DEF Task
<1> USE <1>t DEF db, reading, runtime, watch, shutdown, ghosts, TypeOK, RootsMatch, StartLocal, PcOk, Reader, Wired, Attached
<1>1. ASSUME NEW t \in Task, ReadServers(t) PROVE RootsMatch'
  BY <1>1 DEF ReadServers
<1>2. ASSUME NEW t \in Task, NEW s \in Server, ReadFolders(t, s) PROVE RootsMatch'
  BY <1>2 DEF ReadFolders
<1>3. ASSUME NEW t \in Task, ReadRaises(t) PROVE RootsMatch'
  BY <1>3 DEF ReadRaises
<1>4. ASSUME NEW t \in Task, ReadPolicy(t) PROVE RootsMatch'
  BY <1>4 DEF ReadPolicy
<1>5. CASE StartCall
  BY <1>5 DEF StartCall
<1>6. ASSUME NEW b \in Bundle, StartWire(b) PROVE RootsMatch'
  BY <1>6 DEF StartWire, Install, ReadDone
<1>7. ASSUME NEW fits \in BOOLEAN, StartAttach(fits) PROVE RootsMatch'
  BY <1>7 DEF StartAttach
<1>8. CASE ConsumeEnds
  BY <1>8 DEF ConsumeEnds
<1>9. ASSUME NEW h \in Handler, Request(h) PROVE RootsMatch'
  BY <1>9 DEF Request, WriteServer, WritePolicy, Recheck
<1>10. ASSUME NEW h \in Handler, Refused(h) \/ EnterRebuild(h) PROVE RootsMatch'
  BY <1>10 DEF Refused, EnterRebuild
<1>11. ASSUME NEW h \in Handler, AcquireLock(h) PROVE RootsMatch'
  BY <1>11 DEF AcquireLock
<1>12. ASSUME NEW h \in Handler, NEW b \in Bundle, RebuildBuild(h, b) PROVE RootsMatch'
  BY <1>12 DEF RebuildBuild, ReadDone, Swap, Install, Repoint
<1>13. ASSUME NEW h \in Handler, NEW fits \in BOOLEAN, RebuildSwap(h, fits) PROVE RootsMatch'
  BY <1>13 DEF RebuildSwap, Swap, Install, Repoint
<1>14. ASSUME NEW h \in Handler, RebuildEnds(h) PROVE RootsMatch'
  BY <1>14 DEF RebuildEnds
<1>15. CASE Shutdown \/ WebServer
  BY <1>15 DEF Shutdown, AcloseUnwired, Aclose, AcloseClients, AcloseEnds, ServeReturns,
     WebServer, WebStops, WebDrained, StreamsClose
<1> QED
  BY <1>1, <1>2, <1>3, <1>4, <1>5, <1>6, <1>7, <1>8, <1>9, <1>10, <1>11, <1>12, <1>13, <1>14, <1>15
     DEF Next, StartStep, Rebuild

(* A rebuild's read stays current until some write is committed. *)
LEMMA FreshRebuildNext == TypeOK /\ PcOk /\ TodoOk /\ FreshRebuild /\ Next => FreshRebuild'
<1> SUFFICES ASSUME TypeOK, PcOk, TodoOk, FreshRebuild, Next PROVE FreshRebuild'
  OBVIOUS
<1>t. Start \in Task /\ Handler \subseteq Task /\ Start \notin Handler
  BY NameAssumption DEF Task
<1>same. ASSUME UNCHANGED <<srv, fold, read, todo>>, \A g \in Handler : pc'[g] = pc[g]
         PROVE  FreshRebuild'
  BY <1>same DEF FreshRebuild, Fresh, Snapshot, Owing, Underway
<1>last. ASSUME UNCHANGED <<srv, fold>>, NEW h \in Handler, pc[h] \in Reader,
                \A g \in Handler \ {h} : pc'[g] = pc[g], pc'[h] \notin Reader
         PROVE  FreshRebuild'
  BY <1>last DEF FreshRebuild, Underway, PcOk, Reader
<1>owed. ASSUME NEW h \in Handler, pc'[h] \in {"committed", "waiting", "servers"} PROVE FreshRebuild'
  BY <1>owed DEF FreshRebuild, Owing
<1> USE <1>t DEF db, reading, runtime, watch, shutdown, ghosts, TypeOK, PcOk, Reader, Wired
<1>1. ASSUME NEW t \in Task, ReadServers(t) PROVE FreshRebuild'
  <2>1. ASSUME NEW g \in Handler, pc'[g] \in Reader, g # t PROVE pc'[g] = pc[g] /\ t = Start
    BY <1>1, <2>1 DEF ReadServers, Task
  <2>2. CASE t = Start
    <3>1. \A g \in Handler : read'[g] = read[g] /\ todo'[g] = todo[g] /\ pc'[g] = pc[g]
      BY <1>1, <2>2 DEF ReadServers
    <3>2. UNCHANGED <<srv, fold>>
      BY <1>1 DEF ReadServers
    <3> QED
      BY <3>1, <3>2 DEF FreshRebuild, Fresh, Snapshot, Owing, Underway
  <2>3. CASE t # Start
    <3>1. Fresh(t)'
      BY <1>1, <1>t DEF ReadServers, Fresh, Snapshot, Enabled, Empty
    <3> QED
      BY <2>1, <2>3, <3>1 DEF FreshRebuild, Underway, Reader
  <2> QED
    BY <2>2, <2>3
<1>2. ASSUME NEW t \in Task, NEW s \in Server, ReadFolders(t, s) PROVE FreshRebuild'
  <2>1. /\ UNCHANGED <<srv, fold, pc>>
        /\ \A g \in Task \ {t} : read'[g] = read[g] /\ todo'[g] = todo[g]
    BY <1>2 DEF ReadFolders
  <2>2. Fresh(t) => Fresh(t)'
    <3>1. read'[t] = [read[t] EXCEPT !.fold[s] = fold[s]] /\ todo'[t] = todo[t] \ {s}
      BY <1>2 DEF ReadFolders
    <3>2. s \in todo[t] /\ read[t].srv[s] # Disabled
      BY <1>2 DEF ReadFolders, TodoOk
    <3>3. read'[t].srv = read[t].srv /\ read'[t].fold = [read[t].fold EXCEPT ![s] = fold[s]]
      BY <3>1 DEF Config
    <3> QED
      BY <2>1, <3>1, <3>2, <3>3 DEF Fresh, Snapshot, Config
  <2>3. \A g \in Handler \ {t} : Fresh(g) => Fresh(g)'
    BY <2>1 DEF Fresh, Snapshot
  <2> QED
    BY <2>1, <2>2, <2>3 DEF FreshRebuild, Owing, Underway
<1>3. ASSUME NEW t \in Task, ReadRaises(t) PROVE FreshRebuild'
  <2>1. CASE t = Start
    <3>1. /\ UNCHANGED <<srv, fold>>
          /\ \A g \in Handler : pc'[g] = pc[g] /\ read'[g] = read[g] /\ todo'[g] = todo[g]
      BY <1>3, <2>1 DEF ReadRaises
    <3> QED
      BY <3>1 DEF FreshRebuild, Fresh, Snapshot, Owing, Underway
  <2>2. CASE t # Start
    BY <1>3, <2>2, <1>last DEF ReadRaises, Task
  <2> QED
    BY <2>1, <2>2
<1>4. ASSUME NEW t \in Task, ReadPolicy(t) PROVE FreshRebuild'
  <2>1. UNCHANGED <<srv, fold, read, todo>> /\ pc[t] = "policy" /\ pc' = [pc EXCEPT ![t] = "limit"]
    BY <1>4 DEF ReadPolicy
  <2> QED
    BY <2>1 DEF FreshRebuild, Fresh, Snapshot, Owing, Underway
<1>5. CASE StartCall
  <2>1. /\ UNCHANGED <<srv, fold, read, todo>>
        /\ \A g \in Handler : pc'[g] = pc[g]
    BY <1>5 DEF StartCall
  <2> QED
    BY <2>1, <1>same
<1>6. ASSUME NEW b \in Bundle, StartWire(b) PROVE FreshRebuild'
  <2>1. /\ UNCHANGED <<srv, fold, todo>>
        /\ \A g \in Handler : pc'[g] = pc[g] /\ read'[g] = read[g]
    BY <1>6 DEF StartWire, Install
  <2> QED
    BY <2>1 DEF FreshRebuild, Fresh, Snapshot, Owing, Underway
<1>7. ASSUME NEW fits \in BOOLEAN, StartAttach(fits) PROVE FreshRebuild'
  <2>1. /\ UNCHANGED <<srv, fold, todo>>
        /\ \A g \in Handler : pc'[g] = pc[g] /\ read'[g] = read[g]
    BY <1>7 DEF StartAttach
  <2> QED
    BY <2>1 DEF FreshRebuild, Fresh, Snapshot, Owing, Underway
<1>8. CASE ConsumeEnds
  <2>1. /\ UNCHANGED <<srv, fold, read, todo>>
        /\ \A g \in Handler : pc'[g] = pc[g]
    BY <1>8 DEF ConsumeEnds
  <2> QED
    BY <2>1, <1>same
<1>9. ASSUME NEW h \in Handler, Request(h) PROVE FreshRebuild'
  BY <1>9, <1>owed DEF Request, WriteServer, WritePolicy, Recheck
<1>10. ASSUME NEW h \in Handler, Refused(h) \/ EnterRebuild(h) PROVE FreshRebuild'
  <2>1. CASE Refused(h)
    BY <2>1 DEF Refused, FreshRebuild, Underway
  <2>2. CASE EnterRebuild(h)
    BY <2>2, <1>owed DEF EnterRebuild
  <2> QED
    BY <1>10, <2>1, <2>2
<1>11. ASSUME NEW h \in Handler, AcquireLock(h) PROVE FreshRebuild'
  BY <1>11, <1>owed DEF AcquireLock
<1>12. ASSUME NEW h \in Handler, NEW b \in Bundle, RebuildBuild(h, b) PROVE FreshRebuild'
  <2>1. CASE WatchPaths(read[h]) = {}
    BY <1>12, <2>1, <1>last DEF RebuildBuild, ReadDone, Swap, Install, Repoint
  <2>2. CASE WatchPaths(read[h]) # {}
    <3>1. UNCHANGED <<srv, fold, read, todo>> /\ pc[h] = "folders" /\ pc' = [pc EXCEPT ![h] = "policy"]
      BY <1>12, <2>2 DEF RebuildBuild, ReadDone
    <3> QED
      BY <3>1 DEF FreshRebuild, Fresh, Snapshot, Owing, Underway
  <2> QED
    BY <2>1, <2>2
<1>13. ASSUME NEW h \in Handler, NEW fits \in BOOLEAN, RebuildSwap(h, fits) PROVE FreshRebuild'
  BY <1>13, <1>last DEF RebuildSwap, Swap, Install, Repoint
<1>14. ASSUME NEW h \in Handler, RebuildEnds(h) PROVE FreshRebuild'
  <2>1. UNCHANGED <<srv, fold, read, todo>> /\ pc[h] = "closing" /\ pc' = [pc EXCEPT ![h] = "idle"]
    BY <1>14 DEF RebuildEnds
  <2> QED
    BY <2>1 DEF FreshRebuild, Fresh, Snapshot, Owing, Underway
<1>15. CASE Shutdown \/ WebServer
  <2>1. /\ UNCHANGED <<srv, fold, read, todo>>
        /\ \A g \in Handler : pc'[g] = pc[g]
    BY <1>15 DEF Shutdown, AcloseUnwired, Aclose, AcloseClients, AcloseEnds, ServeReturns,
     WebServer, WebStops, WebDrained, StreamsClose
  <2> QED
    BY <2>1, <1>same
<1> QED
  BY <1>1, <1>2, <1>3, <1>4, <1>5, <1>6, <1>7, <1>8, <1>9, <1>10, <1>11, <1>12, <1>13, <1>14, <1>15
     DEF Next, StartStep, Rebuild

(* A complete and current read is the snapshot of the database. *)
LEMMA FreshIsSnapshot ==
    ASSUME TypeOK, NEW t \in Task, Fresh(t), todo[t] = {}
    PROVE  read[t] = Snapshot
<1>1. /\ read[t] = [srv |-> read[t].srv, fold |-> read[t].fold]
      /\ read[t].srv \in [Server -> Row] /\ read[t].fold \in [Server -> SUBSET Path]
  BY DEF TypeOK, Config
<1>2. read[t].srv = srv
  BY <1>1 DEF Fresh, TypeOK
<1>3. read[t].fold = [s \in Server |-> IF srv[s] = Disabled THEN {} ELSE fold[s]]
  BY <1>1 DEF Fresh, Snapshot
<1> QED
  BY <1>1, <1>2, <1>3 DEF Snapshot

(* The configuration in force becomes that of the database. *)
Healed == Attached' /\ config' = Snapshot' /\ (policy' = "off" => state' = "running")

(* The excuses end only with a swap that installs what the database says. *)
LEMMA ExcuseEnds == TypeOK /\ PcOk /\ TodoOk /\ FreshRebuild /\ PolicyRebuild /\ Excused /\ Next => Excused' \/ Healed
<1> SUFFICES ASSUME TypeOK, PcOk, TodoOk, FreshRebuild, PolicyRebuild, Excused, Next PROVE Excused' \/ Healed
  OBVIOUS
<1>t. Start \in Task /\ Handler \subseteq Task /\ Start \notin Handler
  BY NameAssumption DEF Task
<1>same. ASSUME UNCHANGED <<srv, lapse>>, \A g \in Handler : pc'[g] = pc[g] PROVE Excused'
  BY <1>same DEF Excused, Pending, Owing, Underway, Readable
<1>pend. ASSUME NEW h \in Handler, pc'[h] \in {"committed", "waiting", "servers"} \cup Reader PROVE Excused'
  BY <1>pend DEF Excused, Pending, Owing, Underway, Reader
<1>swap. ASSUME NEW h \in Handler, h \in Underway, todo[h] = {}, NEW b, NEW limit, NEW ok, Swap(h, b, limit, ok),
                policy = "off" /\ pol[h] = policy => ok, pc[h] = "limit" \/ ok
         PROVE  Excused' \/ Healed
  <2> SUFFICES ASSUME ~Excused' PROVE Healed
    OBVIOUS
  <2>1. \A g \in Handler \ {h} : pc'[g] = pc[g]
    BY <1>swap DEF Swap, Install, Repoint
  <2>2. Owing = {}
    BY <1>swap, <2>1 DEF Excused, Pending, Owing, Underway
  <2>3. Fresh(h) /\ read[h] = Snapshot
    BY <1>swap, <2>2, FreshIsSnapshot, <1>t DEF FreshRebuild
  <2>4. Attached'
    <3>1. Attached
      BY <1>swap DEF Swap, Install, Repoint, Excused
    <3> QED
      BY <1>swap, <1>t, <3>1 DEF Swap, Install, Repoint, Attached
  <2>5. config' = Snapshot'
    BY <1>swap, <2>3 DEF Swap, Install, Repoint, Snapshot, db
  <2>6. policy' = "off" => ok
    BY <1>swap, <2>2 DEF Swap, Install, Repoint, db, PolicyRebuild
  <2>7. ok => state' = "running"
    BY <1>swap DEF Swap, Install, Repoint
  <2> QED
    BY <2>4, <2>5, <2>6, <2>7 DEF Healed
<1> USE <1>t DEF db, reading, runtime, watch, shutdown, ghosts, TypeOK, Wired
<1>1. ASSUME NEW t \in Task, ReadServers(t) PROVE Excused' \/ Healed
  <2>1. CASE t = Start
    BY <1>1, <2>1, <1>same DEF ReadServers
  <2>2. CASE t # Start
    BY <1>1, <2>2, <1>pend DEF ReadServers, Task, Reader
  <2> QED
    BY <2>1, <2>2
<1>2. ASSUME NEW t \in Task, NEW s \in Server, ReadFolders(t, s) PROVE Excused' \/ Healed
  <2>1. UNCHANGED <<srv, lapse>> /\ \A g \in Handler : pc'[g] = pc[g]
    BY <1>2 DEF ReadFolders
  <2> QED
    BY <2>1, <1>same
<1>3. ASSUME NEW t \in Task, ReadRaises(t) PROVE Excused' \/ Healed
  <2>1. CASE t = Start
    BY <1>3, <2>1, <1>same DEF ReadRaises
  <2>2. CASE t # Start
    <3>1. PICK s \in todo[t] : read[t].srv[s] \in Corrupt
      BY <1>3 DEF ReadRaises
    <3>2. s \in Server /\ t \in Underway
      BY <1>3, <2>2, <3>1 DEF ReadRaises, Underway, Task
    <3>3. UNCHANGED srv /\ \A g \in Handler \ {t} : pc'[g] = pc[g]
      BY <1>3 DEF ReadRaises
    <3>4. CASE Owing # {}
      BY <3>2, <3>3, <3>4 DEF Excused, Pending, Owing, Underway
    <3>5. CASE Fresh(t)
      BY <3>1, <3>2, <3>3, <3>5 DEF Fresh, Excused, Readable
    <3> QED
      BY <3>2, <3>4, <3>5 DEF FreshRebuild
  <2> QED
    BY <2>1, <2>2
<1>4. ASSUME NEW t \in Task, ReadPolicy(t) PROVE Excused' \/ Healed
  <2>1. CASE t = Start
    BY <1>4, <2>1, <1>same DEF ReadPolicy
  <2>2. CASE t # Start
    BY <1>4, <2>2, <1>pend DEF ReadPolicy, Task, Reader
  <2> QED
    BY <2>1, <2>2
<1>5. CASE StartCall
  <2>1. UNCHANGED <<srv, lapse>> /\ \A g \in Handler : pc'[g] = pc[g]
    BY <1>5 DEF StartCall
  <2> QED
    BY <2>1, <1>same
<1>6. ASSUME NEW b \in Bundle, StartWire(b) PROVE Excused' \/ Healed
  <2>1. UNCHANGED <<srv, lapse>> /\ \A g \in Handler : pc'[g] = pc[g]
    BY <1>6 DEF StartWire, Install
  <2> QED
    BY <2>1, <1>same
<1>7. ASSUME NEW fits \in BOOLEAN, StartAttach(fits) PROVE Excused' \/ Healed
  <2>1. UNCHANGED <<srv, lapse>> /\ \A g \in Handler : pc'[g] = pc[g]
    BY <1>7 DEF StartAttach
  <2> QED
    BY <2>1, <1>same
<1>8. CASE ConsumeEnds
  <2>1. UNCHANGED <<srv, lapse>> /\ \A g \in Handler : pc'[g] = pc[g]
    BY <1>8 DEF ConsumeEnds
  <2> QED
    BY <2>1, <1>same
<1>9. ASSUME NEW h \in Handler, Request(h) PROVE Excused' \/ Healed
  BY <1>9, <1>pend DEF Request, WriteServer, WritePolicy, Recheck
<1>10. ASSUME NEW h \in Handler, Refused(h) \/ EnterRebuild(h) PROVE Excused' \/ Healed
  <2>1. CASE Refused(h)
    BY <2>1 DEF Refused, Excused
  <2>2. CASE EnterRebuild(h)
    BY <2>2, <1>pend DEF EnterRebuild
  <2> QED
    BY <1>10, <2>1, <2>2
<1>11. ASSUME NEW h \in Handler, AcquireLock(h) PROVE Excused' \/ Healed
  BY <1>11, <1>pend DEF AcquireLock
<1>12. ASSUME NEW h \in Handler, NEW b \in Bundle, RebuildBuild(h, b) PROVE Excused' \/ Healed
  <2>0. h \in Underway /\ todo[h] = {}
    BY <1>12 DEF RebuildBuild, ReadDone, Underway
  <2>1. CASE WatchPaths(read[h]) = {}
    <3>1. Swap(h, b, "none", TRUE)
      BY <1>12, <2>1 DEF RebuildBuild
    <3> QED
      BY <2>0, <3>1, <1>swap
  <2>2. CASE WatchPaths(read[h]) # {}
    BY <1>12, <2>2, <1>pend DEF RebuildBuild, Reader
  <2> QED
    BY <2>1, <2>2
<1>13. ASSUME NEW h \in Handler, NEW fits \in BOOLEAN, RebuildSwap(h, fits) PROVE Excused' \/ Healed
  <2>1. h \in Underway /\ todo[h] = {} /\ pc[h] = "limit"
    BY <1>13 DEF RebuildSwap, Underway, TodoOk
  <2>2. Swap(h, mine[h], IF fits THEN "ok" ELSE "short", GateOk(h, fits))
    BY <1>13 DEF RebuildSwap
  <2>3. policy = "off" /\ pol[h] = policy => GateOk(h, fits)
    BY DEF GateOk
  <2> QED
    BY <2>1, <2>2, <2>3, <1>swap
<1>14. ASSUME NEW h \in Handler, RebuildEnds(h) PROVE Excused' \/ Healed
  <2>1. UNCHANGED <<srv, lapse>> /\ pc[h] = "closing" /\ pc' = [pc EXCEPT ![h] = "idle"]
    BY <1>14 DEF RebuildEnds
  <2> QED
    BY <2>1 DEF Excused, Pending, Owing, Underway, Readable
<1>15. CASE Shutdown \/ WebServer
  <2>1. UNCHANGED <<srv, lapse>> /\ \A g \in Handler : pc'[g] = pc[g]
    BY <1>15 DEF Shutdown, AcloseUnwired, Aclose, AcloseClients, AcloseEnds, ServeReturns,
     WebServer, WebStops, WebDrained, StreamsClose
  <2> QED
    BY <2>1, <1>same
<1> QED
  BY <1>1, <1>2, <1>3, <1>4, <1>5, <1>6, <1>7, <1>8, <1>9, <1>10, <1>11, <1>12, <1>13, <1>14, <1>15
     DEF Next, StartStep, Rebuild

(* Without an excuse before or after, only start, the shutdown or a        *)
(* finished rebuild can have moved.                                        *)
LEMMA QuietStep ==
    ASSUME TypeOK, PcOk, Next, ~Excused, ~Excused'
    PROVE  StartStep \/ (\E h \in Handler : RebuildEnds(h)) \/ Shutdown \/ WebServer
<1>t. Handler \subseteq Task
  BY DEF Task
<1>1. \A h \in Handler : pc[h] \in {"idle", "closing"}
  BY DEF PcOk, Reader, Excused, Pending, Owing, Underway
<1>2. ASSUME NEW h \in Handler, Request(h) PROVE FALSE
  <2>1. pc'[h] = "committed"
    BY <1>2, <1>t DEF Request, WriteServer, WritePolicy, Recheck, TypeOK
  <2> QED
    BY <2>1 DEF Excused, Pending, Owing
<1>3. ASSUME NEW h \in Handler, Rebuild(h) PROVE RebuildEnds(h)
  BY <1>1, <1>3 DEF Rebuild, Refused, EnterRebuild, AcquireLock, ReadServers, ReadFolders, ReadRaises,
     RebuildBuild, ReadDone, ReadPolicy, RebuildSwap
<1> QED
  BY <1>2, <1>3 DEF Next

(* What start has read stays current unless there is an excuse. *)
LEMMA FreshStartNext ==
    ASSUME TypeOK, PcOk, TodoOk, FreshRebuild, PolicyRebuild, FreshStart, Next
    PROVE  FreshStart'
<1> SUFFICES ASSUME pc'[Start] \in Reader, ~Excused' PROVE Fresh(Start)'
  BY DEF FreshStart
<1>t. Start \in Task /\ Handler \subseteq Task /\ Start \notin Handler
  BY NameAssumption DEF Task
<1>1. ~Excused
  BY ExcuseEnds DEF Healed, Attached, Reader
<1> USE <1>t DEF db, reading, runtime, watch, shutdown, ghosts
<1>2. CASE StartStep
  <2>1. UNCHANGED <<srv, fold>>
    BY <1>2 DEF StartStep, StartCall, ReadServers, ReadFolders, ReadRaises, StartWire, Install, ReadPolicy, StartAttach, ConsumeEnds
  <2>2. CASE ReadServers(Start)
    BY <2>2 DEF ReadServers, Fresh, Snapshot, Enabled, Empty, TypeOK
  <2>3. ASSUME NEW s \in Server, ReadFolders(Start, s) PROVE Fresh(Start)'
    <3>1. read'[Start] = [read[Start] EXCEPT !.fold[s] = fold[s]] /\ todo'[Start] = todo[Start] \ {s}
      BY <2>3 DEF ReadFolders, TypeOK
    <3>2. s \in todo[Start] /\ read[Start].srv[s] # Disabled /\ read[Start] \in Config
      BY <2>3 DEF ReadFolders, TodoOk, TypeOK
    <3>3. read'[Start].srv = read[Start].srv /\ read'[Start].fold = [read[Start].fold EXCEPT ![s] = fold[s]]
      BY <3>1, <3>2 DEF Config
    <3>4. Fresh(Start)
      BY <1>1, <2>3 DEF FreshStart, Reader, ReadFolders
    <3> QED
      BY <2>1, <3>1, <3>2, <3>3, <3>4 DEF Fresh, Snapshot, Config
  <2>4. ASSUME NEW b \in Bundle, StartWire(b) PROVE Fresh(Start)'
    <3>1. read' = read /\ todo' = todo /\ pc[Start] \in Reader
      BY <2>4 DEF StartWire, Install, ReadDone, TypeOK, Reader
    <3> QED
      BY <1>1, <2>1, <3>1 DEF FreshStart, Fresh, Snapshot
  <2>5. CASE ReadPolicy(Start)
    BY <1>1, <2>5 DEF ReadPolicy, FreshStart, Fresh, Snapshot, Reader
  <2>6. CASE StartCall \/ ReadRaises(Start) \/ ConsumeEnds
    BY <2>6 DEF StartCall, ReadRaises, ConsumeEnds, TypeOK, Reader
  <2>7. ASSUME NEW fits \in BOOLEAN, StartAttach(fits) PROVE FALSE
    BY <2>7 DEF StartAttach, TypeOK, Reader
  <2> QED
    BY <1>2, <2>2, <2>3, <2>4, <2>5, <2>6, <2>7 DEF StartStep
<1>3. CASE (\E h \in Handler : RebuildEnds(h)) \/ Shutdown \/ WebServer
  <2>1. UNCHANGED <<srv, fold, read, todo>> /\ pc'[Start] \in {pc[Start], "done"}
    BY <1>3 DEF RebuildEnds, Shutdown, AcloseUnwired, Aclose, AcloseClients, AcloseEnds, ServeReturns,
     WebServer, WebStops, WebDrained, StreamsClose, TypeOK
  <2> QED
    BY <1>1, <2>1 DEF FreshStart, Fresh, Snapshot, Reader
<1> QED
  BY <1>1, <1>2, <1>3, QuietStep

(* The configuration in force is the database's unless there is an excuse. *)
LEMMA FreshConfigNext ==
    ASSUME TypeOK, PcOk, TodoOk, FreshRebuild, PolicyRebuild, FreshStart, FreshConfig, Next
    PROVE  FreshConfig'
<1> SUFFICES ASSUME Wired', ~Excused' PROVE config' = Snapshot'
  BY DEF FreshConfig
<1>t. Start \in Task
  BY DEF Task
<1>1. CASE Excused
  BY <1>1, ExcuseEnds DEF Healed
<1> USE DEF db, reading, runtime, watch, shutdown, ghosts, Wired
<1>2. CASE ~Excused
  <2>1. CASE StartStep
    <3>1. UNCHANGED <<srv, fold>>
      BY <2>1 DEF StartStep, StartCall, ReadServers, ReadFolders, ReadRaises, StartWire, Install, ReadPolicy, StartAttach, ConsumeEnds
    <3>2. ASSUME NEW b \in Bundle, StartWire(b) PROVE config' = Snapshot'
      <4>1. config' = read[Start] /\ todo[Start] = {} /\ pc[Start] = "folders"
        BY <3>2 DEF StartWire, Install, ReadDone
      <4>2. read[Start] = Snapshot
        BY <1>t, <1>2, <4>1, FreshIsSnapshot DEF FreshStart, Reader
      <4> QED
        BY <3>1, <4>1, <4>2 DEF Snapshot
    <3>3. CASE ~ \E b \in Bundle : StartWire(b)
      <4>1. UNCHANGED <<config, watcher>>
        BY <2>1, <3>3 DEF StartStep, StartCall, ReadServers, ReadFolders, ReadRaises, ReadPolicy, StartAttach, ConsumeEnds
      <4> QED
        BY <1>2, <3>1, <4>1 DEF FreshConfig, Snapshot
    <3> QED
      BY <3>2, <3>3
  <2>2. CASE (\E h \in Handler : RebuildEnds(h)) \/ Shutdown \/ WebServer
    <3>1. UNCHANGED <<srv, fold, config>> /\ Wired
      BY <2>2 DEF RebuildEnds, Shutdown, AcloseUnwired, Aclose, AcloseClients, AcloseEnds, ServeReturns,
     WebServer, WebStops, WebDrained, StreamsClose
    <3> QED
      BY <1>2, <3>1 DEF FreshConfig, Snapshot
  <2> QED
    BY <1>2, <2>1, <2>2, QuietStep
<1> QED
  BY <1>1, <1>2

(* The policy a rebuild has read is current until some write is committed. *)
LEMMA PolicyRebuildNext == TypeOK /\ PcOk /\ PolicyRebuild /\ Next => PolicyRebuild'
<1> SUFFICES ASSUME TypeOK, PcOk, PolicyRebuild, Next PROVE PolicyRebuild'
  OBVIOUS
<1>t. Start \in Task /\ Handler \subseteq Task /\ Start \notin Handler
  BY NameAssumption DEF Task
<1>same. ASSUME UNCHANGED policy, \A g \in Handler : pc'[g] = pc[g] /\ pol'[g] = pol[g]
         PROVE  PolicyRebuild'
  BY <1>same DEF PolicyRebuild, Owing
<1>owed. ASSUME NEW h \in Handler, pc'[h] \in {"committed", "waiting", "servers"} PROVE PolicyRebuild'
  BY <1>owed DEF PolicyRebuild, Owing
<1>last. ASSUME UNCHANGED policy, NEW h \in Handler, lock = h,
                \A g \in Handler \ {h} : pc'[g] = pc[g], pc'[h] # "limit" \/ pol'[h] = policy
         PROVE  PolicyRebuild'
  <2> SUFFICES ASSUME NEW g \in Handler, pc'[g] = "limit" PROVE pol'[g] = policy'
    BY DEF PolicyRebuild
  <2>1. g = h
    BY <1>last DEF PcOk, Reader
  <2> QED
    BY <1>last, <2>1
<1> USE <1>t DEF db, reading, runtime, watch, shutdown, ghosts, TypeOK, PcOk, Wired
<1>1. ASSUME NEW t \in Task, ReadServers(t) PROVE PolicyRebuild'
  <2>1. CASE t = Start
    BY <1>1, <2>1, <1>same DEF ReadServers
  <2>2. CASE t # Start
    BY <1>1, <2>2, <1>last DEF ReadServers, Task
  <2> QED
    BY <2>1, <2>2
<1>2. ASSUME NEW t \in Task, NEW s \in Server, ReadFolders(t, s) PROVE PolicyRebuild'
  BY <1>2, <1>same DEF ReadFolders
<1>3. ASSUME NEW t \in Task, ReadRaises(t) PROVE PolicyRebuild'
  <2>1. CASE t = Start
    BY <1>3, <2>1, <1>same DEF ReadRaises
  <2>2. CASE t # Start
    BY <1>3, <2>2, <1>last DEF ReadRaises, Task, Reader
  <2> QED
    BY <2>1, <2>2
<1>4. ASSUME NEW t \in Task, ReadPolicy(t) PROVE PolicyRebuild'
  <2>1. CASE t = Start
    BY <1>4, <2>1, <1>same DEF ReadPolicy
  <2>2. CASE t # Start
    BY <1>4, <2>2, <1>last DEF ReadPolicy, Task, Reader
  <2> QED
    BY <2>1, <2>2
<1>5. CASE StartCall
  BY <1>5, <1>same DEF StartCall
<1>6. ASSUME NEW b \in Bundle, StartWire(b) PROVE PolicyRebuild'
  BY <1>6, <1>same DEF StartWire, Install
<1>7. ASSUME NEW fits \in BOOLEAN, StartAttach(fits) PROVE PolicyRebuild'
  BY <1>7, <1>same DEF StartAttach
<1>8. CASE ConsumeEnds
  BY <1>8, <1>same DEF ConsumeEnds
<1>9. ASSUME NEW h \in Handler, Request(h) PROVE PolicyRebuild'
  BY <1>9, <1>owed DEF Request, WriteServer, WritePolicy, Recheck
<1>10. ASSUME NEW h \in Handler, Refused(h) \/ EnterRebuild(h) PROVE PolicyRebuild'
  <2>1. CASE Refused(h)
    BY <2>1 DEF Refused, PolicyRebuild, Reader
  <2>2. CASE EnterRebuild(h)
    BY <2>2, <1>owed DEF EnterRebuild
  <2> QED
    BY <1>10, <2>1, <2>2
<1>11. ASSUME NEW h \in Handler, AcquireLock(h) PROVE PolicyRebuild'
  BY <1>11, <1>owed DEF AcquireLock
<1>12. ASSUME NEW h \in Handler, NEW b \in Bundle, RebuildBuild(h, b) PROVE PolicyRebuild'
  BY <1>12, <1>last DEF RebuildBuild, ReadDone, Swap, Install, Repoint, Reader
<1>13. ASSUME NEW h \in Handler, NEW fits \in BOOLEAN, RebuildSwap(h, fits) PROVE PolicyRebuild'
  BY <1>13, <1>last DEF RebuildSwap, Swap, Install, Repoint, Reader
<1>14. ASSUME NEW h \in Handler, RebuildEnds(h) PROVE PolicyRebuild'
  BY <1>14, <1>last DEF RebuildEnds
<1>15. CASE Shutdown \/ WebServer
  BY <1>15, <1>same DEF Shutdown, AcloseUnwired, Aclose, AcloseClients, AcloseEnds, ServeReturns,
     WebServer, WebStops, WebDrained, StreamsClose
<1> QED
  BY <1>1, <1>2, <1>3, <1>4, <1>5, <1>6, <1>7, <1>8, <1>9, <1>10, <1>11, <1>12, <1>13, <1>14, <1>15
     DEF Next, StartStep, Rebuild

(* So is the policy start has read, unless there is an excuse. *)
LEMMA PolicyStartNext ==
    ASSUME TypeOK, PcOk, TodoOk, FreshRebuild, PolicyRebuild, PolicyStart, Next
    PROVE  PolicyStart'
<1> SUFFICES ASSUME pc'[Start] = "limit", ~Excused' PROVE pol'[Start] = policy'
  BY DEF PolicyStart
<1>t. Start \in Task /\ Handler \subseteq Task /\ Start \notin Handler
  BY NameAssumption DEF Task
<1>1. ~Excused
  BY ExcuseEnds DEF Healed, Attached
<1> USE <1>t DEF db, reading, runtime, watch, shutdown, ghosts
<1>2. CASE ReadPolicy(Start)
  BY <1>2 DEF ReadPolicy, TypeOK
<1>3. CASE StartStep /\ ~ReadPolicy(Start)
  BY <1>3 DEF StartStep, StartCall, ReadServers, ReadFolders, ReadRaises, StartWire, Install, StartAttach, ConsumeEnds,
     TypeOK, ReadDone
<1>4. CASE (\E h \in Handler : RebuildEnds(h)) \/ Shutdown \/ WebServer
  <2>1. UNCHANGED <<policy, pol>> /\ pc'[Start] \in {pc[Start], "done"}
    BY <1>4 DEF RebuildEnds, Shutdown, AcloseUnwired, Aclose, AcloseClients, AcloseEnds, ServeReturns,
     WebServer, WebStops, WebDrained, StreamsClose, TypeOK
  <2> QED
    BY <1>1, <2>1 DEF PolicyStart
<1> QED
  BY <1>1, <1>2, <1>3, <1>4, QuietStep

(* With the gate switched off the engine runs, unless there is an excuse. *)
LEMMA PolicyStateNext ==
    ASSUME TypeOK, PcOk, TodoOk, FreshRebuild, PolicyRebuild, PolicyStart, PolicyState, Next
    PROVE  PolicyState'
<1> SUFFICES ASSUME Attached', Wired', stop' = "no", policy' = "off", ~Excused' PROVE state' = "running"
  BY DEF PolicyState
<1>t. Start \in Task /\ Handler \subseteq Task /\ Start \notin Handler
  BY NameAssumption DEF Task
<1>1. CASE Excused
  BY <1>1, ExcuseEnds DEF Healed
<1> USE <1>t DEF db, reading, runtime, watch, shutdown, ghosts, Wired, Attached
<1>2. CASE ~Excused
  <2>1. ASSUME NEW fits \in BOOLEAN, StartAttach(fits) PROVE state' = "running"
    BY <1>2, <2>1 DEF StartAttach, PolicyStart, GateOk
  <2>2. ASSUME NEW b \in Bundle, StartWire(b) PROVE state' = "running"
    BY <2>2 DEF StartWire, Install, TypeOK
  <2>3. CASE StartCall \/ ReadServers(Start) \/ ReadPolicy(Start) \/ (\E s \in Server : ReadFolders(Start, s))
    BY <2>3 DEF StartCall, ReadServers, ReadPolicy, ReadFolders, TypeOK
  <2>4. CASE ReadRaises(Start)
    BY <2>4 DEF ReadRaises, PcOk
  <2>5. CASE ConsumeEnds \/ \E h \in Handler : RebuildEnds(h)
    BY <1>2, <2>5 DEF ConsumeEnds, RebuildEnds, TypeOK, PolicyState
  <2>6. CASE Shutdown
    BY <2>6 DEF Shutdown, AcloseUnwired, Aclose, AcloseClients, AcloseEnds, ServeReturns
  <2>7. CASE WebServer
    BY <1>2, <2>7 DEF WebServer, WebStops, WebDrained, StreamsClose, PolicyState
  <2> QED
    BY <1>2, <2>1, <2>2, <2>3, <2>4, <2>5, <2>6, <2>7, QuietStep DEF StartStep
<1> QED
  BY <1>1, <1>2

(* A task holds a bundle only between building it and closing what it replaced. *)
LEMMA BundlesNext == TypeOK /\ PcOk /\ Bundles /\ Next => Bundles'
<1> SUFFICES ASSUME TypeOK, PcOk, Bundles, Next PROVE Bundles'
  OBVIOUS
<1>t. Start \in Task /\ Handler \subseteq Task /\ Start \notin Handler
  BY NameAssumption DEF Task
<1> USE <1>t, NameAssumption DEF db, reading, runtime, watch, shutdown, ghosts, TypeOK, PcOk, Reader, Wired, Bundles
<1>1. ASSUME NEW t \in Task, ReadServers(t) PROVE Bundles'
  BY <1>1 DEF ReadServers
<1>2. ASSUME NEW t \in Task, NEW s \in Server, ReadFolders(t, s) PROVE Bundles'
  BY <1>2 DEF ReadFolders
<1>3. ASSUME NEW t \in Task, ReadRaises(t) PROVE Bundles'
  BY <1>3 DEF ReadRaises
<1>4. ASSUME NEW t \in Task, ReadPolicy(t) PROVE Bundles'
  BY <1>4 DEF ReadPolicy
<1>5. CASE StartCall
  BY <1>5 DEF StartCall
<1>6. ASSUME NEW b \in Bundle, StartWire(b) PROVE Bundles'
  BY <1>6 DEF StartWire, Install, ReadDone
<1>7. ASSUME NEW fits \in BOOLEAN, StartAttach(fits) PROVE Bundles'
  BY <1>7 DEF StartAttach
<1>8. CASE ConsumeEnds
  BY <1>8 DEF ConsumeEnds
<1>9. ASSUME NEW h \in Handler, Request(h) PROVE Bundles'
  BY <1>9 DEF Request, WriteServer, WritePolicy, Recheck
<1>10. ASSUME NEW h \in Handler, Refused(h) \/ EnterRebuild(h) PROVE Bundles'
  BY <1>10 DEF Refused, EnterRebuild
<1>11. ASSUME NEW h \in Handler, AcquireLock(h) PROVE Bundles'
  BY <1>11 DEF AcquireLock
<1>12. ASSUME NEW h \in Handler, NEW b \in Bundle, RebuildBuild(h, b) PROVE Bundles'
  BY <1>12 DEF RebuildBuild, ReadDone, Swap, Install, Repoint
<1>13. ASSUME NEW h \in Handler, NEW fits \in BOOLEAN, RebuildSwap(h, fits) PROVE Bundles'
  BY <1>13 DEF RebuildSwap, Swap, Install, Repoint
<1>14. ASSUME NEW h \in Handler, RebuildEnds(h) PROVE Bundles'
  BY <1>14 DEF RebuildEnds
<1>15. CASE Shutdown \/ WebServer
  BY <1>15 DEF Shutdown, AcloseUnwired, Aclose, AcloseClients, AcloseEnds, ServeReturns,
     WebServer, WebStops, WebDrained, StreamsClose
<1> QED
  BY <1>1, <1>2, <1>3, <1>4, <1>5, <1>6, <1>7, <1>8, <1>9, <1>10, <1>11, <1>12, <1>13, <1>14, <1>15
     DEF Next, StartStep, Rebuild

(* The clients in force stay open and no others are left behind. *)
LEMMA ClientsNext == TypeOK /\ PcOk /\ Bundles /\ ClientsExact /\ Next => ClientsExact'
<1> SUFFICES ASSUME TypeOK, PcOk, Bundles, ClientsExact, Next PROVE ClientsExact'
  OBVIOUS
<1>t. Start \in Task /\ Handler \subseteq Task /\ Start \notin Handler
  BY NameAssumption DEF Task
<1> USE <1>t, NameAssumption DEF db, reading, runtime, watch, shutdown, ghosts, TypeOK, PcOk, Reader, Wired, Bundles, ClientsExact
<1>1. ASSUME NEW t \in Task, ReadServers(t) PROVE ClientsExact'
  BY <1>1 DEF ReadServers
<1>2. ASSUME NEW t \in Task, NEW s \in Server, ReadFolders(t, s) PROVE ClientsExact'
  BY <1>2 DEF ReadFolders
<1>3. ASSUME NEW t \in Task, ReadRaises(t) PROVE ClientsExact'
  <2>1. UNCHANGED <<clients, open, mine, watcher, stop>> /\ pc[t] = "folders"
    BY <1>3 DEF ReadRaises
  <2>1a. t \in Handler => mine[t] = NoBundle
    BY <2>1
  <2>2. lock' = lock \/ (lock = t /\ lock' = NoHandler)
    BY <1>3 DEF ReadRaises, Task
  <2> QED
    BY <2>1, <2>1a, <2>2
<1>4. ASSUME NEW t \in Task, ReadPolicy(t) PROVE ClientsExact'
  BY <1>4 DEF ReadPolicy
<1>5. CASE StartCall
  BY <1>5 DEF StartCall
<1>6. ASSUME NEW b \in Bundle, StartWire(b) PROVE ClientsExact'
  BY <1>6 DEF StartWire, Install, ReadDone
<1>7. ASSUME NEW fits \in BOOLEAN, StartAttach(fits) PROVE ClientsExact'
  BY <1>7 DEF StartAttach
<1>8. CASE ConsumeEnds
  BY <1>8 DEF ConsumeEnds
<1>9. ASSUME NEW h \in Handler, Request(h) PROVE ClientsExact'
  BY <1>9 DEF Request, WriteServer, WritePolicy, Recheck
<1>10. ASSUME NEW h \in Handler, Refused(h) \/ EnterRebuild(h) PROVE ClientsExact'
  BY <1>10 DEF Refused, EnterRebuild
<1>11. ASSUME NEW h \in Handler, AcquireLock(h) PROVE ClientsExact'
  BY <1>11 DEF AcquireLock
<1>12. ASSUME NEW h \in Handler, NEW b \in Bundle, RebuildBuild(h, b) PROVE ClientsExact'
  <2> SUFFICES ASSUME stop = "no", Wired
               PROVE  /\ clients' \in open'
                      /\ \A c \in open' : c = clients' \/ \E g \in Handler : mine'[g] = c /\ lock' = g
                      /\ \A g \in Handler : mine'[g] # clients'
    BY <1>12 DEF RebuildBuild, Swap, Install, Repoint
  <2>1. /\ lock = h /\ lock' = h /\ mine[h] = NoBundle /\ open' = open \cup {b}
        /\ b \notin open /\ b # clients /\ \A g \in Handler : mine[g] # b
    BY <1>12 DEF RebuildBuild, ReadDone, Swap, Install, Repoint, Unused
  <2>2. \A c \in open : c = clients
    BY <2>1
  <2>3. CASE WatchPaths(read[h]) = {}
    <3>1. clients' = b /\ mine' = [mine EXCEPT ![h] = clients]
      BY <1>12, <2>3 DEF RebuildBuild, Swap, Install, Repoint
    <3> QED
      BY <2>1, <2>2, <3>1
  <2>4. CASE WatchPaths(read[h]) # {}
    <3>1. clients' = clients /\ mine' = [mine EXCEPT ![h] = b]
      BY <1>12, <2>4 DEF RebuildBuild
    <3> QED
      BY <2>1, <2>2, <3>1
  <2> QED
    BY <2>3, <2>4
<1>13. ASSUME NEW h \in Handler, NEW fits \in BOOLEAN, RebuildSwap(h, fits) PROVE ClientsExact'
  BY <1>13 DEF RebuildSwap, Swap, Install, Repoint
<1>14. ASSUME NEW h \in Handler, RebuildEnds(h) PROVE ClientsExact'
  BY <1>14 DEF RebuildEnds
<1>15. CASE Shutdown \/ WebServer
  BY <1>15 DEF Shutdown, AcloseUnwired, Aclose, AcloseClients, AcloseEnds, ServeReturns,
     WebServer, WebStops, WebDrained, StreamsClose
<1> QED
  BY <1>1, <1>2, <1>3, <1>4, <1>5, <1>6, <1>7, <1>8, <1>9, <1>10, <1>11, <1>12, <1>13, <1>14, <1>15
     DEF Next, StartStep, Rebuild

(* Shutdown closes the engine's bundle, and each rebuild the one it holds. *)
LEMMA AccountedNext == TypeOK /\ PcOk /\ Bundles /\ Accounted /\ Next => Accounted'
<1> SUFFICES ASSUME TypeOK, PcOk, Bundles, Accounted, Next PROVE Accounted'
  OBVIOUS
<1>t. Start \in Task /\ Handler \subseteq Task /\ Start \notin Handler
  BY NameAssumption DEF Task
<1> USE <1>t, NameAssumption DEF db, reading, runtime, watch, shutdown, ghosts, TypeOK, PcOk, Reader, Wired,
     Emptied, Bundles, Accounted
<1>1. ASSUME NEW t \in Task, ReadServers(t) PROVE Accounted'
  BY <1>1 DEF ReadServers
<1>2. ASSUME NEW t \in Task, NEW s \in Server, ReadFolders(t, s) PROVE Accounted'
  BY <1>2 DEF ReadFolders
<1>3. ASSUME NEW t \in Task, ReadRaises(t) PROVE Accounted'
  <2>1. UNCHANGED <<clients, open, mine, watcher, stop, late>> /\ pc[t] = "folders"
    BY <1>3 DEF ReadRaises
  <2>2. t \in Handler => mine[t] = NoBundle
    BY <2>1
  <2>3. lock' = lock \/ (lock = t /\ lock' = NoHandler)
    BY <1>3 DEF ReadRaises, Task
  <2> QED
    BY <2>1, <2>2, <2>3
<1>4. ASSUME NEW t \in Task, ReadPolicy(t) PROVE Accounted'
  BY <1>4 DEF ReadPolicy
<1>5. CASE StartCall
  BY <1>5 DEF StartCall
<1>6. ASSUME NEW b \in Bundle, StartWire(b) PROVE Accounted'
  BY <1>6 DEF StartWire, Install, ReadDone
<1>7. ASSUME NEW fits \in BOOLEAN, StartAttach(fits) PROVE Accounted'
  BY <1>7 DEF StartAttach
<1>8. CASE ConsumeEnds
  BY <1>8 DEF ConsumeEnds
<1>9. ASSUME NEW h \in Handler, Request(h) PROVE Accounted'
  BY <1>9 DEF Request, WriteServer, WritePolicy, Recheck
<1>10. ASSUME NEW h \in Handler, Refused(h) \/ EnterRebuild(h) PROVE Accounted'
  BY <1>10 DEF Refused, EnterRebuild
<1>11. ASSUME NEW h \in Handler, AcquireLock(h) PROVE Accounted'
  BY <1>11 DEF AcquireLock
<1>12. ASSUME NEW h \in Handler, NEW b \in Bundle, RebuildBuild(h, b) PROVE Accounted'
  <2>1. /\ lock = h /\ lock' = h /\ mine[h] = NoBundle /\ open' = open \cup {b}
        /\ UNCHANGED <<stop, watcher>>
    BY <1>12 DEF RebuildBuild, ReadDone, Swap, Install, Repoint
  <2>2. CASE WatchPaths(read[h]) = {}
    <3>1. clients' = b /\ mine' = [mine EXCEPT ![h] = clients]
      BY <1>12, <2>2 DEF RebuildBuild, Swap, Install, Repoint
    <3>2. Emptied => late'
      BY <1>12, <2>2 DEF RebuildBuild, Swap, Install, Repoint
    <3>3. ASSUME Wired, stop \in {"no", "debouncer"}, NEW c \in open \cup {b}
          PROVE  c = clients' \/ \E g \in Handler : mine'[g] = c /\ lock' = g
      <4>1. c = b \/ c = clients \/ mine[lock] = c
        BY <3>3
      <4> QED
        BY <2>1, <3>1, <4>1
    <3> QED
      BY <2>1, <3>2, <3>3
  <2>3. CASE WatchPaths(read[h]) # {}
    <3>1. clients' = clients /\ mine' = [mine EXCEPT ![h] = b] /\ late' = late
      BY <1>12, <2>3 DEF RebuildBuild
    <3>2. \A c \in open : ~ \E g \in Handler : mine[g] = c /\ lock = g
      BY <2>1
    <3>3. mine'[h] = b /\ lock' = h
      BY <2>1, <3>1
    <3>4. ASSUME Wired, stop \in {"no", "debouncer"}, NEW c \in open \cup {b}
          PROVE  c = clients' \/ \E g \in Handler : mine'[g] = c /\ lock' = g
      BY <3>1, <3>2, <3>3, <3>4
    <3>5. ASSUME Emptied, ~late, NEW c \in open \cup {b}
          PROVE  \E g \in Handler : mine'[g] = c /\ lock' = g
      BY <3>2, <3>3, <3>5
    <3>6. /\ (Wired /\ stop \in {"no", "debouncer"})' => Wired /\ stop \in {"no", "debouncer"}
          /\ (Emptied /\ ~late)' => Emptied /\ ~late
      BY <2>1, <3>1
    <3> HIDE DEF Emptied, Wired
    <3> QED
      BY <2>1, <3>4, <3>5, <3>6
  <2> QED
    BY <2>2, <2>3
<1>13. ASSUME NEW h \in Handler, NEW fits \in BOOLEAN, RebuildSwap(h, fits) PROVE Accounted'
  <2>1. lock = h /\ lock' = h /\ clients' = mine[h] /\ mine'[h] = clients /\ UNCHANGED <<open, stop, watcher>>
    BY <1>13 DEF RebuildSwap, Swap, Install, Repoint
  <2>2. Emptied => late'
    BY <1>13 DEF RebuildSwap, Swap
  <2>3. ASSUME Wired, stop \in {"no", "debouncer"}, NEW c \in open
        PROVE  c = clients' \/ \E g \in Handler : mine'[g] = c /\ lock' = g
    BY <2>1, <2>3
  <2> QED
    BY <2>1, <2>2, <2>3
<1>14. ASSUME NEW h \in Handler, RebuildEnds(h) PROVE Accounted'
  BY <1>14 DEF RebuildEnds
<1>15. CASE Shutdown \/ WebServer
  BY <1>15 DEF Shutdown, AcloseUnwired, Aclose, AcloseClients, AcloseEnds, ServeReturns,
     WebServer, WebStops, WebDrained, StreamsClose
<1> QED
  BY <1>1, <1>2, <1>3, <1>4, <1>5, <1>6, <1>7, <1>8, <1>9, <1>10, <1>11, <1>12, <1>13, <1>14, <1>15
     DEF Next, StartStep, Rebuild

(* The web server ends after its requests, and aclose leaves a stopped engine. *)
LEMMA WoundUpNext == TypeOK /\ PcOk /\ WoundUp /\ Next => WoundUp'
<1> SUFFICES ASSUME TypeOK, PcOk, WoundUp, Next PROVE WoundUp'
  OBVIOUS
<1>t. Start \in Task /\ Handler \subseteq Task /\ Start \notin Handler
  BY NameAssumption DEF Task
<1> USE <1>t DEF db, reading, runtime, watch, shutdown, ghosts, TypeOK, PcOk, Reader, Wired, Emptied, WoundUp
<1>1. ASSUME NEW t \in Task, ReadServers(t) PROVE WoundUp'
  BY <1>1 DEF ReadServers
<1>2. ASSUME NEW t \in Task, NEW s \in Server, ReadFolders(t, s) PROVE WoundUp'
  BY <1>2 DEF ReadFolders
<1>3. ASSUME NEW t \in Task, ReadRaises(t) PROVE WoundUp'
  BY <1>3 DEF ReadRaises
<1>4. ASSUME NEW t \in Task, ReadPolicy(t) PROVE WoundUp'
  BY <1>4 DEF ReadPolicy
<1>5. CASE StartCall
  BY <1>5 DEF StartCall
<1>6. ASSUME NEW b \in Bundle, StartWire(b) PROVE WoundUp'
  BY <1>6 DEF StartWire, Install, ReadDone
<1>7. ASSUME NEW fits \in BOOLEAN, StartAttach(fits) PROVE WoundUp'
  BY <1>7 DEF StartAttach
<1>8. CASE ConsumeEnds
  BY <1>8 DEF ConsumeEnds
<1>9. ASSUME NEW h \in Handler, Request(h) PROVE WoundUp'
  <2>1. web = "serving" /\ pc' = [pc EXCEPT ![h] = "committed"] /\ UNCHANGED <<stop, web, state, late, watcher>>
    BY <1>9 DEF Request, WriteServer, WritePolicy, Recheck, Serving
  <2> QED
    BY <2>1
<1>10. ASSUME NEW h \in Handler, Refused(h) \/ EnterRebuild(h) PROVE WoundUp'
  BY <1>10 DEF Refused, EnterRebuild
<1>11. ASSUME NEW h \in Handler, AcquireLock(h) PROVE WoundUp'
  BY <1>11 DEF AcquireLock
<1>12. ASSUME NEW h \in Handler, NEW b \in Bundle, RebuildBuild(h, b) PROVE WoundUp'
  BY <1>12 DEF RebuildBuild, ReadDone, Swap, Install, Repoint
<1>13. ASSUME NEW h \in Handler, NEW fits \in BOOLEAN, RebuildSwap(h, fits) PROVE WoundUp'
  BY <1>13 DEF RebuildSwap, Swap, Install, Repoint
<1>14. ASSUME NEW h \in Handler, RebuildEnds(h) PROVE WoundUp'
  BY <1>14 DEF RebuildEnds
<1>15. CASE Shutdown \/ WebServer
  BY <1>15 DEF Shutdown, AcloseUnwired, Aclose, AcloseClients, AcloseEnds, ServeReturns,
     WebServer, WebStops, WebDrained, StreamsClose, Told
<1> QED
  BY <1>1, <1>2, <1>3, <1>4, <1>5, <1>6, <1>7, <1>8, <1>9, <1>10, <1>11, <1>12, <1>13, <1>14, <1>15
     DEF Next, StartStep, Rebuild

(* The invariant holds before anything has run. *)
LEMMA InitInv == Init => IInv
<1> SUFFICES ASSUME Init PROVE IInv
  OBVIOUS
<1>t. Start \in Task /\ Handler \subseteq Task /\ Start \notin Handler /\ (\A h \in Handler : pc[h] = "idle")
      /\ pc[Start] = "init" /\ ~Wired
  BY NameAssumption DEF Task, Init, Wired
<1>1. PcOk /\ FreshRebuild /\ FreshStart /\ FreshConfig
  BY <1>t DEF PcOk, FreshRebuild, FreshStart, FreshConfig, Underway, Reader
<1>2. TodoOk /\ PolicyRebuild /\ PolicyStart /\ PolicyState
  BY <1>t DEF Init, TodoOk, PolicyRebuild, PolicyStart, PolicyState
<1>3. StartLocal /\ RootsMatch /\ BlockedExplained /\ ClientsExact
  BY <1>t DEF Init, StartLocal, RootsMatch, BlockedExplained, ClientsExact
<1>4. Bundles /\ Accounted /\ WoundUp
  BY <1>t DEF Init, Bundles, Accounted, WoundUp, Emptied
<1> QED
  BY <1>1, <1>2, <1>3, <1>4, TypeInit DEF IInv

(* Stuttering changes no part of the invariant. *)
LEMMA StutterInv == IInv /\ UNCHANGED vars => IInv'
<1> SUFFICES ASSUME IInv, UNCHANGED vars PROVE IInv'
  OBVIOUS
<1> USE DEF IInv, vars, db, reading, runtime, watch, shutdown, ghosts
<1>1. TypeOK' /\ PcOk' /\ TodoOk'
  BY DEF TypeOK, PcOk, TodoOk, Wired
<1>2. FreshRebuild' /\ FreshStart' /\ FreshConfig'
  BY DEF FreshRebuild, FreshStart, FreshConfig, Fresh, Excused, Pending, Owing, Underway, Readable, Snapshot, Wired
<1>3. PolicyRebuild' /\ PolicyStart' /\ PolicyState'
  BY DEF PolicyRebuild, PolicyStart, PolicyState, Excused, Pending, Owing, Underway, Readable, Attached, Wired
<1>4. StartLocal' /\ RootsMatch' /\ BlockedExplained'
  BY DEF StartLocal, RootsMatch, BlockedExplained, Attached, Wired
<1>5. Bundles' /\ ClientsExact' /\ Accounted' /\ WoundUp'
  BY DEF Bundles, ClientsExact, Accounted, WoundUp, Emptied, Wired
<1> QED
  BY <1>1, <1>2, <1>3, <1>4, <1>5

(* Every step preserves the invariant. *)
LEMMA NextInv == IInv /\ [Next]_vars => IInv'
<1>1. ASSUME IInv, Next PROVE IInv'
  BY <1>1, TypeNext, PcNext, TodoNext, FreshRebuildNext, FreshStartNext, FreshConfigNext,
     PolicyRebuildNext, PolicyStartNext, PolicyStateNext, StartLocalNext, RootsNext,
     BlockedNext, BundlesNext, ClientsNext, AccountedNext, WoundUpNext DEF IInv
<1> QED
  BY <1>1, StutterInv

(* The invariant holds in every reachable state. *)
THEOREM Invariance == Spec => []IInv
BY InitInv, NextInv, PTL DEF Spec

(* The state is always of the declared types. *)
THEOREM TypeCorrect == Spec => []TypeOK
BY Invariance, PTL DEF IInv

(* However many requests write and rebuild at once, and whatever mixture   *)
(* of two configurations a read returned, the engine ends up running what  *)
(* the database says.                                                      *)
THEOREM Convergence == Spec => []Converged
<1>1. IInv => Converged
  BY DEF IInv, FreshConfig, Excused, Pending, Converged, Settled
<1> QED
  BY <1>1, Invariance, PTL

(* Switching inotify_gate off ends up with a running engine. *)
THEOREM GateOffUnblocks == Spec => []OffUnblocks
<1>1. IInv => OffUnblocks
  BY DEF IInv, PolicyState, Excused, Pending, OffUnblocks, Settled
<1> QED
  BY <1>1, Invariance, PTL

(* Once start has attached, what is watched follows the configuration and  *)
(* the state, unless a rebuild overtook start.                             *)
THEOREM RootsFollow == Spec => []RootsMatch
BY Invariance, PTL DEF IInv

(* A blocked engine can always show the measurement that blocked it. *)
THEOREM BlockedHasReason == Spec => []BlockedExplained
BY Invariance, PTL DEF IInv

(* Before shutdown, rebuilds neither close the clients in use nor leak old *)
(* ones.                                                                   *)
THEOREM ClientsAreExact == Spec => []ClientsExact
BY Invariance, PTL DEF IInv

(* serve_web and serve_headless return with the engine stopped and every    *)
(* client closed, also if aclose ran while rebuilds were on their way;     *)
(* unless something was installed after aclose had closed the clients.     *)
THEOREM ReleasedAtTheEnd == Spec => []Released
<1>1. ASSUME IInv PROVE Released
  <2> SUFFICES ASSUME stop = "done", ~late PROVE state = "stopped" /\ open = {}
    BY DEF Released
  <2>1. state = "stopped"
    BY <1>1 DEF IInv, WoundUp
  <2>2. (\A h \in Handler : pc[h] = "idle") \/ ~Wired
    BY <1>1 DEF IInv, WoundUp
  <2>3. CASE \A h \in Handler : pc[h] = "idle"
    <3>1. \A h \in Handler : mine[h] = NoBundle
      BY <1>1, <2>3 DEF IInv, Bundles
    <3> QED
      BY <1>1, <2>1, <3>1, NameAssumption DEF IInv, Accounted, Emptied, TypeOK
  <2>4. CASE ~Wired
    BY <1>1, <2>1, <2>4 DEF IInv, Bundles
  <2> QED
    BY <2>2, <2>3, <2>4
<1> QED
  BY <1>1, Invariance, PTL
===============================================================================
