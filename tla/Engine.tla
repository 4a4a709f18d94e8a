------------------------------- MODULE Engine -------------------------------
(***************************************************************************)
(* engine.py with its callers: the start task, the web handlers that       *)
(* commit a configuration change and then call rebuild, and the shutdown   *)
(* that calls aclose.  All run on one asyncio loop; an action is the code  *)
(* a task runs between two suspension points, or one database session of   *)
(* a worker thread (asyncio.to_thread).                                    *)
(*                                                                         *)
(* The database is two tables read in separate sessions: the row of each   *)
(* server and the watched paths of its enabled folders.  A row is opaque   *)
(* (name, url, debounce policy, ...); Disabled stands for a server that is *)
(* disabled or does not exist.  A bundle is one dict of HTTP clients as    *)
(* _build_adapters returns it.                                             *)
(***************************************************************************)
EXTENDS FiniteSets

CONSTANTS Server, Path, Row,
          Disabled,        \* the row of a server that is not enabled
          Corrupt,         \* rows whose secret cannot be decrypted
          Unsupported,     \* rows create_adapter rejects
          Handler,         \* web requests that can be in flight together
          Bundle,          \* names for client bundles
          NoBundle, NoHandler, Start,
          Headless         \* serve_headless rather than serve_web

ASSUME RowAssumption == /\ Disabled \in Row \ (Corrupt \cup Unsupported)
                        /\ Corrupt \cup Unsupported \subseteq Row
ASSUME NameAssumption == /\ NoBundle \notin Bundle
                         /\ NoHandler \notin Handler
                         /\ Start \notin Handler
                         /\ Headless \in BOOLEAN

Task == Handler \cup {Start}
Config == [srv : [Server -> Row], fold : [Server -> SUBSET Path]]
Empty == [srv |-> [s \in Server |-> Disabled], fold |-> [s \in Server |-> {}]]

Point == {"init", "idle", "committed", "waiting", "servers", "folders",
          "policy", "limit", "closing", "consuming", "done"}

VARIABLES srv, fold, policy,   \* the database: servers, folders, inotify_gate
          pc,                  \* where each task is suspended
          read,                \* what build_runtime_config has read so far
          todo,                \* the servers whose folders it has yet to read
          pol,                 \* the policy _gate_ok has read
          mine,                \* the bundle a task has built, or has to close
          lock,                \* self._lock
          state, config, adapters, policies, clients,   \* self.*
          watcher, roots, watch_limit,                  \* self._watcher, ...
          open,                \* bundles whose clients are not closed
          stop,                \* progress of the shutdown
          web,                 \* the web server; "held": a browser keeps a
                               \* stream open and so the server from ending
          lapse,               \* see Swap and Refused
          late                 \* see Swap, StartWire and StartAttach
db == <<srv, fold, policy>>
reading == <<read, todo, pol>>
runtime == <<config, adapters, policies, clients>>
watch == <<watcher, roots, watch_limit>>
shutdown == <<stop, web>>
ghosts == <<lapse, late>>
vars == <<db, pc, reading, mine, lock, state, runtime, watch, open, shutdown, ghosts>>

Enabled(rows) == {s \in Server : rows[s] # Disabled}
WatchPaths(c) == UNION {c.fold[s] : s \in Server}
AdaptersOf(c) == [s \in Server |-> IF c.srv[s] \in Unsupported THEN Disabled ELSE c.srv[s]]
Wired == watcher # "none"   \* watcher, dispatcher and debouncer are set in one step
Unused == Bundle \ (open \cup {clients} \cup {mine[t] : t \in Task})
Attached == pc[Start] \in {"consuming", "done"}
Emptied == stop \in {"clients", "waiting", "done"}   \* aclose has closed the clients

Init == /\ srv \in [Server -> Row]
        /\ fold \in [Server -> SUBSET Path]
        /\ policy \in {"enforce", "off"}
        /\ pc = [t \in Task |-> IF t = Start THEN "init" ELSE "idle"]
        /\ read = [t \in Task |-> Empty]
        /\ todo = [t \in Task |-> {}]
        /\ pol = [t \in Task |-> "enforce"]
        /\ mine = [t \in Task |-> NoBundle]
        /\ lock = NoHandler
        /\ state = "stopped"
        /\ config = Empty
        /\ adapters = Empty.srv
        /\ policies = Empty.srv
        /\ clients = NoBundle
        /\ watcher = "none"
        /\ roots = {}
        /\ watch_limit = "none"
        /\ open = {}
        /\ stop = "no"
        /\ web = IF Headless THEN "ended" ELSE "serving"
        /\ lapse = FALSE
        /\ late = FALSE

----------------------------------------------------------------------------
(* Faults: what the properties are there to notice.  Each is one           *)
(* definition of the model with a bug in it; no specification uses them.   *)

GateIgnoresPolicy(t, fits) == fits

RepointWhenBlocked(c, limit, ok) ==
    /\ watch_limit' = limit
    /\ roots' = WatchPaths(c)
    /\ state' = IF ok THEN "running" ELSE "blocked"

RepointUnmeasured(c, limit, ok) ==
    /\ watch_limit' = watch_limit
    /\ roots' = IF ok THEN WatchPaths(c) ELSE {}
    /\ state' = IF ok THEN "running" ELSE "blocked"

RepointWrongField(c, limit, ok) ==
    /\ watch_limit' = limit
    /\ roots' = IF ok THEN WatchPaths(c) ELSE {}
    /\ state' = IF ok THEN "running" ELSE limit

AcquireUnlocked(h) ==
    /\ pc[h] = "waiting"
    /\ lock' = h
    /\ pc' = [pc EXCEPT ![h] = "servers"]
    /\ UNCHANGED <<db, reading, mine, state, runtime, watch, open, shutdown, ghosts>>

RebuildEndsLeaking(h) ==
    /\ pc[h] = "closing"
    /\ mine' = [mine EXCEPT ![h] = NoBundle]
    /\ lock' = NoHandler
    /\ pc' = [pc EXCEPT ![h] = "idle"]
    /\ UNCHANGED <<db, reading, state, runtime, watch, open, shutdown, ghosts>>

RebuildEndsUnlessClosed(h) ==
    /\ pc[h] = "closing"
    /\ open' = IF stop = "no" THEN open \ {mine[h]} ELSE open
    /\ mine' = [mine EXCEPT ![h] = NoBundle]
    /\ lock' = NoHandler
    /\ pc' = [pc EXCEPT ![h] = "idle"]
    /\ UNCHANGED <<db, reading, state, runtime, watch, shutdown, ghosts>>

ReadRaisesLocked(t) ==
    /\ pc[t] = "folders"
    /\ \E s \in todo[t] : read[t].srv[s] \in Corrupt
    /\ pc' = [pc EXCEPT ![t] = IF t = Start THEN "done" ELSE "idle"]
    /\ read' = [read EXCEPT ![t] = Empty]
    /\ todo' = [todo EXCEPT ![t] = {}]
    /\ UNCHANGED <<db, pol, mine, lock, state, runtime, watch, open, shutdown, ghosts>>

AcloseUncancelled ==
    /\ stop = "no"
    /\ ~Wired
    /\ pc[Start] # "init"
    /\ state' = "stopped"
    /\ stop' = "waiting"
    /\ web' = IF web = "serving" THEN "winding" ELSE web
    /\ UNCHANGED <<db, pc, reading, mine, lock, runtime, watch, open, ghosts>>

----------------------------------------------------------------------------
(* build_runtime_config in its worker thread: one session for the servers, *)
(* then one per enabled server for its folders.  Commits may fall between. *)

ReadServers(t) ==
    /\ pc[t] = "servers"
    /\ read' = [read EXCEPT ![t] = [Empty EXCEPT !.srv = srv]]
    /\ todo' = [todo EXCEPT ![t] = Enabled(srv)]
    /\ pc' = [pc EXCEPT ![t] = "folders"]
    /\ UNCHANGED <<db, pol, mine, lock, state, runtime, watch, open, shutdown, ghosts>>

ReadFolders(t, s) ==
    /\ pc[t] = "folders"
    /\ s \in todo[t]
    /\ read[t].srv[s] \notin Corrupt
    /\ read' = [read EXCEPT ![t].fold[s] = fold[s]]
    /\ todo' = [todo EXCEPT ![t] = @ \ {s}]
    /\ UNCHANGED <<db, pc, pol, mine, lock, state, runtime, watch, open, shutdown, ghosts>>

ReadDone(t) == pc[t] = "folders" /\ todo[t] = {}

(* resolve_secret raises SecretDecryptError: the whole read is lost. *)
ReadRaises(t) ==
    /\ pc[t] = "folders"
    /\ \E s \in todo[t] : read[t].srv[s] \in Corrupt
    /\ pc' = [pc EXCEPT ![t] = IF t = Start THEN "done" ELSE "idle"]
    /\ lock' = IF t = Start THEN lock ELSE NoHandler
    /\ read' = [read EXCEPT ![t] = Empty]
    /\ todo' = [todo EXCEPT ![t] = {}]
    /\ UNCHANGED <<db, pol, mine, state, runtime, watch, open, shutdown, ghosts>>

(* _gate_ok: nothing to watch passes without a suspension; otherwise the   *)
(* policy is read first and the watch limit is measured after it.          *)
ReadPolicy(t) ==
    /\ pc[t] = "policy"
    /\ pol' = [pol EXCEPT ![t] = policy]
    /\ pc' = [pc EXCEPT ![t] = "limit"]
    /\ UNCHANGED <<db, read, todo, mine, lock, state, runtime, watch, open, shutdown, ghosts>>

GateOk(t, fits) == pol[t] = "off" \/ fits

(* Configuration c with clients b comes into force: dispatcher, debouncer. *)
Install(c, b) ==
    /\ config' = c
    /\ adapters' = AdaptersOf(c)
    /\ policies' = c.srv
    /\ clients' = b

(* The gate's verdict on c: watch its paths, or nothing. *)
Repoint(c, limit, ok) ==
    /\ watch_limit' = limit
    /\ roots' = IF ok THEN WatchPaths(c) ELSE {}
    /\ state' = IF ok THEN "running" ELSE "blocked"

----------------------------------------------------------------------------
(* start *)

StartCall ==
    /\ pc[Start] = "init"
    /\ pc' = [pc EXCEPT ![Start] = "servers"]
    /\ state' = "starting"
    /\ UNCHANGED <<db, reading, mine, lock, runtime, watch, open, shutdown, ghosts>>

(* The read has returned: wire the pipeline.  Without paths to watch the   *)
(* gate passes at once and start goes straight on to its consume loop.     *)
StartWire(b) ==
    LET idle == WatchPaths(read[Start]) = {} IN
    /\ ReadDone(Start)
    /\ b \in Unused
    /\ Install(read[Start], b)
    /\ open' = open \cup {b}
    /\ watcher' = "open"
    /\ pc' = [pc EXCEPT ![Start] = IF idle THEN "consuming" ELSE "policy"]
    /\ state' = IF idle THEN "running" ELSE state
    /\ read' = [read EXCEPT ![Start] = IF idle THEN Empty ELSE @]
    /\ late' = (late \/ Emptied)
    /\ UNCHANGED <<db, todo, pol, mine, lock, roots, watch_limit, shutdown, lapse>>

(* The gate has answered: attach the roots of the configuration start read *)
(* before the gate, or park (web) or give up (headless).                   *)
StartAttach(fits) ==
    LET ok == GateOk(Start, fits) IN
    /\ pc[Start] = "limit"
    /\ watch_limit' = IF fits THEN "ok" ELSE "short"
    /\ pc' = [pc EXCEPT ![Start] = IF Headless /\ ~ok THEN "done" ELSE "consuming"]
    /\ roots' = IF Headless /\ ~ok THEN roots
                ELSE IF ok THEN WatchPaths(read[Start]) ELSE {}
    /\ state' = IF ok THEN "running" ELSE "blocked"
    /\ read' = [read EXCEPT ![Start] = Empty]
    /\ pol' = [pol EXCEPT ![Start] = "enforce"]
    /\ late' = (late \/ Emptied)
    /\ UNCHANGED <<db, todo, mine, lock, runtime, watcher, open, shutdown, lapse>>

(* The event stream of a closed watcher ends, and with it the start task. *)
ConsumeEnds ==
    /\ pc[Start] = "consuming"
    /\ watcher = "closed"
    /\ pc' = [pc EXCEPT ![Start] = "done"]
    /\ UNCHANGED <<db, reading, mine, lock, state, runtime, watch, open, shutdown, ghosts>>

----------------------------------------------------------------------------
(* A web handler: commit, then rebuild_engine.  start is scheduled before  *)
(* the web server.                                                         *)

Serving == web = "serving" /\ pc[Start] # "init"

(* Every write of web/writes.py is one transaction on one server: its row, *)
(* its folders, or both.                                                   *)
WriteServer(h, s, row, paths) ==
    /\ Serving
    /\ pc[h] = "idle"
    /\ <<row, paths>> # <<srv[s], fold[s]>>
    /\ srv' = [srv EXCEPT ![s] = row]
    /\ fold' = [fold EXCEPT ![s] = paths]
    /\ pc' = [pc EXCEPT ![h] = "committed"]
    /\ UNCHANGED <<policy, reading, mine, lock, state, runtime, watch, open, shutdown, ghosts>>

(* PUT /api/settings/inotify-gate *)
WritePolicy(h, value) ==
    /\ Serving
    /\ pc[h] = "idle"
    /\ policy' = value
    /\ pc' = [pc EXCEPT ![h] = "committed"]
    /\ UNCHANGED <<srv, fold, reading, mine, lock, state, runtime, watch, open, shutdown, ghosts>>

(* POST /api/engine/recheck: a rebuild with no write. *)
Recheck(h) ==
    /\ Serving
    /\ pc[h] = "idle"
    /\ pc' = [pc EXCEPT ![h] = "committed"]
    /\ UNCHANGED <<db, reading, mine, lock, state, runtime, watch, open, shutdown, ghosts>>

(* rebuild raises RuntimeError before start has wired the pipeline, and    *)
(* rebuild_engine swallows it: nobody rebuilds for this commit.            *)
Refused(h) ==
    /\ pc[h] = "committed"
    /\ ~Wired
    /\ pc' = [pc EXCEPT ![h] = "idle"]
    /\ lapse' = TRUE
    /\ UNCHANGED <<db, reading, mine, lock, state, runtime, watch, open, shutdown, late>>

EnterRebuild(h) ==
    /\ pc[h] = "committed"
    /\ Wired
    /\ pc' = [pc EXCEPT ![h] = "waiting"]
    /\ UNCHANGED <<db, reading, mine, lock, state, runtime, watch, open, shutdown, ghosts>>

AcquireLock(h) ==
    /\ pc[h] = "waiting"
    /\ lock = NoHandler
    /\ lock' = h
    /\ pc' = [pc EXCEPT ![h] = "servers"]
    /\ UNCHANGED <<db, reading, mine, state, runtime, watch, open, shutdown, ghosts>>

(* The synchronous swap block, b being the bundle built for this rebuild.  *)
(* lapse is a history variable: it records that a rebuild did not have the *)
(* last word, because start has still to attach what it read earlier; and  *)
(* late, that something was installed after aclose had closed the clients. *)
Swap(h, b, limit, ok) ==
    /\ Install(read[h], b)
    /\ mine' = [mine EXCEPT ![h] = clients]
    /\ Repoint(read[h], limit, ok)
    /\ pc' = [pc EXCEPT ![h] = "closing"]
    /\ read' = [read EXCEPT ![h] = Empty]
    /\ pol' = [pol EXCEPT ![h] = "enforce"]
    /\ lapse' = ~Attached
    /\ late' = (late \/ Emptied)
    /\ UNCHANGED <<db, todo, lock, watcher, shutdown>>

(* The read has returned: build adapters and clients, then ask the gate. *)
RebuildBuild(h, b) ==
    /\ ReadDone(h)
    /\ h # Start
    /\ b \in Unused
    /\ open' = open \cup {b}
    /\ IF WatchPaths(read[h]) = {}
         THEN Swap(h, b, "none", TRUE)
         ELSE /\ mine' = [mine EXCEPT ![h] = b]
              /\ pc' = [pc EXCEPT ![h] = "policy"]
              /\ UNCHANGED <<db, reading, lock, state, runtime, watch, shutdown, ghosts>>

RebuildSwap(h, fits) ==
    /\ pc[h] = "limit"
    /\ Swap(h, mine[h], IF fits THEN "ok" ELSE "short", GateOk(h, fits))
    /\ open' = open

(* Close the clients that were swapped out, leave the lock, answer. *)
RebuildEnds(h) ==
    /\ pc[h] = "closing"
    /\ open' = open \ {mine[h]}
    /\ mine' = [mine EXCEPT ![h] = NoBundle]
    /\ lock' = NoHandler
    /\ pc' = [pc EXCEPT ![h] = "idle"]
    /\ UNCHANGED <<db, reading, state, runtime, watch, shutdown, ghosts>>

----------------------------------------------------------------------------
(* The web server (uvicorn): told to exit by a signal, or by serve_web     *)
(* when its stop event is set, it accepts nothing new; it ends when the    *)
(* requests are answered and the streams closed, without a time limit.     *)

Told == IF web = "serving" THEN "winding" ELSE web

WebStops ==
    /\ web = "serving"
    /\ web' = Told
    /\ UNCHANGED <<db, pc, reading, mine, lock, state, runtime, watch, open, stop, ghosts>>

(* The last request is answered; a browser may still follow a stream.      *)
WebDrained ==
    /\ web = "winding"
    /\ \A h \in Handler : pc[h] = "idle"
    /\ web' \in {"held", "ended"}
    /\ UNCHANGED <<db, pc, reading, mine, lock, state, runtime, watch, open, stop, ghosts>>

(* The last such browser leaves, if ever. *)
StreamsClose ==
    /\ web = "held"
    /\ web' = "ended"
    /\ UNCHANGED <<db, pc, reading, mine, lock, state, runtime, watch, open, stop, ghosts>>

----------------------------------------------------------------------------
(* Shutdown: begun by the stop event, at any time, or because what         *)
(* serve_web (the web server) or serve_headless (start) waits for has      *)
(* ended.  aclose takes no lock and waits for nobody.                      *)

(* While start is still reading there is nothing to release: aclose runs   *)
(* through without suspending.  A start that has failed re-raises in its   *)
(* caller, which leaves without waiting for the web server.                *)
AcloseUnwired ==
    LET failed == pc[Start] = "done" IN
    /\ stop = "no"
    /\ ~Wired
    /\ pc[Start] # "init"
    /\ state' = "stopped"
    /\ stop' = IF failed THEN "done" ELSE "waiting"
    /\ web' = IF failed THEN "ended" ELSE Told
    /\ pc' = [pc EXCEPT ![Start] = IF Headless THEN @ ELSE "done"]
    /\ UNCHANGED <<db, reading, mine, lock, runtime, watch, open, ghosts>>

Aclose ==
    /\ stop = "no"
    /\ Wired
    /\ watcher' = "closed"
    /\ stop' = "debouncer"
    /\ web' = Told
    /\ UNCHANGED <<db, pc, reading, mine, lock, state, runtime, roots, watch_limit, open, ghosts>>

(* debouncer.aclose has returned: close the clients of the moment ... *)
AcloseClients ==
    /\ stop = "debouncer"
    /\ open' = open \ {clients}
    /\ stop' = "clients"
    /\ UNCHANGED <<db, pc, reading, mine, lock, state, runtime, watch, web, ghosts>>

(* ... forget the current ones, and (serve_web) cancel the start task. *)
AcloseEnds ==
    /\ stop = "clients"
    /\ clients' = NoBundle
    /\ state' = "stopped"
    /\ stop' = "waiting"
    /\ pc' = [pc EXCEPT ![Start] = IF Headless THEN @ ELSE "done"]
    /\ UNCHANGED <<db, reading, mine, lock, config, adapters, policies, watch, open, web, ghosts>>

(* await start_task and, in serve_web, await serve_task *)
ServeReturns ==
    /\ stop = "waiting"
    /\ pc[Start] = "done"
    /\ web = "ended"
    /\ stop' = "done"
    /\ UNCHANGED <<db, pc, reading, mine, lock, state, runtime, watch, open, web, ghosts>>

----------------------------------------------------------------------------
StartStep == \/ StartCall
             \/ ReadServers(Start)
             \/ \E s \in Server : ReadFolders(Start, s)
             \/ ReadRaises(Start)
             \/ \E b \in Bundle : StartWire(b)
             \/ ReadPolicy(Start)
             \/ \E fits \in BOOLEAN : StartAttach(fits)
             \/ ConsumeEnds

Request(h) == \/ \E s \in Server, row \in Row, paths \in SUBSET Path : WriteServer(h, s, row, paths)
              \/ \E value \in {"enforce", "off"} : WritePolicy(h, value)
              \/ Recheck(h)

Rebuild(h) == \/ Refused(h)
              \/ EnterRebuild(h)
              \/ AcquireLock(h)
              \/ ReadServers(h)
              \/ \E s \in Server : ReadFolders(h, s)
              \/ ReadRaises(h)
              \/ \E b \in Bundle : RebuildBuild(h, b)
              \/ ReadPolicy(h)
              \/ \E fits \in BOOLEAN : RebuildSwap(h, fits)
              \/ RebuildEnds(h)

WebServer == WebStops \/ WebDrained \/ StreamsClose

Shutdown == AcloseUnwired \/ Aclose \/ AcloseClients \/ AcloseEnds \/ ServeReturns

Next == \/ StartStep
        \/ \E h \in Handler : Request(h) \/ Rebuild(h)
        \/ WebServer
        \/ Shutdown

Spec == Init /\ [][Next]_vars

(* Threads return, the loop resumes ready tasks, asyncio.Lock is first-in  *)
(* first-out, a shutdown goes on once it has begun and begins when what it *)
(* waits for has ended, and the web server notices that it has drained.    *)
(* Nobody has to send a request, to stop the service or to close a stream. *)
Onward == \/ AcloseClients \/ AcloseEnds \/ ServeReturns
          \/ (IF Headless THEN pc[Start] = "done" ELSE web = "ended") /\ (AcloseUnwired \/ Aclose)
          \/ WebDrained

Fairness == /\ WF_vars(StartStep)
            /\ \A h \in Handler : WF_vars(Rebuild(h)) /\ SF_vars(AcquireLock(h))
            /\ WF_vars(Onward)
FairSpec == Spec /\ Fairness

----------------------------------------------------------------------------
(* Properties *)

TypeOK ==
    /\ srv \in [Server -> Row] /\ fold \in [Server -> SUBSET Path]
    /\ policy \in {"enforce", "off"}
    /\ pc \in [Task -> Point]
    /\ read \in [Task -> Config]
    /\ todo \in [Task -> SUBSET Server]
    /\ pol \in [Task -> {"enforce", "off"}]
    /\ mine \in [Task -> Bundle \cup {NoBundle}]
    /\ lock \in Handler \cup {NoHandler}
    /\ state \in {"starting", "running", "blocked", "stopped"}
    /\ config \in Config
    /\ adapters \in [Server -> Row] /\ policies \in [Server -> Row]
    /\ clients \in Bundle \cup {NoBundle}
    /\ watcher \in {"none", "open", "closed"}
    /\ roots \subseteq Path
    /\ watch_limit \in {"none", "ok", "short"}
    /\ open \subseteq Bundle
    /\ stop \in {"no", "debouncer", "clients", "waiting", "done"}
    /\ web \in {"serving", "held", "winding", "ended"}
    /\ lapse \in BOOLEAN /\ late \in BOOLEAN

(* What build_runtime_config returns when nobody writes meanwhile. *)
Snapshot == [srv |-> srv, fold |-> [s \in Server |-> IF srv[s] = Disabled THEN {} ELSE fold[s]]]

Owing == {h \in Handler : pc[h] \in {"committed", "waiting", "servers"}}
Underway == {h \in Handler : pc[h] \in {"folders", "policy", "limit"}}
Readable == \A s \in Server : srv[s] \notin Corrupt
Settled == /\ Attached /\ Wired /\ stop = "no" /\ Readable
           /\ Owing \cup Underway = {}

(* However writes and rebuilds interleave, torn reads included: once every *)
(* committed write has had its rebuild, the engine runs what the database  *)
(* says.  (lapse: unless a rebuild was refused or overlapped start.)       *)
Converged == Settled /\ ~lapse => config = Snapshot

(* Likewise for the gate: switching inotify_gate off unblocks the engine. *)
OffUnblocks == Settled /\ ~lapse /\ policy = "off" => state = "running"

(* The watched roots are those of the configuration in force, and none     *)
(* while the engine is blocked.                                            *)
RootsMatch == Attached /\ Wired /\ stop = "no" /\ ~lapse =>
                 roots = IF state = "running" THEN WatchPaths(config) ELSE {}

(* A blocked engine always has the measurement that explains it. *)
BlockedExplained == state = "blocked" => watch_limit = "short"

(* Until shutdown the adapters in force have live clients, and no other    *)
(* clients are open but those a rebuild is about to install or to close.   *)
ClientsExact == stop = "no" /\ Wired =>
    /\ clients \in open
    /\ \A b \in open : b = clients \/ \E h \in Handler : mine[h] = b /\ lock = h
    /\ \A h \in Handler : mine[h] # clients

(* When serve_web or serve_headless returns the engine is stopped and has  *)
(* no client open, also if aclose ran beside a rebuild or a start; unless  *)
(* one of them installed after aclose had closed the clients (late).       *)
Released == stop = "done" /\ ~late => state = "stopped" /\ open = {}

(* Every request is answered: no rebuild waits for ever, not even for the  *)
(* lock of one that raised.                                                *)
RequestAnswered == \A h \in Handler : pc[h] = "committed" ~> pc[h] = "idle"

(* Once it is told to exit or aclose has begun, serve_web returns whatever *)
(* requests and rebuilds are under way; unless a browser keeps an event    *)
(* stream open, and then aclose and the start task still come to an end.   *)
ShutdownEnds ==
    stop # "no" \/ (web # "serving" /\ ~Headless)
        ~> \/ stop = "done"
           \/ web = "held" /\ (stop = "no" \/ (stop = "waiting" /\ pc[Start] = "done"))

----------------------------------------------------------------------------
(* What the documentation says and the code does not do. *)

(* README: "The engine picks up the new config immediately - no restart."  *)
(* Not when the rebuild is refused while start has already read the        *)
(* database but has not wired the pipeline.                                *)
EveryWriteTakesEffect == Settled => config = Snapshot

(* rebuild re-points the watcher roots to the configuration it installs.   *)
(* Not when it overtakes start inside its gate check: start then attaches  *)
(* the roots of the configuration it read before.                          *)
RootsFollowConfig == Attached /\ Wired /\ stop = "no" =>
                        roots = IF state = "running" THEN WatchPaths(config) ELSE {}

(* rebuild_engine counts on rebuild raising "mid-teardown", so a closed    *)
(* engine would stay stopped with its clients closed.                      *)
StaysStopped == stop = "done" => state = "stopped" /\ open = {}

(* A stop request ends the process.  Not while a browser follows an event  *)
(* stream; with Headless, ShutdownEnds fails as well, if the request comes *)
(* while start is reading.                                                 *)
ProcessEnds == stop # "no" ~> stop = "done"
=============================================================================
