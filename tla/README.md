# Verification of media-scan-monitor

media-scan-monitor watches media folders with inotify and asks media servers
(Plex, Emby, Jellyfin, Audiobookshelf, webhooks) to rescan what changed. It is
one Python process on one asyncio loop, with worker threads for database and
file-system calls, a web UI that edits the configuration, and an engine that
runs it. This directory holds TLA+ models of its control logic, TLC
configurations that check them, and TLAPS proofs.

## 1. Inventory

| Part | State | Operations | What must be true of it |
|---|---|---|---|
| Engine (`engine.py`) | config, dispatcher, debouncer, clients, watcher, state, watch_limit, lock | start, rebuild, aclose, _handle_event, _dispatch | ends up running the database's configuration; no client used after it is closed, none leaked; can be shut down at any moment |
| Runtime configuration (`config/runtime.py`) | none (a snapshot) | build_runtime_config | a read torn by a commit is repaired |
| Rebuild on write (`web/writes.py`, `web/rebuild.py`) | the database | create, update, delete of servers and folders, then rebuild | no committed write is without effect |
| System API (`web/api/system.py`) | the `inotify_gate` setting | set the gate, recheck, status, ready | switching the gate off unblocks |
| Entry points (`cli.py`, `web/server.py`) | start and serve tasks, the stop event | serve_headless, serve_web | a stop request ends the process, with nothing left open |
| Debouncer (`pipeline/debounce.py`) | servers, timers | submit, update_servers, aclose, _fire_after | newest request wins, sent at most once, a disabled server's scans are withdrawn |
| Dispatcher (`pipeline/dispatcher.py`) | adapters | dispatch, set_adapters | a failing server harms nobody else |
| Router, filters (`pipeline/`) | none | route, compute_scan_path, is_ignored, extension_matches | exactly the subscribed routes, with the right scan key |
| Watcher (`watcher/inotify_backend.py`) | watches, roots, closing | set_roots, events, aclose | every directory below a root is watched; nothing that appears is missed |
| Watch limit (`watcher/watch_limit.py`) | none | count_dirs, check_watch_limit | the count is what the watcher will use |
| Event buses (`observ/events_bus.py`) | ring buffer, subscriber queues | publish, recent, subscribe | order kept, newest kept, publish never blocks |
| HTTP retry (`servers/http.py`) | attempts made | request_with_retry | at most `attempts` requests, no retry after an answer below 500 |
| Adapters (`servers/*.py`) | none | trigger, test, list_libraries | a request built from the scan request |
| Repository (`db/repo.py`) | SQLite tables | CRUD, settings, secrets | multi-table writes are atomic |
| Authentication (`web/auth.py`, `web/ratelimit.py`) | password hash, must-change flag, password file, failure times | bootstrap, login, change, reset, setup | never locked out; the file, while it exists, tells the truth |
| Routes and pages (`web/api/`, `web/pages.py`) | none of their own | translation between HTTP and the functions above | every write ends in a rebuild |
| Migrations, logging, crypto | none of their own | schema changes, output, encryption | not modelled |

How they interact. A web handler commits in a worker thread, then awaits
`rebuild_engine` and answers. `Engine.rebuild` reads the database again in a
worker thread, asks the inotify gate in two more, and replaces adapters,
debounce policies, routes, clients and roots in one synchronous block. The
start task meanwhile consumes watcher events: route, submit to the debouncer,
which dispatches at once or arms a timer task; the dispatch calls the adapter
over HTTP and publishes to the events bus, to which SSE handlers subscribe.
Shutdown calls `Engine.aclose` from yet another task, without the engine's lock.

What is hard is what happens at the suspension points: commits between the
sessions of one configuration read, rebuilds beside `start` and `aclose`, timer
tasks whose cancellation arrives late, a gate that opens and closes, secrets
that cannot be decrypted, clients that are closed while others still use them.
Outside the loop other processes change the directory tree between any two
system calls of the watcher, threads of different requests interleave their
sessions, and a crash can fall between the three writes that make a password.
`PROJECT.json` lists each hazard at its line, with the property that would catch
it, or why there is none.

## 2. Modules

| Module | What it is |
|---|---|
| `Coalescer` | abstract: at most one held request per key, replaced, sent once, or discarded |
| `Debouncer` | `pipeline/debounce.py` and the timer tasks; implements `Coalescer` |
| `DebouncerProofs` | its inductive invariant, safety theorems and the refinement |
| `MCDebouncer` | two servers, two keys |
| `Engine` | `engine.py`, the configuration read, web writers, gate, the web server's exit, shutdown |
| `EngineProofs` | its inductive invariant and safety theorems |
| `MCEngine` | the engine's small instances |
| `Pipeline` | an event's way through `_handle_event`, the debouncer and the dispatcher, across rebuilds and shutdown; composes `Debouncer` |
| `PipelineProofs` | its inductive invariant on top of the debouncer's, and the refinements |
| `MCPipeline` | two servers, one rebuild |
| `Watcher` | `watcher/inotify_backend.py` beside the file tree and the kernel; `count_dirs` |
| `WatcherProofs` | its inductive invariant and safety theorems |
| `MCWatcher` | one library, three directories at a time, three changes |
| `Router` | the routes of `config/runtime.py`; `pipeline/router.py`, `pipeline/filters.py` |
| `RouterProofs` | its inductive invariant and safety theorems |
| `MCRouter` | two servers, three overlapping folder paths |
| `Adapters` | what each adapter asks and what it makes of the answer |
| `Delivery` | dispatch, retries, probes, events bus and event stream; uses `Adapters` |
| `DeliveryProofs` | its inductive invariant and safety theorems |
| `MCDelivery` | four servers, one browser |
| `Auth` | `web/auth.py` with its guards and throttles |
| `AuthProofs` | its inductive invariant and safety theorems |
| `MCAuth` | two clients, five generated passwords |
| `Store` | the requests that write: routes, `web/writes.py`, `db/repo.py` |
| `StoreProofs` | its inductive invariant and safety theorems |
| `MCStore` | three requests over two servers and four folders |

### Debouncer

An action is the code a task runs between two awaits. `timers[k] = i` says that
`self._timers[k]` is the task armed for the i-th request of key `k`; `pc` says
where that task is. A task passes from "asleep" to "woken" when its window
elapses and to "dispatching" only when the loop resumes it; a `cancel()` that
falls in between is a member of `cancelled` and is delivered by `Unwind`, which
is also enabled for a task that is dispatching (the code would let it through
there: that nothing does so is a theorem, `DispatchRunsToItsEnd`).
`SubmitNow` is an immediate dispatch: the one caller, the engine's
consume loop, waits for it, so `CallerBusy` holds back further submits.
Windows have no length: any order of wake-ups is explored.

Left out: a `CancelledError` delivered to the consume loop itself, and what
`dispatch` does (any answer, success or failure, is `DispatchReturns`).
`MaxSubmit` bounds the requests per key.

### Engine

`pc[t]` is where the start task or a web handler is suspended:

- "servers", "folders" — inside `build_runtime_config`: one session for the
  server rows, then one for each enabled server's folders (`ReadServers`,
  `ReadFolders`), in any order, with commits between them. A row in `Corrupt`
  makes `resolve_secret` raise and loses the read (`ReadRaises`).
- "policy", "limit" — inside `_gate_ok`, after which `RebuildSwap` or
  `StartAttach` runs to the next await. What `check_watch_limit` measures is a
  choice: the kernel limit and the tree change at any time.
- "committed", "waiting", "closing" — a handler before `rebuild`, before the
  lock, and closing the old clients with the lock held.
- "consuming", "done" — the start task in its event loop, and ended.

A row is opaque: two rows differ if any column does. `Disabled` is a server that
is disabled or absent, so creating, deleting, enabling and disabling are all
changes of a row; every transaction of `db/repo.py` touches one server and its
folders, and `WriteServer` allows any such change. A *bundle* names one
dictionary of HTTP clients; `open` are those not yet closed. Closing the clients
of one bundle is one step. Two history variables: `lapse`, a
rebuild was refused, or finished while `start` was still to attach; and `late`,
something was installed after `aclose` had closed the clients.

Shutdown is what `serve_web` or `serve_headless` does once `asyncio.wait` returns:
`aclose` step by step (`stop`), then the wait for the start task and, in
`serve_web`, for the web server (`ServeReturns`). `web` is uvicorn: told to exit
("winding"), either by a signal of its own or by `serve_web`, it takes no new
request, answers those that began, and ends when the last event stream is
closed; until then it is "held", because `uvicorn.Config` is given no time limit. A
start task that has failed re-raises in `serve_web`, which then leaves without
waiting for the web server.

Abstractions to know of: what became of the requests of a web server that was left
is not followed, they go on in the model; a database error other
than an undecryptable secret, and an error in the gate, are not modelled; closing the client of a rejected
adapter, which awaits but has no connection to close, is part of the
build step; events and dispatches are not in this module.

### Pipeline

`Pipeline` instantiates `Debouncer` with its own variables of the same names and
conjoins each of its actions with what the engine adds: `Submit` is one turn of
the loop over `reqs`, `Fire` also takes the dispatcher's adapter of the moment
(`via`), `Return` records how the dispatch ended, `Swap` is `update_servers`
within the synchronous block of `rebuild`, `Aclose` and `AcloseClients` enclose
the debouncer's own. Where the code has no await, no other task may run:
`AtAwait` guards all actions but the ones that continue such a stretch (the next
submit of an event, the return of a dispatch that found no adapter, the closing
of the clients after a debouncer that had no timers).

A generation of clients stands for the dictionary of one `_build_adapters`; an
adapter is known by it. `shut` are the generations closed. A dispatch whose
clients were closed meanwhile ends "ok" or "lost": what httpx does to a request
in flight when its client is closed is external; a retry on a closed client
raises, and the dispatcher makes both a failed result. A server that answers badly is "failed".
Routing is a choice among the keys of configured servers; which
routes match is the subject of `Router`. A rebuild here is only its
synchronous block and what follows, with any configuration: `Engine`
models how that configuration is found. `serve_web`'s cancellation of the
consume loop after `aclose` is left out, as is what remains of a directory walk
when the watcher is closed.

### Watcher

A path is the sequence of its names. The kernel's side: `dirs` gives each
directory its inode, `live` the watches by inode with the path asyncinotify
knows, `queue` the events, with one overflow event when it is full. A watch
descriptor is the inode, because the kernel answers a second `add_watch` of an
inode with its old descriptor: so renames, after which two entries of `_watches`
share a descriptor, behave as they do. `watches`, `roots` and `closing` are the
object's fields.

A walk is two steps for each directory, because `os.walk` lists it
(`ListDir`) before the loop body watches it (`Attach`), and the file system
may change in between. `events()` runs between two awaits, but it is suspended
at each `yield`, so `SetRoots` and `Aclose` may come between two walks
(`LoopFree`), not within one. The walk of `set_roots` is `silent`: what it finds
is library content and not reported.

Two ghosts serve the properties. `owed` holds the files that appeared below a
root and were not reported. `missed` holds what the code is known to lose, each
for a reason that has a name: `add_watch` failed (limit reached, directory gone),
a root was missing, an entry slipped between listing and `add_watch` (`Slips`),
the removal of a directory went unnoticed, its event being lost or naming the
path its parent had before a rename, and left a
stale entry in `_watches` that stops a later `_add_watch` (`Unnoticed`), a removal
was read after the directory had come back (`Late`), or both names of a renamed
directory shared its descriptor when one of them was dropped (`Shared`), by an
event or with its root. They are what the code loses: without any one of them
`AllWatched` is violated, in the run `watcher` but for two. The event
that names an old path takes five changes, and the root that takes a shared
descriptor along takes two roots; these two were found by attempting the proof.
A directory that is watched again leaves `missed`.

### Router

The configuration is read off rows of servers and folders: the routes are the
enabled folders of enabled servers in the order of their ids. `Take` and `Skip`
look at one route each. Paths are sequences of segments, a segment a stem and
what follows its last dot, so that the case of extensions, dotfiles and
names without a dot are told apart. Paths are normalised before they are
stored or routed, which is why prefixes are compared by segments.

### Delivery and Adapters

A call is a dispatch or a probe; `log` has the outcome of each attempt. An
outcome is a response by its class, a transport error, or an exception that is
not of httpx (a client closed by a rebuild). `Ends` is everything from the answer
to the publication, which has no await in it. A stream is "replaying" until
its snapshot is sent and subscribes only then; a client that has left keeps its queue until
the server notices. Templates may render, fail or raise; their content
is abstracted.

### Auth

The credential is in three places that no transaction spans: the hash, the
must-change flag and the initial-password file. Each function is the separate
reads and writes it makes in worker threads; `Crash` may fall between any two
and restarts the process, `WriteFileFails` is a full or read-only
volume, where opening the file may already have truncated it, or a `chmod` that
fails when the file has been written. Both are bounded only
by the state. A request that must not be made under a generated password is two
steps: `Admit`, the guard's read of the flag in a worker thread, and `Enter`, the
route that the framework then calls; anything may come in between. Sessions are signed cookies and outlive a restart. The ghosts
`mixed` and `alone` tell whether two writers have overlapped, one was cut off
after its file write, or a change kept the same password, since the last writer
that completed by itself; `overtaken` holds the clients admitted before the generated
password now in force was stored. All clients share one
address, so one key of each limiter; failures may leave the window at any time.

### Store

A request is a chain of repository calls, each with a session of its own: it
reads rows, which takes no lock in SQLite, and commits what it found changed
in one transaction (`Load`, `Commit`). `row` and `kids` are what the session
has read. `Changes` is SQLAlchemy's: a column is written if it differs from the
row that was read, except that a new secret always is. `None` is a row that is not there; a
new row takes the id after the largest, which is how SQLite reuses the id
of the last row deleted. Answers are status codes.

## 3. Runs

| Run | Instance | Shows |
|---|---|---|
| `debouncer` | 2 servers, 1 key each, 2 requests per key | all properties: safety, the refinement, `HeldIsDispatched`, `AcloseTerminates` |
| `engine` | 2 servers, 1 path, rows absent / good / undecryptable, 2 handlers, 2 bundles | all safety properties; 3.2 million states |
| `engine_live` | 1 server, rows absent / good / undecryptable, 2 handlers | `RequestAnswered`, `ShutdownEnds` |
| `pipeline` | 2 servers, 1 key each, 2 requests per key, 1 rebuild | `NewRequestsSafe`, `RemovedIsSilent` |
| `pipeline_live` | the same, one server without an adapter | `EventIsDispatched` |
| `engine_lost_write` | 1 server, a row no adapter accepts, 1 handler | divergence 1 |
| `watcher` | 1 root, 3 directories out of 5 paths on 3 levels, one of them ignored, 3 changes, a queue of 2, 2 watches | `AllWatched`, `AllReported`, `GateCountsAll`; 2.4 million states |
| `watcher_nested` | a root and another below it | divergence 8 |
| `auth` | 2 clients, 2 attempts, 2 resets, crashes and failed writes | all properties; 1.6 million states |
| `router` | 2 servers, up to 2 folders, 8 event paths | `OneRequestPerMatch`, `ScanCovers`, `SameKeySameScan` |
| `delivery` | 3 calls to servers with 2, 0 and 1 attempts and a webhook; 1 browser; a bus, a replay and a queue of 2 records each | `RetriesAsConfigured`, `OneHonestRecord`, `StreamCurrent`; 3 million states |
| `store` | 3 requests, 2 servers, 4 folders | `NoOrphans`, `WritesRebuilt`, `OnlySentFields`; 1.3 million states |

Why the bounds suffice. Two requests per key let a second submit meet the first
in each of its stages; keys do not touch one another except through
`update_servers` and `aclose`, which two keys on two servers exercise. Two
handlers are one rebuild inside the lock and one commit or rebuild anywhere
beside it; two servers are needed for a torn read (one server's folders read,
the other's not yet). A handler starts over when it is done, so runs are
unbounded in length. Two bundles suffice for two handlers: at most one
rebuild at a time holds a bundle that is not in force. One rebuild is enough for
`Pipeline`: a dispatch meets at most the swap that follows it, and two requests
per key put one before and one after. Three changes of the tree suffice for the named losses of `Watcher`, but for
the two that section 2 names: leave any other out of `missed` and the run finds its
violation. A queue of two overflows
with them while a rename's pair of events fits. A limit of
two is reached, and given back, with three directories. Two resets
and two clients overlap in every way two writers can, and a third writer is a
restart's bootstrap. Three requests put one between the read and the commit of
another and leave one to reuse the id it freed. In `router` any two folders of one or two servers
are equal, nested or apart. Three calls fill and overflow a bus, a
replay and a queue of two records, which is the least at which an order can go wrong. The theorems below
have none of these bounds. Symmetry is used only in the `engine` and `store` runs.
`CHECK_DEADLOCK FALSE` in the engine's configurations: after shutdown nothing
is left to do, and in the others once their bounds are used up. The debouncer never stops, as `update_servers` is always possible.

Fairness. Debouncer: each timer task is weakly fair (sleeps elapse, the loop
resumes ready tasks, and each HTTP attempt has a timeout, so a dispatch returns)
and so is the waiting `aclose`; nobody has to submit. Engine: the start task,
each handler and an `aclose` that has begun are weakly fair, because threads
return and the loop is first-in first-out, as are the begin of the shutdown once what
it waits for has ended and the web server's notice that its requests are
answered (`Onward`); taking the lock is strongly
fair, because `asyncio.Lock` wakes its waiters in order. A browser never has to
close its event stream. Pipeline: the loop's next
submit, each timer task and dispatch, and the closing of old clients. No request and no
shutdown has to happen. The other modules state safety only.

Each property of a passing run has a fault in the module, a plausible bug in one
definition, under which TLC finds that property violated (section *Faults* of each module).

## 4. What the code does not do

Statements of the documentation or of comments that the models refute. A run
shows the first and the eighth; for the others the module keeps the
property that fails, and adding it as an INVARIANT to the configuration named
shows the counterexample.

Engine and Pipeline:

1. **A write can be lost at start-up** (`EveryWriteTakesEffect`, run
   `engine_lost_write`). `rebuild` raises until `start` has wired the pipeline and
   `rebuild_engine` swallows it. If `start` had already read the table, the write
   has no effect until the next one.
2. **`start` can overwrite a rebuild's roots** (`RootsFollowConfig`, MCEngine.cfg;
   `engine.py:105`). `start` holds no lock during its gate check; a rebuild that
   completes there is followed by `set_roots` with the older configuration. The
   same order of steps can undo the state.
3. **A rebuild outlives `aclose`** (`StaysStopped`, MCEngine.cfg; `engine.py:197`): state
   "running", clients open, after the engine was closed, although
   `web/rebuild.py:4` counts on a rebuild raising in mid-teardown. `Released` is
   what holds: only what was installed after the clients were closed is left open.
4. **`serve_headless` can fail to stop** (`ShutdownEnds` in MCEngineLive.cfg with
   `Headless = TRUE`; `cli.py:105`): a stop during the first database read finds no
   watcher to close, and the start task is not cancelled. `serve_web` cancels it,
   and there `ShutdownEnds` holds, with the exception of item 18.
5. **A rebuild drops scans under way** (`NoScanDropped`, MCPipeline.cfg;
   `engine.py:212`). It closes the old clients of every server, changed or not,
   while dispatches still use them. A trailing debounce has by then forgotten the
   request. `NewRequestsSafe` is the half of the comment in the code that holds.
6. **An event can be split** (`EventInOneConfig`, MCPipeline.cfg; `engine.py:271`):
   routed by one configuration, submitted under the next. `RemovedIsSilent` shows
   that nothing is sent to a server that is gone, only because the dispatcher
   then has no adapter for it.
7. **A timer can outlive `aclose`** (`DebouncerReleased`, MCPipeline.cfg;
   `pipeline/debounce.py:46`): the consume loop is not stopped before the
   debouncer is closed.

Watcher:

8. **Removing a root blinds a root below it** (`AllWatched`, run `watcher_nested`;
   `inotify_backend.py:133`). `_remove_watch_tree` works by path prefix, and a
   root that stays is not walked again.
9. **The attach window is not closed** (`WindowClosed`, MCWatcher.cfg;
   `inotify_backend.py:183-190`). The walk reports what was there when it
   listed a directory, but it lists before it watches: what appears in between is
   neither listed nor posted. A directory that slips through stays unwatched,
   with everything below it, until an overflow.
10. **A rename leaves a stale entry or takes the watch with it**
    (the excuses `Late`, `Shared` and `Unnoticed` of `missed`;
    `inotify_backend.py:193`). The kernel reports a removal under the path the parent
    was last watched by: if a directory is renamed away and back while its events
    are queued, what is removed below it meanwhile keeps its old entry, and a
    directory made there later is never watched. The module's opening comment says watches are
    added and removed "as subdirectories are created, moved, or deleted".

Auth:

11. **Overlapping resets can leave a file with the wrong password**
    (`NoLockoutEver`, MCAuth.cfg; `auth.py:97-101` says "no lockout"). Each writes file,
    flag and hash; nothing keeps the last file and the last hash together.
    The next reset repairs it. A crash between the file and the hash, a failed
    write after `O_TRUNC` and a failed `chmod` (`auth.py:94`) have the same effect.
12. A reset between the check and the write of a change can end with a
    generated password that need not be changed, and `change_password` takes
    the current password as the new one (`auth.py:278-304`): both are `mixed` in
    `GeneratedMustChange`. A first bootstrap cut off after the flag and repeated with
    `MSM_PASSWORD` leaves the flag set for a password that was chosen.

Router, Store and Delivery:

13. **Two folders can share a scan key and want different libraries**
    (`router.py:54`): one folder of a server is the other, or lies directly in it, and the
    event lies directly in the inner one. The debouncer keeps the later request.
    `SameKeySameScan` says that it happens in no other case.
14. **A token is not mandatory** (`TokenMandatory`, MCStore.cfg; `api_schemas.py:138`).
    A webhook may be stored with an empty secret, which is encrypted and then
    counts as one when the type is patched to plex; a secret can also be taken away
    between another request's check and its commit.
15. Statuses that are 500 in the model: a plain PATCH to a name that is taken,
    `update_folder` of a folder just deleted, a folder added to a server just
    deleted, and the assertion of `writes.py:146`. Two saves that overlap leave the
    union of their folders (`repo.py:156`). An id that is reused makes
    the check of `_owned_folder` good for another server's folder.
16. A record published between the replay of a stream and its subscription is
    missed; none is ever repeated or out of order (`StreamCurrent`). The test of a webhook is a
    delivery, retried as one.

Debouncer, shutdown and guards:

17. **A timer can send an older request after a newer one** (`ArmedIsNewest`,
    MCDebouncer.cfg; `pipeline/debounce.py:72`): a server whose policy goes from trailing
    to off keeps its timers, and the next request is sent at once, before them. The class comment
    says "carrying the most recent request".
18. **An open event stream keeps `serve_web` from returning** (`ProcessEnds`,
    MCEngineLive.cfg; `web/server.py:58`): uvicorn waits for it without a limit
    (`web/server.py:42`), and the generators of `web/pages.py` never end by themselves. If uvicorn
    took the signal itself, `serve_web` is then still waiting for it with the engine running; if the stop event was
    set, the engine is closed. `ShutdownEnds` says that nothing else is left to wait for. Conversely, if the start task has failed,
    `await start_task` raises and `serve_web` leaves without waiting for the web server.
19. **A guard's verdict can be out of date** (`NothingElseReached`, MCAuth.cfg;
    `web/deps.py:69`): the flag is read in a worker thread, and a reset may store its
    generated password before the route is entered. `AdmittedBefore` says that it takes
    such an overlap.

`Converged`, `OffUnblocks` and `RootsMatch` say what does hold: everything is
right once the last rebuild was neither refused nor overtaken by `start`.

## 5. Proofs

All theorems are for arbitrary constants, under the named assumptions of the
modules: each key has a server, bounds are natural numbers, `Disabled` is a
readable and supported row, the special names differ from the ordinary ones, paths
are sequences of names and the parent of a directory's path is one too, a file
never has a directory's name, sets of clients and of roots are finite, bodies
and the first tables are well formed. Each `...Proofs` module has one inductive
invariant, `IInv`, with a lemma for each action; the theorems follow from it.

`DebouncerProofs`. `TimersExact` is almost inductive; `IInv` adds that a
request is numbered only once it was submitted, that cancelled tasks were asleep
when cancelled (hence `DispatchNotKilled`), and that later requests of an armed
key went out at once. `Refinement` maps `held` to `timers` and `sent` to the
requests whose dispatch was entered; `Elapse`, `Unwind`, a rejected wake-up and
the returns are stuttering steps.

`EngineProofs`. `Converged` is not inductive: what makes it true is that whoever
commits still owes a rebuild that reads afterwards. `FreshRebuild` says that what
a rebuild under way has read so far equals the database wherever no handler
still owes a rebuild; `FreshStart` says the same of
`start`; `FreshConfig` carries it to `config` once the swap is done. The excuse,
some handler still in debt or `lapse`, is in each. `PolicyRebuild`, `PolicyStart`
and `PolicyState` repeat the argument for the gate's policy. `PcOk`, `TodoOk`, `StartLocal` and `Bundles` relate
program counters to the lock, the partial reads and the clients held. `Released` follows from
`Accounted`, each open bundle is the engine's or that of the rebuild which has
the lock, and after `aclose` only the latter; and from `WoundUp`, the web server ends only when all
handlers have.

`PipelineProofs` uses `DebouncerProofs` by INSTANCE: each step of the pipeline is
one of the debouncer or leaves it alone (`RunsDebouncer`), so the debouncer's
invariant is part of the pipeline's, and the abstract coalescer is implemented by
both together (`PipelineCoalesces`). New are the clauses that tie clients to swaps:
the adapters in force are those of the last swap (`AdaptersInForce`), and until
`aclose` whatever is shut was built before (`OldIsShut`). `RemovedLosesItsTimers`
is the debouncer's `NoOrphanTimer` where the configuration is the engine's.

`AuthProofs`. `NoLockout` and `GeneratedMustChange` hold between the writes of a
password only because a writer that met no other is still alone (`Solo`) and finds
what it has written so far (`Progress`: after the file, after the flag, after the hash).
`FileTells` extends `NoLockout` to states in which somebody is writing.
`LoginsBounded` counts the logins that were let in and may still fail along
with the failures already counted: that sum, not the counter, is what the guard bounds. It grows with
the number of clients. `GuardOk` relates who has been admitted to the password that came into force since.

`StoreProofs`. `StepFinds` says what each step of a request has at hand,
`WroteThenRebuilds` that only the rebuild and the answer follow a write. `NoOrphans`
needs the type of the tables, and that a commit re-reads the row it is to change.
`NamesUnique`, the table's constraint, is proved as a theorem of its own, although updates check it
against a row read earlier. `OnlySentFields` follows from what each commit
writes.

`DeliveryProofs`. `Trying` says that a call that is not over has had only
answers that are tried again, fewer than it may; `Tried` follows for every call.
`Published` puts records and finished dispatches in correspondence one to one.
`StreamOk` says that what is left of a replay and what waits in a subscriber's
queue are rising numbers of records, later than the last one sent, and end with the
newest; the cases are a full queue that drops its oldest, an empty one, and the
ring.

`RouterProofs`. The routes list the enabled folders without repetition, each once (`Lists`); the requests collected so far are those of the matching
routes passed, one each (`Collected`, with a witness function). The three
properties then follow for any event from lemmas about prefixes.

`WatcherProofs`. `IInv` is the type with what a file system guarantees: inodes are
not shared, a directory stands in directories, also after a rename, a queue overflows once.
`GateLeavesNoneOut` compares two ways of counting: a directory that is watched lies
below a root with no ignored name on the way, so the sets that `count_dirs` counts
cover the visible directories; that the sum of their sizes is at least the
size of their union is an induction over sets of roots, which needs the value of the fold
`MapThenSumSet` as a function on these sets (`CountDirsIsSum`).

`NothingUnwatched` and `NothingUnreported` (`AllWatched` and `AllReported`) need
three more invariants, which hold together (`PromiseKept`). `Book`: a descriptor of
the kernel is that of one entry of `_watches`, and a live event names that entry's
path. `Stale`: an entry the kernel has no watch for at its path is missed, or the
event of a removal at or above it is queued, so that it will be dropped. It is
not a matter of course when a new watch relabels events (`AttachStale`): the shortest removal
above a stale entry cannot be one of them. `Promise`: every directory and every owed
file below a root is watched or in hand, or a path at or above it is missed, named
by an event, or about to be walked (`Due`); in the window between listing and
`add_watch` this is said once more of what has come into the directory listed
(`ListingKnown`), since the events it has posted, if any, name it only once the
watch is made (`Half`). When nothing is left to read nothing is due, and both
properties follow. The one hypothesis is `TopRoots`: the roots are the tops of the
modelled tree, so none is inside another (divergence 8 is what happens
otherwise) and the directories above a root do not move. The instance of the run
`watcher` satisfies it. Directories are made, removed and renamed below roots in any
order, roots come and go and are removed themselves.

Only model-checked: the liveness properties (`HeldIsDispatched`,
`AcloseTerminates`, `RequestAnswered`, `ShutdownEnds`, `EventIsDispatched`),
which need fairness and ENABLED.
The divergences are counterexamples and need no proof.

## 6. Plan

What is modelled is what has control state, and every safety property of the
passing runs is a theorem. The proofs that could say more: `TopRoots` weakened
to roots that are disjoint and stand on directories that do not move, which needs those
directories in the model; and what a divergence leaves true, as
`Converged` does for the engine, of the attach window and of nested roots.

## 7. Not modelled, and why

- Migrations and logging: one-off schema changes before the service starts, and
  output. `db/crypto.py` is cryptography; `Engine` has only that a secret may fail to
  decrypt, `Store` only whether there is one.
- `RawEventsBus`: the same ring and queues as `EventsBus`, without a
  replay of its own.
- Argument parsing, app assembly, HTML, directory browsing, `/health`, `/ready` and
  status pages: they change no state. They can show values of two sessions side by side.
- Urls, headers, bodies and templates of the adapters, and the wording of
  results.
- Time: windows, backoffs and timeouts have no length; what they may reorder
  is explored in every order.
- `/setup` as a writer: `bootstrap_password` has run before anything is served,
  so its first branch always finds a password (`NeverUnset`).
- What asyncinotify's `get()` does once it is closed, what uvicorn does on exit beyond
  the wait described in section 2, and the events an inotify watch of a root itself would post.
