-------------------------------- MODULE Router --------------------------------
(***************************************************************************)
(* From the rows of the database to the scan requests of one event: the    *)
(* routes of config/runtime.py and the matching of pipeline/router.py and  *)
(* pipeline/filters.py.  A path is the sequence of its segments, <<>> the  *)
(* root; a segment is a stem and what follows its last dot.                *)
(***************************************************************************)
EXTENDS Naturals, Sequences, SequencesExt, FiniteSets

CONSTANTS ServerRow,   \* rows of servers: enabled, mode, types
          FolderRow,   \* rows of folders: server, path, exts, library, enabled
          MaxFolders,  \* how many folders there are at most
          NServers,    \* server ids are 1 .. NServers
          EventPath,   \* paths of events
          EventType,   \* FsEventType
          IgnoreDirs,  \* segments that are never looked into
          Lower,       \* function from an extension to its lower case
          NoDot,       \* what follows the last dot of a name without one
          None

ASSUME NumberAssumption == NServers \in Nat \ {0} /\ MaxFolders \in Nat
ASSUME NoneAssumption == NoDot \notin DOMAIN Lower

Segment == [stem : STRING, ext : DOMAIN Lower \cup {NoDot}]
ASSUME PathAssumption == /\ EventPath \subseteq Seq(Segment)
                         /\ \A f \in FolderRow : f.path \in Seq(Segment)

VARIABLES servers,   \* the rows, by server id
          folders,   \* the rows, by folder id
          routes,    \* config.routes
          watched,   \* config.watch_paths
          event,     \* the event being routed, or None
          next,      \* the route that is looked at next
          requests   \* what route() has collected
config == <<routes, watched>>
vars == <<servers, folders, config, event, next, requests>>

----------------------------------------------------------------------------
(* Faults: one definition each with a bug in it, used by no specification. *)

SubscribedUnlessEmpty(types, type) == types = {} \/ type \in types

ScanPathOfFirstPart(root, path) ==
    IF Len(path) > Len(root) THEN SubSeq(path, 1, Len(root) + 1) ELSE root

KeyOfMode(r, scanPath) == <<r.mode, scanPath>>

----------------------------------------------------------------------------
(* build_runtime_config: one route per enabled folder of an enabled server *)

Enabled == {k \in DOMAIN folders : folders[k].enabled /\ servers[folders[k].server].enabled}

(* The tables are read in the order of their ids. *)
ListedBefore(j, k) == \/ folders[j].server < folders[k].server
                      \/ folders[j].server = folders[k].server /\ j < k

Route(f) == [server |-> f.server, path |-> f.path, exts |-> f.exts,
             library |-> f.library, mode |-> servers[f.server].mode,
             types |-> servers[f.server].types]

BuildRuntimeConfig ==
    /\ routes = None
    /\ \E order \in SetToSeqs(Enabled) :
          /\ \A i, j \in DOMAIN order : i < j => ListedBefore(order[i], order[j])
          /\ routes' = [i \in DOMAIN order |-> Route(folders[order[i]])]
    /\ watched' = {r.path : r \in ToSet(routes')}
    /\ UNCHANGED <<servers, folders, event, next, requests>>

----------------------------------------------------------------------------
(* filters.py *)

Ignored(path) == ToSet(path) \cap IgnoreDirs # {}

(* A dotfile has no extension: its stem is empty. *)
ExtensionMatches(path, exts) ==
    \/ exts = {}
    \/ /\ path # <<>>
       /\ Last(path).ext # NoDot /\ Last(path).stem # ""
       /\ Lower[Last(path).ext] \in exts

(* router.py *)

IsPathPrefix(prefix, path) == IsPrefix(prefix, path)   \* of whole segments

Subscribed(types, type) == type \in types

Matches(r, e) == /\ IsPathPrefix(r.path, e.path)
                 /\ ExtensionMatches(e.path, r.exts)
                 /\ Subscribed(r.types, e.type)

ComputeScanPath(root, path) ==
    IF Len(path) >= Len(root) + 2 THEN SubSeq(path, 1, Len(root) + 1) ELSE root

ScanKey(r, scanPath) == IF r.mode = "targeted" THEN <<"path", scanPath>>
                                               ELSE <<"lib", r.library>>

ScanRequest(r, e) ==
    LET scanPath == IF r.mode = "targeted" THEN ComputeScanPath(r.path, e.path)
                                           ELSE None
    IN [server |-> r.server, mode |-> r.mode, library |-> r.library,
        scanPath |-> scanPath, key |-> ScanKey(r, scanPath), file |-> e.path]

Init == /\ servers \in [1 .. NServers -> ServerRow]
        /\ folders \in UNION {[1 .. n -> FolderRow] : n \in 0 .. MaxFolders}
        /\ routes = None /\ watched = {}
        /\ event = None /\ next = 1 /\ requests = <<>>

(* An ignored path is refused before any route is looked at. *)
Observe(path, type) ==
    /\ routes # None /\ event = None
    /\ event' = [path |-> path, type |-> type]
    /\ next' = IF Ignored(path) THEN Len(routes) + 1 ELSE 1
    /\ UNCHANGED <<servers, folders, config, requests>>

Routing == event # None /\ next <= Len(routes)

Take == /\ Routing
        /\ Matches(routes[next], event)
        /\ requests' = Append(requests, ScanRequest(routes[next], event))
        /\ next' = next + 1
        /\ UNCHANGED <<servers, folders, config, event>>

Skip == /\ Routing
        /\ ~Matches(routes[next], event)
        /\ next' = next + 1
        /\ UNCHANGED <<servers, folders, config, event, requests>>

Next == \/ BuildRuntimeConfig
        \/ \E path \in EventPath, type \in EventType : Observe(path, type)
        \/ Take \/ Skip

Spec == Init /\ [][Next]_vars

----------------------------------------------------------------------------
(* Properties *)

Routed == event # None /\ next > Len(routes)

(* The folders that want to hear of the event, read off the rows: each on  *)
(* its own, whatever the order of the routes.                              *)
Wants(f) == /\ f.enabled /\ servers[f.server].enabled
            /\ event.type \in servers[f.server].types
            /\ \E k \in 0 .. Len(event.path) : SubSeq(event.path, 1, k) = f.path
            /\ \A k \in DOMAIN event.path : event.path[k] \notin IgnoreDirs
            /\ f.exts # {} =>
                 \E e \in DOMAIN Lower, s \in {n.stem : n \in ToSet(event.path)} \ {""} :
                     event.path[Len(event.path)] = [stem |-> s, ext |-> e]
                     /\ Lower[e] \in f.exts

(* route() gives "one ScanRequest per matching (server, folder)", and the  *)
(* watcher watches the folder of each.                                     *)
OneRequestPerMatch ==
    Routed =>
      LET wanting == {k \in DOMAIN folders : Wants(folders[k])}
      IN /\ Len(requests) = Cardinality(wanting)
         /\ \A k \in wanting : folders[k].path \in watched
         /\ \A s \in 1 .. NServers, l \in {f.library : f \in ToSet(folders)} :
               Cardinality({i \in DOMAIN requests : requests[i].server = s
                                                    /\ requests[i].library = l})
                 = Cardinality({k \in wanting : folders[k].server = s
                                                /\ folders[k].library = l})

(* A targeted scan covers the file, never more than the top folder that    *)
(* contains it, and never a file; a root is scanned as a whole only for    *)
(* what lies directly in it.                                               *)
ScanCovers ==
    \A q \in ToSet(requests) : q.mode = "targeted" =>
        /\ IsPrefix(q.scanPath, q.file)
        /\ q.scanPath = q.file => q.file \in watched
        /\ \E root \in watched :
              /\ IsPrefix(root, q.scanPath)
              /\ q.scanPath = root <=> Len(q.file) <= Len(root) + 1
              /\ Len(q.scanPath) <= Len(root) + 1

(* Requests the debouncer would take for one (same server and key) ask the *)
(* same of the same library, but for two folders of a server of which one  *)
(* is the other or is directly inside it, with the file directly in the    *)
(* inner one: there the library that comes later in the routes wins.       *)
SameKeySameScan ==
    \A a, b \in ToSet(requests) :
        a.server = b.server /\ a.key = b.key =>
            /\ a.scanPath = b.scanPath
            /\ a.library # b.library =>
                 \E i, j \in DOMAIN folders :
                     /\ i # j /\ folders[i].server = a.server /\ folders[j].server = a.server
                     /\ IsPrefix(folders[i].path, folders[j].path)
                     /\ folders[j].path \in {folders[i].path, a.scanPath}
===============================================================================
