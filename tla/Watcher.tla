------------------------------- MODULE Watcher -------------------------------
(***************************************************************************)
(* watcher/inotify_backend.py beside a file system that keeps changing:    *)
(* one kernel watch per directory, the walk that attaches watches to a     *)
(* new subtree, the resync after a queue overflow, set_roots and aclose.   *)
(*                                                                         *)
(* The event loop is one thread, but other processes change the file       *)
(* system between any two system calls of it: a walk lists a directory     *)
(* (os.walk) and then watches it, in two steps.  The consumer may suspend  *)
(* at every yield, so other tasks of the loop run between two walks.       *)
(*                                                                         *)
(* A path is the sequence of its names.  A watch descriptor is the inode   *)
(* it watches, for the kernel gives an inode that is already watched its   *)
(* old descriptor again; Dead is one the kernel has given up.              *)
(***************************************************************************)
EXTENDS Naturals, Sequences, FiniteSets, FiniteSetsExt, SequencesExt, Functions

CONSTANTS DirPath,    \* the paths directories may have
          FileName,   \* names of files
          Ignored,    \* the names in ignore_dirs
          RootSets,   \* the sets of roots a configuration may have
          MaxDirs,    \* bound on the directories that exist at a time
          MaxChanges, \* bound on the changes of the file system
          QueueMax,   \* capacity of the kernel's event queue
          Limit,      \* max_user_watches
          Renames     \* whether directories are renamed

Name == UNION {Range(p) : p \in DirPath}
FilePath == {Append(d, f) : d \in DirPath, f \in FileName}
Inode == 1 .. MaxDirs
Dead == 0

ASSUME RootsAssumption == RootSets \subseteq SUBSET DirPath /\ \A R \in RootSets : IsFiniteSet(R)
ASSUME PathAssumption == /\ \A p \in DirPath : /\ p \in Seq(Name) /\ p # <<>>
                                               /\ Len(p) > 1 => Front(p) \in DirPath
                         /\ Name \cap FileName = {}
ASSUME BoundsAssumption == {MaxDirs, MaxChanges, QueueMax} \subseteq Nat \ {0} /\ Limit \in Nat

VARIABLES dirs,      \* the directories: their inodes by path
          files,     \* the paths of the files
          changes,   \* changes of the file system so far
          live,      \* kernel watches: the path asyncinotify has for each inode
          queue,     \* events the kernel has queued or asyncinotify has read
          watches,   \* self._watches: the descriptor by path
          roots,     \* self._roots
          closing,   \* self._closing
          pending,   \* walks events() has still to make for the last event
          visit,     \* directories the current os.walk has still to list
          listing,   \* the directory it has listed but not watched yet
          silent,    \* whether the events of that walk are discarded
          owed,      \* files that appeared and were not reported yet
          missed    \* ghost: directories add_watch failed on, roots that were
                    \* missing, and what slipped through the attach window
system == <<dirs, files, changes>>
walk == <<visit, listing, silent>>
vars == <<system, live, queue, watches, roots, closing, pending, walk, owed, missed>>

NoListing == [dir |-> <<>>, files |-> {}]
Overflow == [wd |-> Dead, at |-> <<>>, name |-> "overflow", kind |-> "overflow"]

Parent(p) == Front(p)
Upward(p) == {SubSeq(p, 1, i) : i \in 1 .. Len(p)}   \* p and its ancestors
Below(S, p) == {q \in S : IsPrefix(p, q)}            \* p and its descendants
IsIgnored(p) == \E i \in 1 .. Len(p) : p[i] \in Ignored
Covered(p, R) == \E r \in R : IsPrefix(r, p)
SubDirs(p) == {q \in DOMAIN dirs : q # p /\ Parent(q) = p}
FilesIn(p) == {q \in files : Parent(q) = p}
FreeInode == Min(Inode \ Range(dirs))
With(g, k, v) == [x \in DOMAIN g \cup {k} |-> IF x = k THEN v ELSE g[x]]
LoopFree == visit = {} /\ listing = NoListing

(* A library that is there before the service starts. *)
Library == {p \in DirPath : Len(p) <= 2 /\ ~IsIgnored(p)}

Init == /\ \E D \in SUBSET Library :
              /\ \A p \in Library : Len(p) = 1 => p \in D
              /\ IsFiniteSet(D) /\ Cardinality(D) <= MaxDirs
              /\ dirs \in {f \in [D -> 1 .. Cardinality(D)] : IsInjective(f)}
        /\ files = {}
        /\ changes = 0
        /\ live = <<>>
        /\ queue = <<>>
        /\ watches = <<>>
        /\ roots = {}
        /\ closing = FALSE
        /\ pending = {}
        /\ visit = {}
        /\ listing = NoListing
        /\ silent = FALSE
        /\ owed = {}
        /\ missed = {}

----------------------------------------------------------------------------
(* The kernel and asyncinotify *)

Queued(q, e) == IF Len(q) < QueueMax THEN Append(q, e)
                ELSE IF Overflow \in Range(q) THEN q ELSE Append(q, Overflow)

(* The event of a change in directory d, if d is watched. *)
Posted(q, d, name, kind) ==
    IF d \in DOMAIN dirs /\ dirs[d] \in DOMAIN live
    THEN Queued(q, [wd |-> dirs[d], at |-> live[dirs[d]], name |-> name, kind |-> kind])
    ELSE q

(* A directory is gone whose event is lost, or names the path its parent   *)
(* had before a rename: what _watches has of it and of the directories     *)
(* below stays.                                                            *)
Unnoticed(p) == IF \/ Parent(p) \notin DOMAIN dirs
                   \/ dirs[Parent(p)] \notin DOMAIN live
                   \/ live[dirs[Parent(p)]] # Parent(p)
                   \/ Len(queue) >= QueueMax
                THEN Below(DOMAIN watches, p) ELSE {}

(* The watches of some inodes are gone, and with them their descriptors;   *)
(* events queued before keep the path they had.                            *)
Void(q, lost) == [n \in DOMAIN q |-> IF q[n].wd \in lost THEN [q[n] EXCEPT !.wd = Dead] ELSE q[n]]
Unwatched(lost) == [i \in DOMAIN live \ lost |-> live[i]]
Kept(doomed, lost) == [p \in DOMAIN watches \ doomed |-> IF watches[p] \in lost THEN Dead ELSE watches[p]]

----------------------------------------------------------------------------
(* Other processes change the file system. *)

Change == /\ changes < MaxChanges
          /\ changes' = changes + 1

Appears(p) == /\ p \notin DOMAIN dirs
              /\ Range(dirs) # Inode
              /\ Len(p) > 1 => Parent(p) \in DOMAIN dirs

(* What appears in a directory between os.walk's listing of it and its      *)
(* add_watch is in no listing and posts no event.                          *)
Slips(p) == IF Parent(p) = listing.dir /\ dirs[Parent(p)] \notin DOMAIN live
            THEN {p} ELSE {}

(* A directory that is moved in with what it holds is one made and filled  *)
(* before anybody looks.                                                   *)
MkDir(p) ==
    /\ Change /\ Appears(p)
    /\ dirs' = With(dirs, p, FreeInode)
    /\ queue' = Posted(queue, Parent(p), Last(p), "appeared")
    /\ missed' = missed \cup (IF Len(p) > 1 THEN Slips(p) ELSE {})
    /\ UNCHANGED <<files, live, watches, roots, closing, pending, walk, owed>>

Create(p) ==
    /\ Change
    /\ p \notin files /\ Parent(p) \in DOMAIN dirs
    /\ files' = files \cup {p}
    /\ owed' = IF Covered(p, roots) THEN owed \cup {p} ELSE owed
    /\ queue' = Posted(queue, Parent(p), Last(p), "appeared")
    /\ missed' = (missed \ {p}) \cup Slips(p)
    /\ UNCHANGED <<dirs, live, watches, roots, closing, pending, walk>>

Delete(p) ==
    /\ Change
    /\ p \in files
    /\ files' = files \ {p}
    /\ owed' = owed \ {p}
    /\ queue' = Posted(queue, Parent(p), Last(p), "gone")
    /\ UNCHANGED <<dirs, live, watches, roots, closing, pending, walk, missed>>

(* A root's own removal posts nothing: its parent is not watched. *)
RmDir(p) ==
    /\ Change
    /\ p \in DOMAIN dirs /\ SubDirs(p) = {} /\ FilesIn(p) = {}
    /\ dirs' = [q \in DOMAIN dirs \ {p} |-> dirs[q]]
    /\ live' = Unwatched({dirs[p]})
    /\ watches' = Kept({}, {dirs[p]})
    /\ queue' = Void(Posted(queue, Parent(p), Last(p), "gone"), {dirs[p]})
    /\ missed' = missed \cup Unnoticed(p)
    /\ UNCHANGED <<files, roots, closing, pending, walk, owed>>

(* The subtree keeps its inodes and their watches, under the old paths. *)
Rename(p, q) ==
    LET moved(x) == q \o SubSeq(x, Len(p) + 1, Len(x))
        trees == Below(DOMAIN dirs, p)
    IN  /\ Renames /\ Change
        /\ p \in DOMAIN dirs /\ Len(p) > 1
        /\ q \notin DOMAIN dirs /\ Len(q) > 1 /\ Parent(q) \in DOMAIN dirs /\ ~IsPrefix(p, q)
        /\ \A x \in trees : moved(x) \in DirPath
        /\ dirs' = [x \in (DOMAIN dirs \ trees) \cup {moved(x) : x \in trees} |->
                       IF IsPrefix(q, x) THEN dirs[p \o SubSeq(x, Len(q) + 1, Len(x))] ELSE dirs[x]]
        /\ files' = (files \ Below(files, p)) \cup {moved(f) : f \in Below(files, p)}
        /\ owed' = (owed \ Below(owed, p)) \cup
                   {moved(f) : f \in {g \in Below(files, p) : Covered(q, roots)}}
        /\ queue' = Posted(Posted(queue, Parent(p), Last(p), "gone"), Parent(q), Last(q), "appeared")
        /\ missed' = missed \cup Unnoticed(p) \cup Slips(q)
        /\ UNCHANGED <<live, watches, roots, closing, pending, walk>>

FileSystem == \/ \E p \in DirPath : MkDir(p) \/ RmDir(p)
              \/ \E p \in FilePath : Create(p) \/ Delete(p)
              \/ \E p, q \in DirPath : Rename(p, q)

----------------------------------------------------------------------------
(* Faults: what the properties are there to notice.  Each is one           *)
(* definition of the model with a bug in it; no specification uses them.   *)

ListDirShallow(d) ==
    /\ listing = NoListing
    /\ d \in visit
    /\ visit' = visit \ {d}
    /\ listing' = IF d \in DOMAIN dirs /\ ~IsIgnored(d)
                  THEN [dir |-> d, files |-> FilesIn(d)] ELSE NoListing
    /\ silent' = (silent /\ <<visit, listing>>' # <<{}, NoListing>>)
    /\ missed' = IF d \in roots \ DOMAIN dirs THEN missed \cup {d} ELSE missed
    /\ UNCHANGED <<system, live, queue, watches, roots, closing, pending, owed>>

AddWatchUnchecked(d) ==
    IF d \in DOMAIN watches \/ d \notin DOMAIN dirs
    THEN live' = With(live, Dead, d) /\ UNCHANGED <<watches, queue, missed>>
    ELSE /\ live' = With(live, dirs[d], d)
         /\ watches' = With(watches, d, dirs[d])
         /\ missed' = missed \ {d}
         /\ UNCHANGED queue

OverflowSkipped ==
    /\ LoopFree /\ pending = {} /\ ~closing /\ queue # <<>>
    /\ Head(queue) = Overflow
    /\ queue' = Tail(queue)
    /\ UNCHANGED <<system, live, watches, roots, closing, pending, walk, owed, missed>>

CountBelow(R) ==
    MapThenSumSet(LAMBDA r : Cardinality({d \in Below(DOMAIN dirs, r) :
                                Len(d) > Len(r) /\ Last(d) \notin Ignored}), R)

----------------------------------------------------------------------------
(* _walk_add_watches: os.walk lists a directory, the loop body watches it. *)
(* A directory that is gone by then is skipped.  The synthetic events of   *)
(* the files are yielded at the end, or discarded if the walk is silent    *)
(* (set_roots): what it finds is library content, not news.                *)

ListDir(d) ==
    /\ listing = NoListing
    /\ d \in visit
    /\ visit' = (visit \ {d}) \cup {q \in SubDirs(d) : Last(q) \notin Ignored}
    /\ listing' = IF d \in DOMAIN dirs /\ ~IsIgnored(d)
                  THEN [dir |-> d, files |-> FilesIn(d)] ELSE NoListing
    /\ silent' = (silent /\ <<visit, listing>>' # <<{}, NoListing>>)
    /\ missed' = IF d \in roots \ DOMAIN dirs THEN missed \cup {d} ELSE missed
    /\ UNCHANGED <<system, live, queue, watches, roots, closing, pending, owed>>

(* _add_watch: known paths are left alone; a failure is only logged. *)
AddWatch(d) ==
    IF d \in DOMAIN watches THEN UNCHANGED <<live, watches, queue, missed>>
    ELSE IF \/ closing \/ d \notin DOMAIN dirs
            \/ dirs[d] \notin DOMAIN live /\ Cardinality(DOMAIN live) >= Limit
    THEN missed' = missed \cup {d} /\ UNCHANGED <<live, watches, queue>>
    ELSE /\ live' = With(live, dirs[d], d)
         /\ watches' = With(watches, d, dirs[d])
         /\ queue' = [n \in DOMAIN queue |-> IF queue[n].wd = dirs[d]
                                             THEN [queue[n] EXCEPT !.at = d] ELSE queue[n]]
         /\ missed' = missed \ {d}

Attach ==
    /\ listing # NoListing
    /\ AddWatch(listing.dir)
    /\ owed' = owed \ listing.files
    /\ listing' = NoListing
    /\ silent' = (silent /\ visit # {})
    /\ UNCHANGED <<system, roots, closing, pending, visit>>

----------------------------------------------------------------------------
(* events() *)

(* What _remove_watch_tree drops, and the descriptors it hands back. *)
Doomed(R) == {p \in DOMAIN watches : Covered(p, R)}
Revoked(R) == {watches[p] : p \in Doomed(R)} \ {Dead}

(* The removal just read is of an earlier directory of that name, and the  *)
(* event of the present one is lost, or was read before.                   *)
Late(path) ==
    IF /\ path \in DOMAIN dirs
       /\ \A n \in 2 .. Len(queue) : ~(Append(queue[n].at, queue[n].name) = path
                                        /\ queue[n].kind = "appeared")
    THEN {path} ELSE {}

(* The same directory was already found under another path, where it was   *)
(* renamed to: both paths had one descriptor.                              *)
Shared(R) == {p \in DOMAIN watches \ Doomed(R) : watches[p] \in Revoked(R)}

Reading == LoopFree /\ pending = {} /\ ~closing /\ queue # <<>>
Event == Head(queue)
EventPath == Append(Event.at, Event.name)

(* Re-attach the watches of all roots and report what they hold. *)
ReadOverflow ==
    /\ Reading /\ Event = Overflow
    /\ pending' = roots
    /\ queue' = Tail(queue)
    /\ UNCHANGED <<system, live, watches, roots, closing, walk, owed, missed>>

ReadIgnored ==
    /\ Reading /\ Event # Overflow /\ IsIgnored(EventPath)
    /\ queue' = Tail(queue)
    /\ UNCHANGED <<system, live, watches, roots, closing, pending, walk, owed, missed>>

ReadFile ==
    /\ Reading /\ Event # Overflow /\ Event.name \in FileName /\ ~IsIgnored(EventPath)
    /\ owed' = owed \ {EventPath}
    /\ queue' = Tail(queue)
    /\ UNCHANGED <<system, live, watches, roots, closing, pending, walk, missed>>

(* The event is yielded before the subtree is walked. *)
ReadNewDir ==
    /\ Reading /\ Event.name \in Name /\ ~IsIgnored(EventPath)
    /\ Event.kind = "appeared"
    /\ pending' = {EventPath}
    /\ queue' = Tail(queue)
    /\ UNCHANGED <<system, live, watches, roots, closing, walk, owed, missed>>

ReadGoneDir ==
    /\ Reading /\ Event.name \in Name /\ ~IsIgnored(EventPath)
    /\ Event.kind = "gone"
    /\ watches' = Kept(Doomed({EventPath}), Revoked({EventPath}))
    /\ live' = Unwatched(Revoked({EventPath}))
    /\ queue' = Void(Tail(queue), Revoked({EventPath}))
    /\ missed' = missed \cup Late(EventPath) \cup Shared({EventPath})
    /\ UNCHANGED <<system, roots, closing, pending, walk, owed>>

WalkNext(p) ==
    /\ LoopFree
    /\ p \in pending
    /\ pending' = pending \ {p}
    /\ visit' = {p}
    /\ silent' = FALSE
    /\ UNCHANGED <<system, live, queue, watches, roots, closing, listing, owed, missed>>

----------------------------------------------------------------------------
(* The engine's calls *)

(* What was there before is not reported. *)
SetRoots(new) ==
    /\ LoopFree /\ ~closing
    /\ watches' = Kept(Doomed(roots \ new), Revoked(roots \ new))
    /\ live' = Unwatched(Revoked(roots \ new))
    /\ queue' = Void(queue, Revoked(roots \ new))
    /\ visit' = new \ roots
    /\ silent' = (visit' # {})
    /\ roots' = new
    /\ owed' = {f \in owed : Covered(f, roots \cap new)}
    /\ missed' = missed \cup Shared(roots \ new)
    /\ UNCHANGED <<system, closing, pending, listing>>

Aclose ==
    /\ LoopFree /\ ~closing
    /\ closing' = TRUE
    /\ live' = <<>> /\ queue' = <<>> /\ watches' = <<>>
    /\ UNCHANGED <<system, roots, pending, walk, owed, missed>>

----------------------------------------------------------------------------
(* count_dirs: what the gate takes the watcher to need for the roots R.    *)
CountDirs(R) ==
    MapThenSumSet(LAMBDA r : Cardinality({d \in Below(DOMAIN dirs, r) :
                                \A i \in Len(r) + 1 .. Len(d) : d[i] \notin Ignored}), R)

Loop == \/ \E d \in visit : ListDir(d)
        \/ Attach
        \/ ReadOverflow \/ ReadIgnored \/ ReadFile \/ ReadNewDir \/ ReadGoneDir
        \/ \E p \in pending : WalkNext(p)

Next == \/ FileSystem
        \/ Loop
        \/ \E new \in RootSets : SetRoots(new)
        \/ Aclose

Spec == Init /\ [][Next]_vars

----------------------------------------------------------------------------
(* Properties *)

TypeOK == /\ DOMAIN dirs \subseteq DirPath /\ IsInjective(dirs) /\ Range(dirs) \subseteq Inode
          /\ changes \in 0 .. MaxChanges
          /\ files \subseteq FilePath /\ owed \subseteq files
          /\ DOMAIN live \subseteq Inode /\ Range(live) \subseteq DirPath
          /\ Len(queue) <= QueueMax + 1
          /\ DOMAIN watches \subseteq DirPath /\ Range(watches) \subseteq Inode \cup {Dead}
          /\ roots \in RootSets \cup {{}} /\ {closing, silent} \subseteq BOOLEAN
          /\ \A d \in pending \cup visit : d \in Seq(Name)
          /\ missed \subseteq DirPath \cup FilePath
          /\ listing.dir \in DirPath \cup {<<>>} /\ listing.files \subseteq FilePath

Quiet == LoopFree /\ pending = {} /\ queue = <<>> /\ ~closing
Visible == {d \in DOMAIN dirs : Covered(d, roots) /\ ~IsIgnored(d)}
Watched(d) == d \in DOMAIN watches /\ watches[d] = dirs[d] /\ live[dirs[d]] = d

(* The watcher sees nothing below a directory that it lost. *)
Blind(d) == \E p \in Upward(d) : p \in missed

(* "one watch per directory under each configured root": when there is     *)
(* nothing left to read, also after an overflow and at the watch limit.    *)
(* It fails with nested roots: set_roots drops every watch below a root it *)
(* removes, also those of a root that stays.                               *)
AllWatched == Quiet => \A d \in Visible : Watched(d) \/ Blind(d)

(* "close the window between mkdir and add_watch", and after an overflow   *)
(* "nothing is silently missed": every file that appeared is reported, but *)
(* for what slips between the listing of its directory and its add_watch.  *)
AllReported == Quiet => \A f \in owed : IsIgnored(f) \/ Blind(f)

(* As the comment has it, without that exception: false.                   *)
WindowClosed == Quiet => \A f \in owed : IsIgnored(f) \/ Blind(Parent(f))

(* "Measure the directories a config will watch": none is left out of the  *)
(* count that the gate compares with the kernel's limit.                   *)
GateCountsAll == Cardinality(Visible) <= CountDirs(roots)

==============================================================================
