----------------------------- MODULE StoreProofs -----------------------------
(***************************************************************************)
(* TLAPS proofs about the tables, for any number of requests beside each   *)
(* other, any bodies and any tables that satisfy the constraints at first. *)
(***************************************************************************)
EXTENDS Store, WellFoundedInduction, TLAPS

Op == {"none", "create", "patch", "save", "delete", "addFolder", "editFolder", "dropFolder"}
At == {"idle", "refused", "insert", "get", "load", "commit", "server", "owned", "add",
       "loadFolder", "commitFolder", "rebuild", "answer", "done"}
Body == Creates \cup Patches \cup Saves \cup Contents \cup {None}

Doing == [op : Op, at : At, server : ServerId \cup {None}, folder : FolderId \cup {None},
          body : Body, row : ServerRow \cup FolderRow \cup {None}, kids : SUBSET FolderId,
          wrote : BOOLEAN, rebuilt : BOOLEAN, code : Nat]

(* What each step finds in its request. *)
OfServer(q) == /\ q.op \in {"patch", "save", "delete"} /\ q.server \in ServerId
               /\ q.op = "patch" => q.body \in Patches
               /\ q.op = "save" => q.body \in Saves
OfFolder(q) == /\ q.op \in {"addFolder", "editFolder", "dropFolder"} /\ q.server \in ServerId
               /\ q.op # "dropFolder" => q.body \in Contents
               /\ q.op # "addFolder" => q.folder \in FolderId
StepFinds(q) ==
    /\ q.at = "insert" => q.op = "create" /\ q.body \in Creates
    /\ q.at = "get" => OfServer(q) /\ q.op # "delete"
    /\ q.at = "load" => OfServer(q)
    /\ q.at = "commit" => OfServer(q) /\ q.row \in ServerRow
    /\ q.at = "server" => OfFolder(q)
    /\ q.at = "add" => OfFolder(q) /\ q.op = "addFolder"
    /\ q.at \in {"owned", "loadFolder"} => OfFolder(q) /\ q.op # "addFolder"
    /\ q.at = "commitFolder" => OfFolder(q) /\ q.op # "addFolder" /\ q.row \in FolderRow

(* A request that wrote has only the rebuild and its answer before it. *)
WroteThenRebuilds(q) == q.wrote => \/ q.at = "rebuild"
                                   \/ q.at \in {"answer", "done"} /\ q.rebuilt

ReqOk == /\ req \in [Request -> Doing]
         /\ \A r \in Request : StepFinds(req[r]) /\ WroteThenRebuilds(req[r])

(* The constraint on the names, which an update checks against the row it  *)
(* has read before.                                                        *)
NamesUnique == \A s, t \in ServerRows : servers[s].name = servers[t].name => s = t

TablesOk == /\ servers \in [ServerId -> ServerRow \cup {None}]
            /\ folders \in [FolderId -> FolderRow \cup {None}]
            /\ NoOrphans /\ NamesUnique

IInv == TablesOk /\ ReqOk

----------------------------------------------------------------------------
(* The library defines the maximum by a choice; a bounded set has one.     *)
LEMMA MaxExists ==
    ASSUME NEW n \in Nat, NEW S \in SUBSET (0 .. n), S # {}
    PROVE  Max(S) \in S /\ \A y \in S : Max(S) >= y
<1> DEFINE T == {n - x : x \in S}
<1>1. T \subseteq Nat /\ T # {}
  <2>1. \A x \in S : x \in Nat /\ x <= n /\ n - x \in Nat
    OBVIOUS
  <2>2. T \subseteq Nat
    BY <2>1
  <2>3. PICK x \in S : TRUE
    OBVIOUS
  <2>4. n - x \in T
    OBVIOUS
  <2> QED
    BY <2>2, <2>4
<1> DEFINE Less == {ss \in Nat \X Nat : ss[1] < ss[2]}
<1>2. IsWellFoundedOn(Less, Nat)
  BY NatLessThanWellFounded, Zenon DEF OpToRel
<1> HIDE DEF T
<1>3. PICK m \in T : \A y \in T : m <= y
  <2> HIDE DEF Less
  <2>1. \E m \in T : \A y \in T : ~ (<<y, m>> \in Less)
    BY <1>1, <1>2, WFMin
  <2>2. PICK m \in T : \A y \in T : ~ (<<y, m>> \in Less)
    BY <2>1
  <2>3. ASSUME NEW y \in T PROVE m <= y
    <3>1. m \in Nat /\ y \in Nat /\ <<y, m>> \notin Less
      BY <1>1, <2>2
    <3>2. ~ (y < m)
      BY <3>1 DEF Less
    <3> QED
      BY <3>1, <3>2
  <2> QED
    BY <2>3
<1>4. PICK x \in S : m = n - x
  BY DEF T
<1>5. \A y \in S : x >= y
  <2> SUFFICES ASSUME NEW y \in S PROVE x >= y
    OBVIOUS
  <2>1. n - y \in T /\ x \in 0 .. n /\ y \in 0 .. n
    BY DEF T
  <2>2. m <= n - y
    BY <1>3, <2>1
  <2> QED
    BY <1>4, <2>1, <2>2
<1> QED
  BY <1>5, Zenon DEF Max

(* The next id is above every id in use. *)
LEMMA TopAbove ==
    ASSUME NEW n \in Nat, NEW S \in SUBSET (1 .. n)
    PROVE  Top(S) \in 0 .. n /\ \A y \in S : y <= Top(S)
<1>1. CASE S = {}
  BY <1>1 DEF Top
<1>2. CASE S # {}
  <2>1. S \subseteq 0 .. n
    OBVIOUS
  <2>2. Max(S) \in S /\ \A y \in S : Max(S) >= y
    BY <1>2, <2>1, MaxExists
  <2>3. Top(S) = Max(S)
    BY <1>2 DEF Top
  <2> QED
    BY <2>1, <2>2, <2>3
<1> QED
  BY <1>1, <1>2

(* An update makes a row of a row. *)
LEMMA UpdatedIsRow ==
    ASSUME NEW s \in ServerId, servers[s] \in ServerRow, NEW row \in ServerRow,
           NEW body \in Patches \cup Saves
    PROVE  Updated(s, row, body) \in ServerRow
<1>1. DOMAIN servers[s] = {"name", "secure", "secret"}
  BY DEF ServerRow
<1>2. "name" \in Changes(row, body) => body.name \in Name
  BY BodyAssumption DEF Changes, Sent
<1>3. "secure" \in Changes(row, body) => body.secure \in BOOLEAN
  BY BodyAssumption DEF Changes, Sent
<1>4. Secret(row, body) \in Secrets
  BY BodyAssumption DEF Secret, ServerRow
<1> QED
  BY <1>1, <1>2, <1>3, <1>4 DEF Updated, ServerRow

(* New folders are of the server they are added to; the others stay. *)
LEMMA NewFoldersAre ==
    ASSUME TablesOk, NEW s \in ServerId, NEW paths \in Seq(Path), NEW without
    PROVE  /\ NewFolders(s, paths, without) \in [FolderId -> FolderRow \cup {None}]
           /\ \A f \in FolderId : \/ NewFolders(s, paths, without)[f] \in {None, folders[f]}
                                  \/ /\ NewFolders(s, paths, without)[f].server = s
                                     /\ paths # <<>>
<1> DEFINE New == NewFolders(s, paths, without)
<1>1. ASSUME NEW f \in FolderId
      PROVE  /\ New[f] \in FolderRow \cup {None}
             /\ New[f] \in {None, folders[f]} \/ (New[f].server = s /\ paths # <<>>)
  <2> DEFINE i == f - Top(FolderRows)
  <2>1. New[f] = IF f \in without THEN None
                 ELSE IF i \in DOMAIN paths THEN [server |-> s, path |-> paths[i]] ELSE folders[f]
    BY DEF NewFolders
  <2>2. folders[f] \in FolderRow \cup {None}
    BY DEF TablesOk
  <2> HIDE DEF New, i
  <2>3. CASE i \in DOMAIN paths /\ f \notin without
    <3>1. paths # <<>> /\ paths[i] \in Path
      BY <2>3
    <3> QED
      BY <2>1, <2>3, <3>1 DEF FolderRow
  <2>4. CASE ~ (i \in DOMAIN paths /\ f \notin without)
    BY <2>1, <2>2, <2>4
  <2> QED
    BY <2>3, <2>4
<1>2. New = [f \in FolderId |-> New[f]]
  BY DEF NewFolders
<1> HIDE DEF New
<1> QED
  BY <1>1, <1>2 DEF New

(* The steps of a request keep it in order. *)
LEMMA ReqKept ==
    ASSUME ReqOk, NEW r \in Request, NEW q \in Doing, StepFinds(q), WroteThenRebuilds(q),
           req' = [req EXCEPT ![r] = q]
    PROVE  ReqOk'
BY DEF ReqOk

LEMMA AnswersOk ==
    ASSUME ReqOk, NEW r \in Request, NEW code \in Nat, Answers(r, code), req[r].at # "rebuild"
    PROVE  ReqOk'
<1> DEFINE q == [req[r] EXCEPT !.at = "done", !.code = code]
<1>1. req[r] \in Doing /\ StepFinds(req[r]) /\ WroteThenRebuilds(req[r])
  BY DEF ReqOk
<1>2. q \in Doing /\ q.at = "done" /\ q.wrote = req[r].wrote /\ q.rebuilt = req[r].rebuilt
  BY <1>1 DEF Doing, At
<1>3. req' = [req EXCEPT ![r] = q]
  BY DEF Answers, ReqOk
<1> HIDE DEF q
<1>4. StepFinds(q) /\ WroteThenRebuilds(q)
  BY <1>1, <1>2 DEF StepFinds, WroteThenRebuilds
<1> QED
  BY <1>2, <1>3, <1>4, ReqKept

LEMMA WroteOk == ASSUME ReqOk, NEW r \in Request, Wrote(r, AfterWrite(r)) PROVE ReqOk'
<1> DEFINE q == [req[r] EXCEPT !.at = "rebuild", !.wrote = TRUE]
<1>1. req[r] \in Doing /\ StepFinds(req[r]) /\ WroteThenRebuilds(req[r])
  BY DEF ReqOk
<1>2. q \in Doing /\ q.at = "rebuild"
  BY <1>1 DEF Doing, At
<1>3. req' = [req EXCEPT ![r] = q]
  BY DEF Wrote, AfterWrite, ReqOk
<1> HIDE DEF q
<1>4. StepFinds(q) /\ WroteThenRebuilds(q)
  BY <1>1, <1>2 DEF StepFinds, WroteThenRebuilds
<1> QED
  BY <1>2, <1>3, <1>4, ReqKept

LEMMA GoesOk ==
    ASSUME ReqOk, NEW r \in Request, NEW at \in At, Goes(r, at),
           req[r].at \notin {"rebuild", "answer", "done"},
           StepFinds([req[r] EXCEPT !.at = at])
    PROVE  ReqOk'
<1> DEFINE q == [req[r] EXCEPT !.at = at]
<1>1. req[r] \in Doing /\ WroteThenRebuilds(req[r])
  BY DEF ReqOk
<1>2. q \in Doing /\ q.wrote = req[r].wrote
  BY <1>1 DEF Doing, At
<1>3. req' = [req EXCEPT ![r] = q]
  BY DEF Goes, ReqOk
<1> HIDE DEF q
<1>4. WroteThenRebuilds(q)
  BY <1>1, <1>2 DEF WroteThenRebuilds
<1> QED
  BY <1>2, <1>3, <1>4, ReqKept DEF q

(* A request begins. *)
LEMMA BeginInv == ASSUME IInv, NEW r \in Request, Begin(r) PROVE IInv'
<1>1. ASSUME NEW op \in Op, NEW at \in At, NEW s \in ServerId \cup {None},
             NEW f \in FolderId \cup {None}, NEW body \in Body, Begins(r, op, at, s, f, body),
             StepFinds([Idle EXCEPT !.op = op, !.at = at, !.server = s, !.folder = f, !.body = body])
      PROVE  IInv'
  <2> DEFINE q == [Idle EXCEPT !.op = op, !.at = at, !.server = s, !.folder = f, !.body = body]
  <2>1. q \in Doing /\ q.wrote = FALSE
    <3>1. Idle \in Doing /\ Idle.wrote = FALSE
      BY DEF Idle, Doing, Op, At, Body
    <3> QED
      BY <3>1 DEF Doing
  <2>2. WroteThenRebuilds(q)
    BY <2>1 DEF WroteThenRebuilds
  <2>3. req' = [req EXCEPT ![r] = q] /\ UNCHANGED tables
    BY <1>1 DEF Begins
  <2>4. ReqOk'
    BY <1>1, <2>1, <2>2, <2>3, ReqKept DEF IInv
  <2> QED
    BY <2>3, <2>4 DEF IInv, TablesOk, NoOrphans, NamesUnique, tables, ServerRows, FolderRows
<1> USE DEF StepFinds, Idle, Op, At, Body, OfServer, OfFolder
<1>2. CASE CreateServer(r)
  <2>1. PICK body \in Creates :
          Begins(r, "create", IF CreateRefused(body) THEN "refused" ELSE "insert", None, None, body)
    BY <1>2 DEF CreateServer
  <2> QED
    BY <1>1, <2>1
<1>3. CASE UpdateServer(r)
  <2>1. PICK s \in ServerId, body \in Patches : Begins(r, "patch", "get", s, None, body)
    BY <1>3 DEF UpdateServer
  <2> QED
    BY <1>1, <2>1
<1>4. CASE SaveServer(r)
  <2>1. PICK s \in ServerId, body \in Saves : Begins(r, "save", "get", s, None, body)
    BY <1>4 DEF SaveServer
  <2> QED
    BY <1>1, <2>1
<1>5. CASE DeleteServer(r)
  <2>1. PICK s \in ServerId : Begins(r, "delete", "load", s, None, None)
    BY <1>5 DEF DeleteServer
  <2> QED
    BY <1>1, <2>1
<1>6. CASE FolderRequest(r)
  <2>1. PICK s \in ServerId, f \in FolderId, path \in Contents :
          \/ Begins(r, "addFolder", "server", s, None, path)
          \/ Begins(r, "editFolder", "server", s, f, path)
          \/ Begins(r, "dropFolder", "server", s, f, None)
    BY <1>6 DEF FolderRequest
  <2>2. CASE Begins(r, "addFolder", "server", s, None, path)
    BY <1>1, <2>2
  <2>3. CASE Begins(r, "editFolder", "server", s, f, path)
    BY <1>1, <2>3
  <2>4. CASE Begins(r, "dropFolder", "server", s, f, None)
    BY <1>1, <2>4
  <2> QED
    BY <2>1, <2>2, <2>3, <2>4
<1> QED
  BY <1>2, <1>3, <1>4, <1>5, <1>6 DEF Begin

(* The steps that only read, and the rebuild. *)
LEMMA ReadInv ==
    ASSUME IInv, NEW r \in Request,
           Refused(r) \/ Get(r) \/ Load(r) \/ RequireServer(r) \/ OwnedFolder(r) \/ LoadFolder(r)
             \/ Rebuild(r) \/ Answer(r)
    PROVE  IInv'
<1>1. UNCHANGED tables
  BY DEF Refused, Get, Load, RequireServer, OwnedFolder, LoadFolder, Rebuild, Answer
<1>2. ReqOk /\ req[r] \in Doing /\ StepFinds(req[r]) /\ WroteThenRebuilds(req[r])
  BY DEF IInv, ReqOk
<1>3. SUFFICES ReqOk'
  BY <1>1 DEF IInv, TablesOk, NoOrphans, NamesUnique, tables, ServerRows, FolderRows
<1>4. \A at \in At : [req[r] EXCEPT !.at = at] =
        [op |-> req[r].op, at |-> at, server |-> req[r].server, folder |-> req[r].folder,
         body |-> req[r].body, row |-> req[r].row, kids |-> req[r].kids, wrote |-> req[r].wrote,
         rebuilt |-> req[r].rebuilt, code |-> req[r].code]
  BY <1>2 DEF Doing
<1>5. CASE Refused(r)
  BY <1>2, <1>5, AnswersOk DEF Refused
<1>6. CASE Get(r)
  <2>1. StepFinds([req[r] EXCEPT !.at = "refused"]) /\ StepFinds([req[r] EXCEPT !.at = "load"])
    BY <1>2, <1>4, <1>6 DEF Get, StepFinds, OfServer, At
  <2> QED
    <3>1. req[r].at = "get" /\ (Answers(r, 404) \/ Goes(r, "refused") \/ Goes(r, "load"))
      BY <1>6 DEF Get
    <3>2. "refused" \in At /\ "load" \in At /\ 404 \in Nat
      BY DEF At
    <3> QED
      BY <1>2, <2>1, <3>1, <3>2, AnswersOk, GoesOk
<1>7. CASE Load(r)
  <2> DEFINE s == req[r].server
             q == [req[r] EXCEPT !.at = "commit", !.row = servers[s],
                                 !.kids = IF req[r].op = "patch" THEN {} ELSE FoldersOf(s)]
  <2>1. req[r].at = "load" /\ OfServer(req[r]) /\ s \in ServerId
    BY <1>2, <1>7 DEF Load, StepFinds, OfServer
  <2>2. CASE servers[s] = None /\ req[r].op = "delete"
    <3>1. Goes(r, "rebuild")
      BY <1>7, <2>2 DEF Load
    <3>2. StepFinds([req[r] EXCEPT !.at = "rebuild"])
      BY <1>4 DEF StepFinds, At
    <3> QED
      BY <1>2, <2>1, <3>1, <3>2, GoesOk DEF At
  <2>3. CASE servers[s] = None /\ req[r].op # "delete"
    <3>1. Answers(r, 404)
      BY <1>7, <2>3 DEF Load
    <3> QED
      BY <1>2, <2>1, <3>1, AnswersOk
  <2>4. CASE servers[s] # None
    <3>1. req' = [req EXCEPT ![r] = q]
      BY <1>2, <1>7, <2>4 DEF Load, ReqOk
    <3>2. servers[s] \in ServerRow
      BY <2>1, <2>4 DEF IInv, TablesOk
    <3>3. q \in Doing /\ q.at = "commit" /\ q.op = req[r].op /\ q.server = s /\ q.body = req[r].body
          /\ q.row = servers[s] /\ q.wrote = req[r].wrote
      BY <1>2, <3>2 DEF Doing, At, FoldersOf, FolderRows
    <3> HIDE DEF q
    <3>4. StepFinds(q) /\ WroteThenRebuilds(q)
      BY <1>2, <2>1, <3>2, <3>3 DEF StepFinds, WroteThenRebuilds, OfServer
    <3> QED
      BY <1>2, <3>1, <3>3, <3>4, ReqKept
  <2> QED
    BY <2>2, <2>3, <2>4
<1>8. CASE RequireServer(r)
  <2>1. /\ req[r].op = "addFolder" => StepFinds([req[r] EXCEPT !.at = "add"])
        /\ req[r].op # "addFolder" => StepFinds([req[r] EXCEPT !.at = "owned"])
    BY <1>2, <1>4, <1>8 DEF RequireServer, StepFinds, OfFolder, At
  <2> QED
    <3>1. /\ req[r].at = "server"
          /\ \/ Answers(r, 404)
             \/ req[r].op = "addFolder" /\ Goes(r, "add")
             \/ req[r].op # "addFolder" /\ Goes(r, "owned")
      BY <1>8 DEF RequireServer
    <3>2. "add" \in At /\ "owned" \in At /\ 404 \in Nat
      BY DEF At
    <3> QED
      BY <1>2, <2>1, <3>1, <3>2, AnswersOk, GoesOk
<1>9. CASE OwnedFolder(r)
  <2>1. StepFinds([req[r] EXCEPT !.at = "loadFolder"])
    BY <1>2, <1>4, <1>9 DEF OwnedFolder, StepFinds, OfFolder, At
  <2> QED
    <3>1. req[r].at = "owned" /\ (Answers(r, 404) \/ Goes(r, "loadFolder"))
      BY <1>9 DEF OwnedFolder
    <3>2. "loadFolder" \in At /\ 404 \in Nat
      BY DEF At
    <3> QED
      BY <1>2, <2>1, <3>1, <3>2, AnswersOk, GoesOk
<1>10. CASE LoadFolder(r)
  <2> DEFINE f == req[r].folder
             q == [req[r] EXCEPT !.at = "commitFolder", !.row = folders[f]]
  <2>1. req[r].at = "loadFolder" /\ OfFolder(req[r]) /\ req[r].op # "addFolder" /\ f \in FolderId
    BY <1>2, <1>10 DEF LoadFolder, StepFinds, OfFolder
  <2>2. CASE f \in FolderRows
    <3>1. req' = [req EXCEPT ![r] = q]
      BY <1>2, <1>10, <2>2 DEF LoadFolder, ReqOk
    <3>2. folders[f] \in FolderRow
      BY <2>1, <2>2 DEF IInv, TablesOk, FolderRows
    <3>3. q \in Doing /\ q.at = "commitFolder" /\ q.op = req[r].op /\ q.server = req[r].server
          /\ q.body = req[r].body /\ q.folder = f /\ q.row = folders[f] /\ q.wrote = req[r].wrote
      BY <1>2, <3>2 DEF Doing, At
    <3> HIDE DEF q
    <3>4. StepFinds(q) /\ WroteThenRebuilds(q)
      BY <1>2, <2>1, <3>2, <3>3 DEF StepFinds, WroteThenRebuilds, OfFolder
    <3> QED
      BY <1>2, <3>1, <3>3, <3>4, ReqKept
  <2>3. CASE f \notin FolderRows /\ req[r].op = "editFolder"
    <3>1. Answers(r, 500)
      BY <1>10, <2>3 DEF LoadFolder
    <3> QED
      BY <1>2, <2>1, <3>1, AnswersOk
  <2>4. CASE f \notin FolderRows /\ req[r].op # "editFolder"
    <3>1. Goes(r, "rebuild")
      BY <1>10, <2>4 DEF LoadFolder
    <3>2. StepFinds([req[r] EXCEPT !.at = "rebuild"])
      BY <1>4 DEF StepFinds, At
    <3> QED
      BY <1>2, <2>1, <3>1, <3>2, GoesOk DEF At
  <2> QED
    BY <2>2, <2>3, <2>4
<1>11. CASE Rebuild(r)
  <2> DEFINE q == [req[r] EXCEPT !.at = "answer", !.rebuilt = TRUE]
  <2>1. req' = [req EXCEPT ![r] = q]
    BY <1>2, <1>11 DEF Rebuild, ReqOk
  <2>2. q \in Doing /\ q.at = "answer" /\ q.rebuilt = TRUE
    BY <1>2 DEF Doing, At
  <2> HIDE DEF q
  <2>3. StepFinds(q) /\ WroteThenRebuilds(q)
    BY <2>2 DEF StepFinds, WroteThenRebuilds
  <2> QED
    BY <1>2, <2>1, <2>2, <2>3, ReqKept
<1>12. CASE Answer(r)
  <2>1. PICK code \in Nat : Answers(r, code)
    BY <1>12 DEF Answer
  <2> QED
    BY <1>2, <1>12, <2>1, AnswersOk DEF Answer
<1> QED
  BY <1>5, <1>6, <1>7, <1>8, <1>9, <1>10, <1>11, <1>12

(* The ids the tables give out. *)
LEMMA TopIds ==
    /\ Top(ServerRows) \in Nat /\ \A s \in ServerRows : s <= Top(ServerRows)
    /\ Top(FolderRows) \in Nat /\ \A f \in FolderRows : f <= Top(FolderRows)
<1>1. /\ MaxServers \in Nat /\ MaxFolders \in Nat
      /\ ServerRows \subseteq 1 .. MaxServers /\ FolderRows \subseteq 1 .. MaxFolders
  BY BoundAssumption DEF ServerRows, FolderRows, ServerId, FolderId
<1>2. Top(ServerRows) \in 0 .. MaxServers /\ \A s \in ServerRows : s <= Top(ServerRows)
  BY <1>1, TopAbove
<1>3. Top(FolderRows) \in 0 .. MaxFolders /\ \A f \in FolderRows : f <= Top(FolderRows)
  BY <1>1, TopAbove
<1> QED
  BY <1>1, <1>2, <1>3

(* A server is created with its folders, or its name was taken. *)
LEMMA InsertInv == ASSUME IInv, NEW r \in Request, Insert(r) PROVE IInv'
<1> DEFINE body == req[r].body
           s == Top(ServerRows) + 1
           row == NewRow(body)
<1>1. ReqOk /\ req[r] \in Doing /\ req[r].at = "insert" /\ body \in Creates
  BY DEF IInv, ReqOk, Insert, StepFinds
<1>2. row \in ServerRow /\ row # None /\ body.paths \in Seq(Path)
  BY <1>1, BodyAssumption, NoneAssumption DEF NewRow, ServerRow
<1>3. s \in ServerId
  BY TopIds, BoundAssumption DEF Insert, ServerId
<1> HIDE DEF s, row
<1>4. CASE NameTaken(row.name, s)
  <2>1. Answers(r, 409) /\ UNCHANGED tables
    BY <1>4 DEF Insert, InsertServer, Answers, row, s
  <2> QED
    BY <1>1, <2>1, AnswersOk DEF IInv, TablesOk, NoOrphans, NamesUnique, tables, ServerRows, FolderRows
<1>5. CASE ~NameTaken(row.name, s)
  <2> DEFINE q == [req[r] EXCEPT !.at = "rebuild", !.wrote = TRUE, !.server = s]
  <2>1. req' = [req EXCEPT ![r] = q]
    BY <1>1, <1>5 DEF Insert, ReqOk, row, s
  <2>2. q \in Doing /\ q.at = "rebuild"
    BY <1>1, <1>3 DEF Doing, At
  <2> HIDE DEF q
  <2>3. ReqOk'
    BY <1>1, <2>1, <2>2, ReqKept DEF StepFinds, WroteThenRebuilds
  <2>4. servers' = [servers EXCEPT ![s] = row] /\ folders' = NewFolders(s, body.paths, {})
    BY <1>5 DEF Insert, InsertServer, row, s
  <2>5. /\ servers' \in [ServerId -> ServerRow \cup {None}]
        /\ ServerRows' = ServerRows \cup {s}
        /\ \A t \in ServerId : servers'[t] = IF t = s THEN row ELSE servers[t]
    BY <1>2, <1>3, <2>4 DEF IInv, TablesOk, ServerRows
  <2>6. /\ folders' \in [FolderId -> FolderRow \cup {None}]
        /\ \A f \in FolderId : folders'[f] \in {None, folders[f]} \/ folders'[f].server = s
    BY <1>2, <1>3, <2>4, NewFoldersAre DEF IInv
  <2>7. NoOrphans'
    BY <2>5, <2>6 DEF IInv, TablesOk, NoOrphans, FolderRows
  <2>8. NamesUnique'
    BY <1>5, <2>5 DEF IInv, TablesOk, NamesUnique, NameTaken, ServerRows
  <2> QED
    BY <2>3, <2>5, <2>6, <2>7, <2>8 DEF IInv, TablesOk
<1> QED
  BY <1>4, <1>5

(* An update writes its changes into the row as it is by then. *)
LEMMA CommitInv == ASSUME IInv, NEW r \in Request, Commit(r) PROVE IInv'
<1> DEFINE s == req[r].server
           row == req[r].row
           body == req[r].body
           paths == IF req[r].op = "save" THEN body.paths ELSE <<>>
           changed == Changes(row, body) # {}
<1>1. /\ ReqOk /\ req[r] \in Doing /\ req[r].at = "commit" /\ s \in ServerId /\ row \in ServerRow
      /\ body \in Patches \cup Saves
  BY DEF IInv, ReqOk, Commit, StepFinds, OfServer
<1>2. paths \in Seq(Path)
  <2>1. CASE req[r].op = "save"
    <3>1. body \in Saves
      BY <1>1, <2>1 DEF IInv, ReqOk, StepFinds, OfServer
    <3> QED
      BY <2>1, <3>1, BodyAssumption
  <2>2. CASE req[r].op # "save"
    BY <2>2
  <2> QED
    BY <2>1, <2>2
<1>3. CASE UNCHANGED tables /\ \E code \in Nat : Answers(r, code)
  BY <1>1, <1>3, AnswersOk DEF IInv, TablesOk, NoOrphans, NamesUnique, tables, ServerRows, FolderRows
<1>4. CASE /\ servers[s] = None => ~changed /\ paths = <<>>
           /\ servers[s] # None => ~Conflict(r)
           /\ Wrote(r, AfterWrite(r))
           /\ servers' = IF changed THEN [servers EXCEPT ![s] = Updated(s, row, body)] ELSE servers
           /\ folders' = NewFolders(s, paths, req[r].kids)
  <2> HIDE DEF paths
  <2>1. ReqOk'
    BY <1>1, <1>4, WroteOk
  <2>2. /\ folders' \in [FolderId -> FolderRow \cup {None}]
        /\ \A f \in FolderId : folders'[f] \in {None, folders[f]} \/ (folders'[f].server = s /\ s \in ServerRows)
    BY <1>1, <1>2, <1>4, NewFoldersAre DEF IInv, ServerRows
  <2>3. /\ servers' \in [ServerId -> ServerRow \cup {None}]
        /\ ServerRows' = ServerRows
        /\ changed => /\ s \in ServerRows
                      /\ \A t \in ServerId : servers'[t] = IF t = s THEN Updated(s, row, body) ELSE servers[t]
        /\ ~changed => servers' = servers
    <3>1. CASE changed
      <4>1. servers[s] \in ServerRow
        BY <1>1, <1>4, <3>1 DEF IInv, TablesOk
      <4>2. Updated(s, row, body) \in ServerRow /\ Updated(s, row, body) # None
        BY <1>1, <4>1, UpdatedIsRow, NoneAssumption
      <4> QED
        BY <1>1, <1>4, <3>1, <4>1, <4>2 DEF IInv, TablesOk, ServerRows
    <3>2. CASE ~changed
      BY <1>4, <3>2 DEF IInv, TablesOk, ServerRows
    <3> QED
      BY <3>1, <3>2
  <2>4. NoOrphans'
    BY <2>2, <2>3 DEF IInv, TablesOk, NoOrphans, FolderRows
  <2>5. NamesUnique'
    <3>1. CASE changed /\ "name" \in Changes(row, body)
      <4>1. ~NameTaken(body.name, s) /\ s \in ServerRows
        BY <1>4, <2>3, <3>1 DEF Conflict, ServerRows
      <4>2. DOMAIN servers[s] = {"name", "secure", "secret"}
        BY <1>1, <4>1 DEF IInv, TablesOk, ServerRows, ServerRow
      <4>3. Updated(s, row, body).name = body.name
        BY <3>1, <4>2 DEF Updated
      <4> QED
        BY <2>3, <3>1, <4>1, <4>3 DEF IInv, TablesOk, NamesUnique, NameTaken, ServerRows
    <3>2. CASE changed /\ "name" \notin Changes(row, body)
      <4>1. servers[s] \in ServerRow /\ DOMAIN servers[s] = {"name", "secure", "secret"}
        BY <1>1, <2>3, <3>2 DEF IInv, TablesOk, ServerRows, ServerRow
      <4>2. Updated(s, row, body).name = servers[s].name
        BY <3>2, <4>1 DEF Updated
      <4> QED
        BY <2>3, <3>2, <4>2 DEF IInv, TablesOk, NamesUnique, ServerRows
    <3>3. CASE ~changed
      BY <2>3, <3>3 DEF IInv, TablesOk, NamesUnique
    <3> QED
      BY <3>1, <3>2, <3>3
  <2> QED
    BY <2>1, <2>2, <2>3, <2>4, <2>5 DEF IInv, TablesOk
<1> QED
  BY <1>3, <1>4 DEF Commit

(* A deletion takes every folder of the server, read or added since. *)
LEMMA CommitDeleteInv == ASSUME IInv, NEW r \in Request, CommitDelete(r) PROVE IInv'
<1> DEFINE s == req[r].server
           gone == Cascade(s, req[r].kids)
<1>1. /\ Wrote(r, AfterWrite(r)) /\ servers' = [servers EXCEPT ![s] = None]
      /\ folders' = [f \in FolderId |-> IF f \in gone THEN None ELSE folders[f]]
  BY DEF CommitDelete
<1>2. ReqOk'
  BY <1>1, WroteOk DEF IInv
<1>3. /\ servers' \in [ServerId -> ServerRow \cup {None}]
      /\ ServerRows' = ServerRows \ {s}
      /\ \A t \in ServerRows' : servers'[t] = servers[t]
  BY <1>1 DEF IInv, TablesOk, ServerRows
<1>4. folders' \in [FolderId -> FolderRow \cup {None}]
  BY <1>1 DEF IInv, TablesOk
<1>5. NoOrphans'
  <2>1. \A f \in FolderRows' : f \in FolderRows /\ folders'[f] = folders[f] /\ folders[f].server # s
    BY <1>1 DEF FolderRows, Cascade, FoldersOf
  <2> QED
    BY <1>3, <2>1 DEF IInv, TablesOk, NoOrphans
<1>6. NamesUnique'
  BY <1>3 DEF IInv, TablesOk, NamesUnique
<1> QED
  BY <1>2, <1>3, <1>4, <1>5, <1>6 DEF IInv, TablesOk

(* A folder is added to a server that is still there. *)
LEMMA AddFolderInv == ASSUME IInv, NEW r \in Request, AddFolder(r) PROVE IInv'
<1> DEFINE s == req[r].server
           f == Top(FolderRows) + 1
           q == [req[r] EXCEPT !.at = AfterWrite(r), !.wrote = TRUE, !.folder = f]
           paths == <<req[r].body>>
<1>1. /\ ReqOk /\ req[r] \in Doing /\ req[r].at = "add" /\ s \in ServerId
      /\ req[r].body \in Contents
  BY DEF IInv, ReqOk, AddFolder, StepFinds, OfFolder
<1>2. paths \in Seq(Path) /\ Len(paths) = 1
  BY <1>1, BodyAssumption
<1>3. CASE servers[s] = None
  BY <1>1, <1>3, AnswersOk
     DEF AddFolder, IInv, TablesOk, NoOrphans, NamesUnique, tables, ServerRows, FolderRows
<1>4. CASE servers[s] # None
  <2>1. /\ folders' = NewFolders(s, paths, {}) /\ servers' = servers
        /\ req' = [req EXCEPT ![r] = q]
    BY <1>1, <1>4 DEF AddFolder, ReqOk
  <2>2. f \in FolderId
    BY <1>2, TopIds, BoundAssumption DEF AddFolder, RoomFor, FolderId
  <2>3. q \in Doing /\ q.at = "rebuild"
    BY <1>1, <2>2 DEF Doing, At, AfterWrite
  <2> HIDE DEF q, f, paths
  <2>4. ReqOk'
    BY <1>1, <2>1, <2>3, ReqKept DEF StepFinds, WroteThenRebuilds
  <2>5. /\ folders' \in [FolderId -> FolderRow \cup {None}]
        /\ \A g \in FolderId : folders'[g] \in {None, folders[g]} \/ folders'[g].server = s
    BY <1>1, <1>2, <2>1, NewFoldersAre DEF IInv
  <2>6. NoOrphans' /\ NamesUnique'
    BY <1>1, <1>4, <2>1, <2>5 DEF IInv, TablesOk, NoOrphans, NamesUnique, FolderRows, ServerRows
  <2> QED
    BY <2>1, <2>4, <2>5, <2>6 DEF IInv, TablesOk
<1> QED
  BY <1>3, <1>4

(* A folder is edited where it is, or deleted. *)
LEMMA CommitFolderInv == ASSUME IInv, NEW r \in Request, CommitFolder(r) PROVE IInv'
<1> DEFINE f == req[r].folder
<1>1. /\ ReqOk /\ req[r] \in Doing /\ req[r].at = "commitFolder" /\ f \in FolderId
      /\ OfFolder(req[r]) /\ req[r].op # "addFolder"
  BY DEF IInv, ReqOk, CommitFolder, StepFinds, OfFolder
<1>2. ReqOk'
  <2>1. Wrote(r, AfterWrite(r)) \/ Answers(r, 500)
    BY DEF CommitFolder
  <2> QED
    BY <1>1, <2>1, WroteOk, AnswersOk
<1>3. /\ servers' = servers
      /\ \/ folders' = folders
         \/ folders' = [folders EXCEPT ![f] = None]
         \/ /\ f \in FolderRows /\ req[r].body \in Path
            /\ folders' = [folders EXCEPT ![f].path = req[r].body]
  BY <1>1, BodyAssumption DEF CommitFolder, OfFolder
<1>4. /\ folders' \in [FolderId -> FolderRow \cup {None}]
      /\ \A g \in FolderId : \/ folders'[g] \in {None, folders[g]}
                             \/ g \in FolderRows /\ folders'[g].server = folders[g].server
  <2>1. folders \in [FolderId -> FolderRow \cup {None}]
    BY DEF IInv, TablesOk
  <2>2. CASE folders' = folders
    BY <2>1, <2>2
  <2>3. CASE folders' = [folders EXCEPT ![f] = None]
    <3>1. \A g \in FolderId : folders'[g] = None \/ folders'[g] = folders[g]
      BY <2>1, <2>3
    <3>2. folders' \in [FolderId -> FolderRow \cup {None}]
      BY <2>1, <2>3
    <3> QED
      BY <3>1, <3>2
  <2>4. CASE f \in FolderRows /\ req[r].body \in Path /\ folders' = [folders EXCEPT ![f].path = req[r].body]
    <3>1. folders[f] \in FolderRow
      BY <2>1, <2>4 DEF FolderRows
    <3>2. /\ [folders[f] EXCEPT !.path = req[r].body] \in FolderRow
          /\ [folders[f] EXCEPT !.path = req[r].body].server = folders[f].server
      BY <2>4, <3>1 DEF FolderRow
    <3>3. folders' = [folders EXCEPT ![f] = [folders[f] EXCEPT !.path = req[r].body]]
      BY <2>4
    <3> QED
      BY <1>1, <2>1, <2>4, <3>2, <3>3
  <2> QED
    BY <1>3, <2>2, <2>3, <2>4
<1>5. NoOrphans' /\ NamesUnique'
  BY <1>3, <1>4 DEF IInv, TablesOk, NoOrphans, NamesUnique, FolderRows, ServerRows
<1> QED
  BY <1>2, <1>3, <1>4, <1>5 DEF IInv, TablesOk

(* Every step of a request preserves the invariant. *)
LEMMA NextInv == IInv /\ [Next]_vars => IInv'
<1> SUFFICES ASSUME IInv, [Next]_vars PROVE IInv'
  OBVIOUS
<1>1. ASSUME NEW r \in Request, Begin(r) PROVE IInv'
  BY <1>1, BeginInv
<1>2. ASSUME NEW r \in Request, Step(r) PROVE IInv'
  BY <1>2, ReadInv, InsertInv, CommitInv, CommitDeleteInv, AddFolderInv, CommitFolderInv DEF Step
<1>3. CASE UNCHANGED vars
  BY <1>3 DEF vars, IInv, TablesOk, ReqOk, NoOrphans, NamesUnique, ServerRows, FolderRows
<1> QED
  BY <1>1, <1>2, <1>3 DEF Next

(* The invariant holds of every table that satisfies the constraints. *)
LEMMA InitInv == Init => IInv
<1> SUFFICES ASSUME Init PROVE IInv
  OBVIOUS
<1>1. PICK t \in Tables : servers = t.servers /\ folders = t.folders
  BY DEF Init
<1>2. TablesOk
  <2>1. servers \in [ServerId -> ServerRow \cup {None}] /\ folders \in [FolderId -> FolderRow \cup {None}]
    BY <1>1, TablesAssumption
  <2>2. NoOrphans
    <3>1. \A f \in FolderRows : folders[f].server \in ServerId
      BY <2>1 DEF FolderRows, FolderRow
    <3> QED
      BY <1>1, <3>1, TablesAssumption DEF NoOrphans, FolderRows, ServerRows
  <2>3. NamesUnique
    BY <1>1, TablesAssumption DEF NamesUnique, ServerRows
  <2> QED
    BY <2>1, <2>2, <2>3 DEF TablesOk
<1>3. ReqOk
  <2>1. Idle \in Doing
    BY DEF Idle, Doing, Op, At, Body
  <2>2. StepFinds(Idle) /\ WroteThenRebuilds(Idle)
    BY DEF Idle, StepFinds, WroteThenRebuilds
  <2> QED
    BY <2>1, <2>2 DEF Init, ReqOk
<1> QED
  BY <1>2, <1>3 DEF IInv

(* The invariant holds in every reachable state. *)
THEOREM Invariance == Spec => []IInv
BY InitInv, NextInv, PTL DEF Spec

(* No folder outlives its server, however many requests add and save       *)
(* folders between the read and the commit of the server's deletion.       *)
THEOREM FoldersHaveServers == Spec => []NoOrphans
BY Invariance, PTL DEF IInv, TablesOk

(* Every request that wrote rebuilds the engine before it is answered.     *)
THEOREM EveryWriteRebuilds == Spec => []WritesRebuilt
<1>1. IInv => WritesRebuilt
  BY DEF IInv, ReqOk, WroteThenRebuilds, WritesRebuilt
<1> QED
  BY <1>1, Invariance, PTL

(* Two servers never have one name, though an update that leaves its name  *)
(* alone is not checked, and one that changes it was decided on an older   *)
(* row.                                                                    *)
THEOREM NamesStayUnique == Spec => []NamesUnique
BY Invariance, PTL DEF IInv, TablesOk

(* A field of a server changes only to what a committing request has sent. *)
THEOREM NothingElseChanges == Spec => OnlySentFields
<1> DEFINE Honest ==
             \A s \in ServerId : servers[s] # None /\ servers'[s] # None =>
               \A f \in DOMAIN servers[s] : servers'[s][f] # servers[s][f] =>
                 \E r \in Request : /\ req[r].at = "commit" /\ req'[r].at # "commit"
                                    /\ req[r].server = s
                                    /\ f \in DOMAIN req[r].body
                                    /\ servers'[s][f] = req[r].body[f]
<1>1. ASSUME IInv, [Next]_vars PROVE Honest
  <2> SUFFICES ASSUME NEW s \in ServerId, servers[s] # None, servers'[s] # None,
                      NEW f \in DOMAIN servers[s], servers'[s][f] # servers[s][f]
               PROVE  \E r \in Request : /\ req[r].at = "commit" /\ req'[r].at # "commit"
                                         /\ req[r].server = s
                                         /\ f \in DOMAIN req[r].body
                                         /\ servers'[s][f] = req[r].body[f]
    OBVIOUS
  <2>1. servers[s] \in ServerRow /\ DOMAIN servers[s] = {"name", "secure", "secret"} /\ s \in ServerRows
    BY <1>1 DEF IInv, TablesOk, ServerRow, ServerRows
  <2>2. ASSUME NEW r \in Request, Insert(r) PROVE FALSE
    <3>1. s # Top(ServerRows) + 1
      BY <2>1, TopIds
    <3>2. servers'[s] = servers[s]
      BY <1>1, <2>2, <3>1 DEF Insert, InsertServer, tables, IInv, TablesOk
    <3> QED
      BY <3>2
  <2>3. ASSUME NEW r \in Request, CommitDelete(r) PROVE FALSE
    BY <1>1, <2>3 DEF CommitDelete, IInv, TablesOk
  <2>4. servers' # servers
    <3> SUFFICES ASSUME servers' = servers PROVE FALSE
      OBVIOUS
    <3>1. servers'[s][f] = servers[s][f]
      OBVIOUS
    <3> QED
      BY <3>1
  <2>5. PICK r \in Request : Commit(r)
    <3>1. PICK r \in Request : Begin(r) \/ Step(r)
      BY <1>1, <2>4 DEF Next, vars
    <3>2. ~Begin(r)
      BY <2>4 DEF Begin, CreateServer, UpdateServer, SaveServer, DeleteServer, FolderRequest, Begins, tables
    <3>3. ~Refused(r) /\ ~Get(r) /\ ~Load(r) /\ ~RequireServer(r) /\ ~OwnedFolder(r) /\ ~Rebuild(r) /\ ~Answer(r)
      BY <2>4 DEF Refused, Get, Load, RequireServer, OwnedFolder, Rebuild, Answer, tables
    <3>4. ~AddFolder(r) /\ ~LoadFolder(r) /\ ~CommitFolder(r)
      BY <2>4 DEF AddFolder, LoadFolder, CommitFolder, tables
    <3>5. Commit(r)
      BY <2>2, <2>3, <3>1, <3>2, <3>3, <3>4 DEF Step
    <3> QED
      BY <3>5
  <2> DEFINE row == req[r].row
             body == req[r].body
  <2>6. /\ req[r].at = "commit" /\ req[r] \in Doing /\ req \in [Request -> Doing]
        /\ row \in ServerRow /\ body \in Patches \cup Saves
    BY <1>1, <2>5 DEF Commit, IInv, ReqOk, StepFinds, OfServer
  <2>7. /\ Wrote(r, AfterWrite(r)) /\ Changes(row, body) # {}
        /\ servers' = [servers EXCEPT ![req[r].server] = Updated(req[r].server, row, body)]
    BY <2>4, <2>5 DEF Commit, tables
  <2>8. req[r].server = s /\ servers'[s] = Updated(s, row, body)
    BY <1>1, <2>7 DEF IInv, TablesOk
  <2>9. f \in Changes(row, body)
    BY <2>8 DEF Updated
  <2>10. req'[r].at # "commit"
    BY <2>6, <2>7 DEF Wrote, AfterWrite, Doing
  <2>11. f \in DOMAIN body /\ servers'[s][f] = body[f]
    <3>1. CASE f = "secret"
      <4>1. body.secret # Keep
        BY <2>9, <3>1 DEF Changes, Secret, Sent
      <4>2. "secret" \in DOMAIN body
        BY <2>6, BodyAssumption
      <4> QED
        BY <2>8, <2>9, <3>1, <4>1, <4>2 DEF Updated, Secret
    <3>2. CASE f # "secret"
      <4>1. f \in DOMAIN body
        BY <2>9, <3>2 DEF Changes, Sent
      <4> QED
        BY <2>8, <2>9, <3>2, <4>1 DEF Updated
    <3> QED
      BY <3>1, <3>2
  <2> QED
    BY <2>6, <2>8, <2>10, <2>11
<1>2. IInv /\ [Next]_vars => [Honest]_vars
  BY <1>1
<1> QED
  BY <1>2, Invariance, PTL DEF Spec, OnlySentFields
==============================================================================
