--------------------------------- MODULE Store ---------------------------------
(***************************************************************************)
(* The requests that change the configuration: the routes of               *)
(* web/api/servers.py, web/api/folders.py and web/pages.py, the write      *)
(* cores of web/writes.py, and the methods of db/repo.py with the          *)
(* constraints of the tables.                                              *)
(*                                                                         *)
(* A request is a chain of repository calls in worker threads.  Each call  *)
(* has a session of its own: it reads rows, which takes no lock in SQLite, *)
(* and writes what it found changed in one transaction.  Other requests    *)
(* come between any two of these steps.                                    *)
(***************************************************************************)
EXTENDS Naturals, Sequences, FiniteSets, FiniteSetsExt

CONSTANTS Request,     \* requests that are ever made, each once
          Creates,     \* bodies: name, secure, secret, paths
          Patches,     \* bodies: name, secure, secret, each may be Keep
          Saves,       \* bodies: name, secret, paths; secret may be Keep
          Contents,    \* bodies: the path of a folder
          Name,        \* names of servers
          Path,        \* contents of a folder
          MaxServers,  \* bound on server ids
          MaxFolders,  \* bound on folder ids
          Tables,      \* what the tables may hold at first
          Keep,        \* a field that was not sent
          None

ASSUME BoundAssumption == {MaxServers, MaxFolders} \subseteq Nat \ {0}

VARIABLES servers,  \* rows by id: name, secure (the type requires a secret)
                    \* and secret; None where there is no row
          folders,  \* rows by id: server and path; None where there is none
          req       \* what each request is doing
tables == <<servers, folders>>
vars == <<servers, folders, req>>

Secrets == {None, "blank", "token"}   \* "blank" is an encrypted empty string
ServerId == 1 .. MaxServers
FolderId == 1 .. MaxFolders
ServerRow == [name : Name, secure : BOOLEAN, secret : Secrets]
FolderRow == [server : ServerId, path : Path]

ASSUME BodyAssumption ==
    /\ Creates \subseteq [name : Name, secure : BOOLEAN, secret : Secrets, paths : Seq(Path)]
    /\ Patches \subseteq [name : Name \cup {Keep}, secure : BOOLEAN \cup {Keep},
                          secret : Secrets \cup {Keep}]
    /\ Saves \subseteq [name : Name, secret : Secrets \cup {Keep}, paths : Seq(Path)]
    /\ Contents \subseteq Path
ASSUME NoneAssumption == None \notin ServerRow \cup FolderRow

(* The tables at first satisfy their constraints. *)
ASSUME TablesAssumption ==
    \A t \in Tables :
        /\ t.servers \in [ServerId -> ServerRow \cup {None}]
        /\ t.folders \in [FolderId -> FolderRow \cup {None}]
        /\ \A f \in FolderId : t.folders[f] # None => t.servers[t.folders[f].server] # None
        /\ \A i, j \in ServerId :
              t.servers[i] # None /\ t.servers[j] # None /\ t.servers[i].name = t.servers[j].name
                => i = j

ServerRows == {s \in ServerId : servers[s] # None}
FolderRows == {f \in FolderId : folders[f] # None}
FoldersOf(s) == {f \in FolderRows : folders[f].server = s}

Top(rows) == IF rows = {} THEN 0 ELSE Max(rows)   \* SQLite takes the next id
NameTaken(name, s) == \E t \in ServerRows \ {s} : servers[t].name = name

Idle == [op |-> "none", at |-> "idle", server |-> None, folder |-> None,
         body |-> None, row |-> None, kids |-> {}, wrote |-> FALSE,
         rebuilt |-> FALSE, code |-> 0]

Init == /\ \E t \in Tables : servers = t.servers /\ folders = t.folders
        /\ req = [r \in Request |-> Idle]

(* Steps of a request *)
Goes(r, at) == req' = [req EXCEPT ![r].at = at]
Answers(r, code) == req' = [req EXCEPT ![r].at = "done", ![r].code = code]
Wrote(r, at) == req' = [req EXCEPT ![r].at = at, ![r].wrote = TRUE]
Begins(r, op, at, s, f, body) ==
    /\ req[r] = Idle
    /\ req' = [req EXCEPT ![r] = [Idle EXCEPT !.op = op, !.at = at, !.server = s,
                                              !.folder = f, !.body = body]]
    /\ UNCHANGED tables

----------------------------------------------------------------------------
(* Faults: one definition each with a bug in it, used by no specification. *)

CascadeLoaded(s, kids) == kids

SaveEndsUnrebuilt(r) == IF req[r].op = "save" THEN "answer" ELSE "rebuild"

WholeRow(s, row, body) ==
    [f \in DOMAIN row |-> IF f \in DOMAIN body /\ body[f] # Keep THEN body[f] ELSE row[f]]

----------------------------------------------------------------------------
(* What the transactions do *)

(* Inserts come before deletes in a flush. *)
NewFolders(s, paths, without) ==
    [f \in FolderId |->
       LET i == f - Top(FolderRows)
       IN IF f \in without THEN None
          ELSE IF i \in DOMAIN paths THEN [server |-> s, path |-> paths[i]]
          ELSE folders[f]]

NewRow(body) == [name |-> body.name, secure |-> body.secure, secret |-> body.secret]

RoomFor(paths) == Top(FolderRows) + Len(paths) <= MaxFolders

(* create_server and create_server_with_folders: all or nothing *)
InsertServer(s, row, paths) ==
    IF NameTaken(row.name, s)
    THEN UNCHANGED tables
    ELSE /\ servers' = [servers EXCEPT ![s] = row]
         /\ folders' = NewFolders(s, paths, {})

(* setattr for the fields that were sent; a new secret is always a change, *)
(* other fields if they differ from the row as it was read.                *)
Secret(row, body) == IF body.secret = Keep THEN row.secret ELSE body.secret

Sent(body, field) == field \in DOMAIN body /\ body[field] # Keep

Changes(row, body) ==
    {f \in {"name", "secure"} : Sent(body, f) /\ body[f] # row[f]}
    \cup {f \in {"secret"} : Secret(row, body) # row.secret
                             \/ (Sent(body, "secret") /\ body.secret # None)}

Updated(s, row, body) ==
    [f \in DOMAIN servers[s] |->
       IF f \notin Changes(row, body) THEN servers[s][f]
       ELSE IF f = "secret" THEN Secret(row, body) ELSE body[f]]

(* Deleting a server deletes the folders the session has read, and the     *)
(* foreign key those that were added since.                                *)
Cascade(s, kids) == kids \cup FoldersOf(s)

----------------------------------------------------------------------------
(* web/writes.py: _require_secret_or_422 and _require_update_secret *)

NeedsToken(secure, hasSecret) == secure /\ ~hasSecret

CreateRefused(body) == NeedsToken(body.secure, body.secret = "token")

UpdateRefused(row, body) ==
    NeedsToken(IF Sent(body, "secure") THEN body.secure ELSE row.secure,
               IF Sent(body, "secret") THEN body.secret = "token" ELSE row.secret # None)

----------------------------------------------------------------------------
(* POST /api/servers, /ui/servers/new *)

CreateServer(r) ==
    \E body \in Creates :
        Begins(r, "create", IF CreateRefused(body) THEN "refused" ELSE "insert",
               None, None, body)

Refused(r) == /\ req[r].at = "refused" /\ Answers(r, 422) /\ UNCHANGED tables

Insert(r) ==
    LET body == req[r].body
        s == Top(ServerRows) + 1
        row == NewRow(body)
    IN /\ req[r].at = "insert"
       /\ s <= MaxServers /\ RoomFor(body.paths)
       /\ InsertServer(s, row, body.paths)
       /\ req' = IF NameTaken(row.name, s)
                 THEN [req EXCEPT ![r].at = "done", ![r].code = 409]
                 ELSE [req EXCEPT ![r].at = "rebuild", ![r].wrote = TRUE,
                                  ![r].server = s]

----------------------------------------------------------------------------
(* PATCH /api/servers/{id} and the form of the server's page *)

UpdateServer(r) == \E s \in ServerId, body \in Patches :
                       Begins(r, "patch", "get", s, None, body)
SaveServer(r) == \E s \in ServerId, body \in Saves :
                     Begins(r, "save", "get", s, None, body)

(* get_server and the token gate, on a row of its own *)
Get(r) ==
    /\ req[r].at = "get"
    /\ LET row == servers[req[r].server]
       IN IF row = None THEN Answers(r, 404)
          ELSE Goes(r, IF UpdateRefused(row, req[r].body) THEN "refused" ELSE "load")
    /\ UNCHANGED tables

(* The update's session reads the row again, a save and a delete the       *)
(* folders as well.                                                        *)
Load(r) ==
    LET s == req[r].server IN
    /\ req[r].at = "load"
    /\ CASE servers[s] = None /\ req[r].op = "delete" -> Goes(r, "rebuild")
         [] servers[s] = None /\ req[r].op # "delete" -> Answers(r, 404)
         [] OTHER ->
              req' = [req EXCEPT ![r].at = "commit", ![r].row = servers[s],
                                 ![r].kids = IF req[r].op = "patch" THEN {} ELSE FoldersOf(s)]
    /\ UNCHANGED tables

AfterWrite(r) == "rebuild"   \* rebuild_engine follows every write

Conflict(r) == LET body == req[r].body IN
    /\ "name" \in Changes(req[r].row, body)
    /\ NameTaken(body.name, req[r].server)

(* A row that is gone is not updated (StaleDataError); if nothing in it    *)
(* changed nobody notices, unless new folders want to refer to it.         *)
Commit(r) ==
    LET s == req[r].server
        body == req[r].body
        paths == IF req[r].op = "save" THEN body.paths ELSE <<>>
        changed == Changes(req[r].row, body) # {}
    IN /\ req[r].at = "commit" /\ req[r].op \in {"patch", "save"}
       /\ RoomFor(paths)
       /\ CASE servers[s] = None /\ changed ->
                 Answers(r, 500) /\ UNCHANGED tables
            [] servers[s] = None /\ ~changed /\ paths # <<>> ->
                 Answers(r, 409) /\ UNCHANGED tables
            [] servers[s] # None /\ Conflict(r) ->
                 Answers(r, IF req[r].op = "save" THEN 409 ELSE 500) /\ UNCHANGED tables
            [] OTHER ->
                 /\ Wrote(r, AfterWrite(r))
                 /\ servers' = IF changed
                               THEN [servers EXCEPT ![s] = Updated(s, req[r].row, body)]
                               ELSE servers
                 /\ folders' = NewFolders(s, paths, req[r].kids)

----------------------------------------------------------------------------
(* DELETE /api/servers/{id}, /ui/servers/{id}/delete *)

DeleteServer(r) == \E s \in ServerId : Begins(r, "delete", "load", s, None, None)

CommitDelete(r) ==
    LET s == req[r].server IN
    /\ req[r].at = "commit" /\ req[r].op = "delete"
    /\ servers' = [servers EXCEPT ![s] = None]
    /\ folders' = [f \in FolderId |-> IF f \in Cascade(s, req[r].kids) THEN None
                                                                       ELSE folders[f]]
    /\ Wrote(r, AfterWrite(r))

----------------------------------------------------------------------------
(* /api/servers/{id}/folders *)

FolderRequest(r) ==
    \E s \in ServerId, f \in FolderId, path \in Contents :
        \/ Begins(r, "addFolder", "server", s, None, path)
        \/ Begins(r, "editFolder", "server", s, f, path)
        \/ Begins(r, "dropFolder", "server", s, f, None)

RequireServer(r) ==
    /\ req[r].at = "server"
    /\ IF servers[req[r].server] = None THEN Answers(r, 404)
       ELSE Goes(r, IF req[r].op = "addFolder" THEN "add" ELSE "owned")
    /\ UNCHANGED tables

OwnedFolder(r) ==
    /\ req[r].at = "owned"
    /\ IF req[r].folder \in FoldersOf(req[r].server) THEN Goes(r, "loadFolder")
                                                     ELSE Answers(r, 404)
    /\ UNCHANGED tables

(* The foreign key refuses a folder of a server that is gone by now.       *)
AddFolder(r) ==
    LET s == req[r].server IN
    /\ req[r].at = "add"
    /\ RoomFor(<<req[r].body>>)
    /\ IF servers[s] = None
       THEN Answers(r, 500) /\ UNCHANGED tables
       ELSE /\ folders' = NewFolders(s, <<req[r].body>>, {})
            /\ req' = [req EXCEPT ![r].at = AfterWrite(r), ![r].wrote = TRUE,
                                  ![r].folder = Top(FolderRows) + 1]
            /\ UNCHANGED servers

(* update_folder raises KeyError, which no folder route catches;           *)
(* delete_folder of what is gone is a no-op.                               *)
LoadFolder(r) ==
    LET f == req[r].folder IN
    /\ req[r].at = "loadFolder"
    /\ CASE f \in FolderRows ->
              req' = [req EXCEPT ![r].at = "commitFolder", ![r].row = folders[f]]
         [] f \notin FolderRows /\ req[r].op = "editFolder" -> Answers(r, 500)
         [] OTHER -> Goes(r, "rebuild")
    /\ UNCHANGED tables

CommitFolder(r) ==
    LET f == req[r].folder
        changed == req[r].row.path # req[r].body
    IN
    /\ req[r].at = "commitFolder"
    /\ CASE req[r].op = "dropFolder" ->
              folders' = [folders EXCEPT ![f] = None] /\ Wrote(r, AfterWrite(r))
         [] req[r].op = "editFolder" /\ ~changed ->
              Wrote(r, AfterWrite(r)) /\ UNCHANGED folders
         [] req[r].op = "editFolder" /\ changed /\ f \in FolderRows ->
              folders' = [folders EXCEPT ![f].path = req[r].body] /\ Wrote(r, AfterWrite(r))
         [] OTHER -> Answers(r, 500) /\ UNCHANGED folders
    /\ UNCHANGED servers

----------------------------------------------------------------------------
(* rebuild_engine, and the read the answer is made of: the row written may *)
(* be gone by then.                                                        *)

Rebuild(r) ==
    /\ req[r].at = "rebuild"
    /\ req' = [req EXCEPT ![r].at = "answer", ![r].rebuilt = TRUE]
    /\ UNCHANGED tables

Answer(r) ==
    /\ req[r].at = "answer"
    /\ Answers(r, CASE req[r].op \in {"create", "patch"} /\ servers[req[r].server] = None -> 404
                    [] req[r].op = "addFolder" /\ req[r].folder \notin FolderRows -> 500
                    [] OTHER -> 200)
    /\ UNCHANGED tables

Begin(r) == \/ CreateServer(r) \/ UpdateServer(r) \/ SaveServer(r) \/ DeleteServer(r)
            \/ FolderRequest(r)
Step(r) == \/ Refused(r) \/ Insert(r) \/ Get(r) \/ Load(r) \/ Commit(r) \/ CommitDelete(r)
           \/ RequireServer(r) \/ OwnedFolder(r) \/ AddFolder(r)
           \/ LoadFolder(r) \/ CommitFolder(r) \/ Rebuild(r) \/ Answer(r)

Next == \E r \in Request : Begin(r) \/ Step(r)

Spec == Init /\ [][Next]_vars

----------------------------------------------------------------------------
(* Properties *)

(* No folder outlives its server, whatever folders are added or saved      *)
(* between the read and the commit of its deletion.                        *)
NoOrphans == \A f \in FolderRows : folders[f].server \in ServerRows

(* A field of a server changes only to what a request that commits has     *)
(* sent: two requests that change different fields both keep their change, *)
(* and the secret survives a save that leaves it out.                      *)
OnlySentFields ==
    [][\A s \in ServerId : servers[s] # None /\ servers'[s] # None =>
          \A f \in DOMAIN servers[s] : servers'[s][f] # servers[s][f] =>
              \E r \in Request : /\ req[r].at = "commit" /\ req'[r].at # "commit"
                                 /\ req[r].server = s
                                 /\ f \in DOMAIN req[r].body
                                 /\ servers'[s][f] = req[r].body[f]]_vars

(* No request that wrote ends before it has rebuilt the engine, however    *)
(* others have changed the tables under it.                                *)
WritesRebuilt == \A r \in Request : req[r].at = "done" /\ req[r].wrote => req[r].rebuilt

(* "A token is mandatory at save time" for the types that need one         *)
(* (web/api_schemas.py): false.  An empty secret is encrypted and counts   *)
(* as one when a webhook's type is changed; so does a secret that another  *)
(* request takes away after the check.                                     *)
TokenMandatory == \A s \in ServerRows : servers[s].secure => servers[s].secret = "token"
===============================================================================
