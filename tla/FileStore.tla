------------------------------ MODULE FileStore ------------------------------
(***************************************************************************)
(* The files of one user of the web application: the table of files, the   *)
(* directory rom_fs, and the links of builds to files                      *)
(* (app/models/file/model.lua, app/controllers/files.lua and the loop over *)
(* the selected files of app/controllers/builder.lua).                     *)
(*                                                                         *)
(* Every request is a process of the web server.  A statement of SQL, a    *)
(* call of the file system and a shell command are each one step; between  *)
(* two steps any other request may run.  BuildPipeline adds the builds of  *)
(* the user and the requests on them.                                      *)
(***************************************************************************)
EXTENDS Naturals, FiniteSets, Functions

CONSTANTS
  Requests,   \* the requests that can be served at the same time
  Names,      \* file names
  Suggested,  \* the files offered to every user: a function from row id to name
  FirstId,    \* the first id the table of files hands out
  MaxId,      \* bound: the last one
  Builds      \* ids of builds

ASSUME StoreAssumption ==
  /\ IsFiniteSet(Requests) /\ IsFiniteSet(Names)
  /\ FirstId \in Nat \ {0} /\ MaxId \in Nat /\ FirstId <= MaxId + 1
  /\ DOMAIN Suggested \subseteq 1..MaxId
  /\ \A i \in DOMAIN Suggested : Suggested[i] \in Names

VARIABLES
  rows,       \* table files: row id -> name
  nextId,     \* its AUTO_INCREMENT counter
  disk,       \* rom_fs: name -> inode, 0 when there is no such file
  data,       \* inode -> whose bytes it holds since it was last truncated
  links,      \* table builds_files
  req,        \* the state of each request
  overlapped  \* history: names two requests have worked on at the same time

vars == <<rows, nextId, disk, data, links, req, overlapped>>

Admin  == "admin"   \* the origin of a suggested file
NoName == "no name"

\* A name cannot be on disk more often than there are names, and a request
\* can hold one unlinked inode: one inode more is always free.
Inodes == 1..(Cardinality(Names) + Cardinality(Requests) + 1)

Idle == [op |-> "none", step |-> "idle", claims |-> {}, name |-> NoName,
         id |-> 0, user |-> FALSE, row |-> 0, ino |-> 0, build |-> 0, todo |-> {}]

RangeOf(f) == {f[x] : x \in DOMAIN f}

IdsNamed(n) == {i \in DOMAIN rows : rows[i] = n}

\* the name a choice stands for, when it still exists
NamesOf(c) == IF c.user THEN {rows[i] : i \in DOMAIN rows \cap {c.id}}
                        ELSE {Suggested[i] : i \in DOMAIN Suggested \cap {c.id}}

FreeInode == CHOOSE i \in Inodes : /\ i \notin RangeOf(disk)
                                   /\ \A r \in Requests : req[r].ino # i
                                   /\ \A j \in 1..(i - 1) : \/ j \in RangeOf(disk)
                                                            \/ \E r \in Requests : req[r].ino = j

At(r, s)   == req[r].step = s
Active     == {r \in Requests : ~At(r, "idle")}
ClaimedBy(S) == UNION {req[r].claims : r \in S}

\* Bound on the ids: a request that may still insert keeps one id in reserve.
Room == nextId + Cardinality(Active) <= MaxId

\* A request starts: from now on it works on the names in claims.
Start(r, init) ==
  /\ At(r, "idle")
  /\ req' = [req EXCEPT ![r] = init]
  /\ overlapped' = overlapped \cup (init.claims \cap ClaimedBy(Active))

\* A request goes on with some fields of its record changed, or ends.
Go(r, new) == /\ req' = [req EXCEPT ![r] = new]
              /\ UNCHANGED overlapped
Finish(r)  == Go(r, Idle)

Init ==
  /\ rows = <<>> /\ nextId = FirstId
  /\ disk = [n \in Names |-> 0]
  /\ data = [i \in Inodes |-> {}]
  /\ links = {}
  /\ req = [r \in Requests |-> Idle]
  /\ overlapped = {}

-----------------------------------------------------------------------------
(* upload: open(.., "wb"); getFileByName; insert or update; write, close.  *)

UploadOpen(r, n) ==
  LET ino == IF disk[n] = 0 THEN FreeInode ELSE disk[n] IN
  /\ Room
  /\ Start(r, [Idle EXCEPT !.op = "upload", !.step = "find", !.claims = {n},
                           !.name = n, !.ino = ino])
  /\ disk' = [disk EXCEPT ![n] = ino]
  /\ data' = [data EXCEPT ![ino] = {}]
  /\ UNCHANGED <<rows, nextId, links>>

\* mutant: save() inserts without looking
FindNothing(r) ==
  /\ At(r, "find")
  /\ Go(r, [req[r] EXCEPT !.row = 0, !.step = "store"])
  /\ UNCHANGED <<rows, nextId, disk, data, links>>

\* getFileByName: the first row of that name, or none
FindRow(r) ==
  /\ At(r, "find")
  /\ \E i \in IF IdsNamed(req[r].name) = {} THEN {0} ELSE IdsNamed(req[r].name) :
       Go(r, [req[r] EXCEPT !.row = i, !.step = "store"])
  /\ UNCHANGED <<rows, nextId, disk, data, links>>

\* FileModel.save: an insert when no row was found; otherwise an update of
\* the date, which changes nothing when the row has gone meanwhile
StoreRow(r) ==
  /\ At(r, "store")
  /\ IF req[r].row = 0
     THEN /\ nextId <= MaxId
          /\ rows' = [i \in DOMAIN rows \cup {nextId} |->
                        IF i = nextId THEN req[r].name ELSE rows[i]]
          /\ nextId' = nextId + 1
     ELSE UNCHANGED <<rows, nextId>>
  /\ Go(r, [req[r] EXCEPT !.step = IF req[r].op = "upload" THEN "write" ELSE "link"])
  /\ UNCHANGED <<disk, data, links>>

\* the bytes go to the inode that was opened, whatever the name means now;
\* nobody can read them there when it has no name any more
WriteFile(r) ==
  /\ At(r, "write")
  /\ data' = [data EXCEPT ![req[r].ino] = IF req[r].ino \in RangeOf(disk) THEN @ \cup {r} ELSE @]
  /\ Finish(r)
  /\ UNCHANGED <<rows, nextId, disk, links>>

-----------------------------------------------------------------------------
(* delete: select, os.remove, delete the row, delete its links.            *)

\* a missing row ends the request with an error and changes nothing
DeleteLookup(r, i) ==
  /\ i \in DOMAIN rows
  /\ Start(r, [Idle EXCEPT !.op = "delete", !.step = "remove", !.id = i,
                           !.claims = {rows[i]}, !.name = rows[i]])
  /\ UNCHANGED <<rows, nextId, disk, data, links>>

\* mutant: os.remove fails
RemoveFileFails(r) ==
  /\ At(r, "remove")
  /\ Go(r, [req[r] EXCEPT !.step = "droprow"])
  /\ UNCHANGED <<rows, nextId, disk, data, links>>

RemoveFile(r) ==
  /\ At(r, "remove")
  /\ disk' = [disk EXCEPT ![req[r].name] = 0]
  /\ data' = [i \in Inodes |-> IF i = disk[req[r].name] THEN {} ELSE data[i]]
  /\ Go(r, [req[r] EXCEPT !.step = "droprow"])
  /\ UNCHANGED <<rows, nextId, links>>

DropRow(r) ==
  /\ At(r, "droprow")
  /\ rows' = Restrict(rows, DOMAIN rows \ {req[r].id})
  /\ Go(r, [req[r] EXCEPT !.step = "unlink"])
  /\ UNCHANGED <<nextId, disk, data, links>>

\* mutant: the links stay
DropNoLinks(r) == /\ At(r, "unlink")
                  /\ Finish(r)
                  /\ UNCHANGED <<rows, nextId, disk, data, links>>

\* by number only: a suggested file with the same number loses its links too
DropLinks(r) ==
  /\ At(r, "unlink")
  /\ links' = {l \in links : l.id # req[r].id}
  /\ Finish(r)
  /\ UNCHANGED <<rows, nextId, disk, data>>

-----------------------------------------------------------------------------
(* The part of saving a build that concerns files: drop the links of the   *)
(* build, then touch, copy and link each selected file.                    *)

\* what a form can offer, a page rendered some time ago included
Offered == [id : FirstId..(nextId - 1), user : {TRUE}] \cup [id : DOMAIN Suggested, user : {FALSE}]

\* the queries of validate, which change nothing, are part of this step
SelectFiles(r, b, sel) ==
  /\ Start(r, [Idle EXCEPT !.op = "save", !.step = "clear", !.build = b,
                           !.todo = sel, !.claims = UNION {NamesOf(c) : c \in sel}])
  /\ UNCHANGED <<rows, nextId, disk, data, links>>

\* mutant: the links of the selection before stay
ClearNoLinks(r) ==
  /\ At(r, "clear")
  /\ Go(r, [req[r] EXCEPT !.step = "pick"])
  /\ UNCHANGED <<rows, nextId, disk, data, links>>

ClearLinks(r) ==
  /\ At(r, "clear")
  /\ links' = {l \in links : l.build # req[r].build}
  /\ Go(r, [req[r] EXCEPT !.step = "pick"])
  /\ UNCHANGED <<rows, nextId, disk, data>>

\* mutant: the loop does not advance
PickUserAgain(r) ==
  /\ At(r, "pick")
  /\ \E c \in req[r].todo :
       /\ c.user /\ c.id \in DOMAIN rows
       /\ Go(r, [req[r] EXCEPT !.step = "find", !.id = c.id, !.user = TRUE, !.name = rows[c.id]])
  /\ UNCHANGED <<rows, nextId, disk, data, links>>

\* getDirFile of a user's file: an error ends the request when the row is gone
PickUser(r) ==
  /\ At(r, "pick")
  /\ \E c \in req[r].todo :
       /\ c.user
       /\ IF c.id \in DOMAIN rows
          THEN Go(r, [req[r] EXCEPT !.step = "find", !.id = c.id, !.user = TRUE,
                                    !.name = rows[c.id], !.todo = @ \ {c}])
          ELSE Finish(r)
  /\ UNCHANGED <<rows, nextId, disk, data, links>>

\* mutant: the loop does not advance
PickSuggestedAgain(r) ==
  /\ At(r, "pick")
  /\ \E c \in req[r].todo :
       /\ ~c.user
       /\ Go(r, [req[r] EXCEPT !.step = "link", !.id = c.id, !.name = Suggested[c.id]])
  /\ UNCHANGED <<rows, nextId, disk, data, links>>

\* copyPathSuggestedFile: cp -u onto the user's file of the same name, when
\* there is none or it is older
PickSuggested(r) ==
  /\ At(r, "pick")
  /\ \E c \in req[r].todo :
       LET n   == Suggested[c.id]
           ino == IF disk[n] = 0 THEN FreeInode ELSE disk[n] IN
       /\ ~c.user
       /\ Go(r, [req[r] EXCEPT !.step = "link", !.id = c.id, !.user = FALSE,
                               !.name = n, !.todo = @ \ {c}])
       /\ \/ /\ disk' = [disk EXCEPT ![n] = ino]
             /\ data' = [data EXCEPT ![ino] = {Admin}]
          \/ disk[n] # 0 /\ UNCHANGED <<disk, data>>
  /\ UNCHANGED <<rows, nextId, links>>

\* saveBuildFile
AddLink(r) ==
  /\ At(r, "link")
  /\ links' = links \cup {[build |-> req[r].build, id |-> req[r].id, user |-> req[r].user]}
  /\ Go(r, [req[r] EXCEPT !.step = "pick", !.name = NoName, !.id = 0, !.row = 0])
  /\ UNCHANGED <<rows, nextId, disk, data>>

Picked(r) == At(r, "pick") /\ req[r].todo = {}

-----------------------------------------------------------------------------
FileStep(r) ==
  \/ FindRow(r) \/ StoreRow(r) \/ WriteFile(r)
  \/ RemoveFile(r) \/ DropRow(r) \/ DropLinks(r)
  \/ ClearLinks(r) \/ PickUser(r) \/ PickSuggested(r) \/ AddLink(r)

-----------------------------------------------------------------------------
Quiet(n) == n \notin overlapped /\ n \notin ClaimedBy(Active)

\* save() looks a name up and then inserts it: as long as no two requests were
\* ever at work on a name, whatever ran on other names, it has one row at most.
OneRowPerName == \A n \in Names \ overlapped : Cardinality(IdsNamed(n)) <= 1

\* A name nobody raced on, once its request is done: a row has its file, the
\* file is whole and of one writer, and a file nobody suggested has its row.
RowsMatchDisk ==
  \A n \in Names : Quiet(n) =>
    /\ IdsNamed(n) # {} => disk[n] # 0 /\ Cardinality(data[disk[n]]) = 1
    /\ disk[n] # 0 => IdsNamed(n) # {} \/ n \in RangeOf(Suggested)

\* Without races a build never keeps a link to a file that was deleted, except
\* while the request that deletes it is about to drop the link.
LinksAlive ==
  overlapped = {} =>
    \A l \in links : l.user => \/ l.id \in DOMAIN rows
                               \/ \E r \in Requests : At(r, "unlink") /\ req[r].id = l.id
=============================================================================
