---------------------------- MODULE BuildPipeline ----------------------------
(***************************************************************************)
(* The builds of one user: saving a build, generating its image with scons *)
(* in its own directory, and deleting it (app/models/builder/model.lua,    *)
(* app/controllers/builder.lua), on top of the files of FileStore.         *)
(*                                                                         *)
(* generate() is a list of shell commands whose exit status nobody reads:  *)
(* each one is a step, and each one may find that the directory is gone.   *)
(***************************************************************************)
EXTENDS FileStore

CONSTANTS
  Targets,      \* the boards, by their CPU: it names the binary, so that two boards
                \* with one CPU count as one target
  MaxBuild,     \* bound: the builds ever inserted
  MaxGen,       \* bound: the generations ever started
  MaxSelected,  \* bound: the files of one build
  Autorun,      \* the name "autorun.lua"
  AlwaysPacked, \* what SConstruct packs without being told: autorun and board file
  Faults        \* what the environment may do, see FaultNames

FaultNames == {"scons",     \* the compiler may fail
               "retarget",  \* an edit may choose another target
               "oldpage",   \* an edit may come from a page of a build deleted since
               "crash",     \* the server may kill a request between two steps
               "overlap"}   \* requests may share a build, a target or a file

ASSUME PipelineAssumption ==
  /\ Builds = 1..MaxBuild /\ MaxBuild \in Nat /\ MaxGen \in Nat /\ MaxSelected \in Nat
  /\ Faults \subseteq FaultNames
  /\ Autorun \in AlwaysPacked /\ AlwaysPacked \subseteq Names

VARIABLES
  builds,     \* table builds: id -> target, selected files, autorun option
  nextBuild,  \* its AUTO_INCREMENT counter
  dir,        \* users/<login>/builds/<id>, one per build
  parent,     \* the binaries and the log in users/<login>/builds
  cwd,        \* FALSE once the files of the server's own directory are gone
  job,        \* the local variables of generate(), and what the user was told
  made,       \* history: generation -> the image scons made in it
  nextGen     \* history: number of the next generation

pipeVars == <<builds, nextBuild, dir, parent, cwd, job, made, nextGen>>
fileVars == <<rows, nextId, disk, data, links>>
allVars  == <<vars, pipeVars>>

NoFile   == [id |-> 0, user |-> FALSE, whole |-> FALSE]  \* no such entry in romfs
NoAutorun == [id |-> 0, user |-> FALSE]
NoBins   == [t \in Targets |-> 0]   \* binaries are known by their generation
NoRomfs  == [n \in Names |-> NoFile]
Missing  == [there |-> FALSE, romfs |-> NoRomfs, listed |-> {}, bins |-> NoBins, log |-> 0]
EmptyDir == [Missing EXCEPT !.there = TRUE]
NoTarget == "no target"
NoRow    == [target |-> NoTarget, sel |-> {}, autorun |-> NoAutorun]
NoJob    == [no |-> 0, of |-> 0, row |-> NoRow, list |-> {}, listed |-> {}, found |-> "nothing",
             bin |-> NoTarget, told |-> "nothing", got |-> 0]

PInit ==
  /\ Init
  /\ builds = <<>> /\ nextBuild = 1
  /\ dir = [b \in Builds |-> Missing]
  /\ parent = [bins |-> NoBins, log |-> 0]
  /\ cwd = TRUE
  /\ job = [r \in Requests |-> NoJob]
  /\ made = [g \in 1..MaxGen |-> [romfs |-> NoRomfs, build |-> 0]]
  /\ nextGen = 1

\* The target a request works on, and the build.
TargetOf(r) == IF req[r].build \in DOMAIN builds THEN {builds[req[r].build].target} ELSE {}

\* Unless requests may overlap, a request starts only when no other one works
\* on its build, on its CPU (a target, see above) or on one of its files.
Alone(b, ts, names) ==
  "overlap" \notin Faults =>
    \A r \in Active : /\ req[r].build = b => b = 0
                     /\ TargetOf(r) \cap ts = {}
                     /\ req[r].claims \cap names = {}

Step(r, s) == Go(r, [req[r] EXCEPT !.step = s])
OwnDir(r)  == dir[req[r].build]

\* the user gets an error page
Fail(r) == Finish(r) /\ job' = [job EXCEPT ![r] = NoJob]

-----------------------------------------------------------------------------
(* Saving: validate, insert or update the row; FileStore then replaces the *)
(* links.                                                                  *)

\* checkAutorun: when an autorun file is chosen, no other selected file may
\* have the name autorun.lua
ValidAutorun(sel, auto) ==
  auto # NoAutorun => \A c \in sel : Autorun \in NamesOf(c) => c = auto

\* the fields of the form that generate() reads again from the row
Row(t, sel, auto) == [target |-> t, sel |-> sel, autorun |-> auto]

\* When the page is of a build deleted since, the update changes no row, and
\* what follows goes on with that id.  What validate reads and what save
\* writes are one step.
SaveBuild(r, b, t, sel, auto) ==
  /\ b \in DOMAIN builds \cup (IF "oldpage" \in Faults THEN 1..nextBuild ELSE {nextBuild})
  /\ nextGen + Cardinality(Active) <= MaxGen
  /\ "overlap" \in Faults /\ (\E c \in sel : c.user) => Room
  /\ ValidAutorun(sel, auto)
  /\ b \in DOMAIN builds /\ "retarget" \notin Faults => builds[b].target = t
  /\ Alone(b, {t} \cup (IF b \in DOMAIN builds THEN {builds[b].target} ELSE {}),
           UNION {NamesOf(c) : c \in sel})
  /\ SelectFiles(r, b, sel)
  /\ builds' = [i \in DOMAIN builds \cup ({b} \cap {nextBuild}) |->
                   IF i = b THEN Row(t, sel, auto) ELSE builds[i]]
  /\ nextBuild' = IF b = nextBuild THEN nextBuild + 1 ELSE nextBuild
  /\ job' = [job EXCEPT ![r] = NoJob]
  /\ UNCHANGED <<dir, parent, cwd, made, nextGen>>

-----------------------------------------------------------------------------
(* generate()                                                              *)

\* getBuild; a missing row is an error
Fetch(r) ==
  /\ Picked(r)
  /\ IF req[r].build \in DOMAIN builds
     THEN /\ job' = [job EXCEPT ![r].row = builds[req[r].build], ![r].no = nextGen]
          /\ nextGen' = nextGen + 1
          /\ Step(r, "mkdir")
     ELSE /\ Fail(r)
          /\ UNCHANGED nextGen
  /\ UNCHANGED <<fileVars, builds, nextBuild, dir, parent, cwd, made>>

\* checkDir
MakeDir(r) ==
  /\ At(r, "mkdir")
  /\ dir' = IF OwnDir(r).there THEN dir ELSE [dir EXCEPT ![req[r].build] = EmptyDir]
  /\ Step(r, "base")
  /\ UNCHANGED <<fileVars, builds, nextBuild, parent, cwd, job, made, nextGen>>

\* The command meant to clear the directory ("if ..; then; cd ..") is not
\* accepted by the shell and does nothing.  cp -r of the eLua tree brings its
\* own SConstruct and its own romfs, which holds the suggested files.
CopyBase(r) ==
  /\ At(r, "base")
  /\ dir' = IF OwnDir(r).there
            THEN [dir EXCEPT
                   ![req[r].build].listed = {},
                   ![req[r].build].romfs = [n \in Names |->
                      IF n \in RangeOf(Suggested) THEN [NoFile EXCEPT !.whole = TRUE] ELSE @[n]]]
            ELSE dir
  /\ Step(r, "clearrom")
  /\ UNCHANGED <<fileVars, builds, nextBuild, parent, cwd, job, made, nextGen>>

\* mutant: the files of the copied tree stay
ClearRomfsFails(r) ==
  /\ At(r, "clearrom")
  /\ Step(r, "list")
  /\ UNCHANGED <<fileVars, pipeVars>>

ClearRomfs(r) ==
  /\ At(r, "clearrom")
  /\ dir' = [dir EXCEPT ![req[r].build].romfs = NoRomfs]
  /\ Step(r, "list")
  /\ UNCHANGED <<fileVars, builds, nextBuild, parent, cwd, job, made, nextGen>>

\* getFilesByBuild: the links with the names their files have now
ListFiles(r) ==
  /\ At(r, "list")
  /\ job' = [job EXCEPT
       ![r].list = {[id |-> l.id, user |-> l.user, names |-> NamesOf(l)]
                      : l \in {k \in links : k.build = req[r].build}},
       ![r].listed = {}]
  /\ Step(r, "copy")
  /\ UNCHANGED <<fileVars, builds, nextBuild, dir, parent, cwd, made, nextGen>>

\* the autorun option is compared by number alone
RomName(r, c, n) == IF c.id = job[r].row.autorun.id THEN Autorun ELSE n

\* What cp takes from a source: a user's file may be missing or half written.
Source(c, n) ==
  [id |-> c.id, user |-> c.user, whole |-> c.user => data[disk[n]] # {}]

\* one round of the loop of copy_romfs; a link without its file is an error
CopyFile(r) ==
  /\ At(r, "copy")
  /\ \E e \in job[r].list :
       IF e.names = {}
       THEN Fail(r) /\ UNCHANGED dir
       ELSE LET n    == CHOOSE x \in e.names : TRUE
                dest == RomName(r, e, n) IN
            /\ dir' = IF OwnDir(r).there /\ (e.user => disk[n] # 0)
                      THEN [dir EXCEPT ![req[r].build].romfs[dest] = Source(e, n)]
                      ELSE dir
            /\ job' = [job EXCEPT ![r].list = @ \ {e}, ![r].listed = @ \cup ({dest} \ {Autorun})]
            /\ UNCHANGED <<req, overlapped>>
  /\ UNCHANGED <<fileVars, builds, nextBuild, parent, cwd, made, nextGen>>

\* SConstruct and platform_conf.h from their templates
WriteConf(r) ==
  /\ At(r, "copy") /\ job[r].list = {}
  /\ dir' = IF OwnDir(r).there THEN [dir EXCEPT ![req[r].build].listed = job[r].listed] ELSE dir
  /\ Step(r, "conf")
  /\ UNCHANGED <<fileVars, builds, nextBuild, parent, cwd, job, made, nextGen>>

\* update(): the configuration read by getBuild is written back
StoreConfigs(r) ==
  /\ At(r, "conf")
  /\ builds' = IF req[r].build \in DOMAIN builds
               THEN [builds EXCEPT ![req[r].build] = job[r].row] ELSE builds
  /\ Step(r, "scons")
  /\ UNCHANGED <<fileVars, nextBuild, dir, parent, cwd, job, made, nextGen>>

\* mkfs packs the listed files and the ones SConstruct adds, if they are there.
\* Left out: in the mode that compiles, x.lua is packed as x.lc; mkfs ends with
\* an error at a file it cannot read.
Packed(d) == [n \in Names |-> IF n \in d.listed \cup AlwaysPacked THEN d.romfs[n] ELSE NoFile]

\* the compiler writes the binary of the CPU; when it fails, what was there
\* before stays.  The log of errors is written in both cases.
Scons(r) ==
  LET b == req[r].build
      t == job[r].row.target IN
  /\ At(r, "scons")
  /\ \/ /\ OwnDir(r).there
        /\ dir' = [dir EXCEPT ![b].bins[t] = job[r].no, ![b].log = job[r].no]
        /\ made' = [made EXCEPT ![job[r].no] = [romfs |-> Packed(dir[b]), build |-> b]]
     \/ /\ OwnDir(r).there /\ "scons" \in Faults
        /\ dir' = [dir EXCEPT ![b].log = job[r].no]
        /\ UNCHANGED made
     \/ ~OwnDir(r).there /\ UNCHANGED <<dir, made>>
  /\ Step(r, "check")
  /\ UNCHANGED <<fileVars, builds, nextBuild, parent, cwd, job, nextGen>>

\* cp and mv of a file that is not there change nothing; mutant: cp -n
CopiedUnlessThere(from, to) == IF to = 0 THEN from ELSE to
Copied(from, to) == IF from = 0 THEN to ELSE from

\* what mv leaves behind; mutant: the file is copied instead
LeftByCopy(from) == from
LeftByMove(from) == 0

\* the binaries in a directory; mutant: several of them count as none
OnlyBinary(d) == {t \in Targets : d.bins[t] # 0 /\ \A u \in Targets : d.bins[u] # 0 => u = t}
Binaries(d) == {t \in Targets : d.bins[t] # 0}

\* checksAndCopyBin: the last binary the directory listing shows is copied to
\* the parent directory, else the log is.  Listing a missing directory is an
\* error.
CheckBin(r) ==
  LET d == OwnDir(r) IN
  /\ At(r, "check")
  /\ \/ /\ ~d.there
        /\ Fail(r)
        /\ UNCHANGED parent
     \/ \E t \in Binaries(d) :
          /\ d.there
          /\ parent' = [parent EXCEPT !.bins[t] = Copied(d.bins[t], @)]
          /\ job' = [job EXCEPT ![r].found = "bin", ![r].bin = t]
          /\ Step(r, "pack")
     \/ /\ d.there /\ Binaries(d) = {}
        /\ parent' = [parent EXCEPT !.log = Copied(d.log, @)]
        /\ job' = [job EXCEPT ![r].found = "log"]
        /\ Step(r, "pack")
  /\ UNCHANGED <<fileVars, builds, nextBuild, dir, cwd, made, nextGen>>

\* mutant: rm runs after mv_binary has brought the image back
PackLast(r) ==
  /\ At(r, "pack")
  /\ dir' = [dir EXCEPT ![req[r].build] = EmptyDir]
  /\ parent' = [parent EXCEPT !.bins[job[r].bin] = 0]
  /\ Step(r, "back")
  /\ UNCHANGED <<fileVars, builds, nextBuild, cwd, job, made, nextGen>>

\* cd dir; zip ..; rm -rf *; mv ..: when cd fails, rm runs where the server is
Pack(r) ==
  /\ At(r, "pack")
  /\ IF OwnDir(r).there
     THEN dir' = [dir EXCEPT ![req[r].build] = EmptyDir] /\ UNCHANGED cwd
     ELSE cwd' = FALSE /\ UNCHANGED dir
  /\ Step(r, "back")
  /\ UNCHANGED <<fileVars, builds, nextBuild, parent, job, made, nextGen>>

\* The binary, or the log, comes back from the parent directory; the user is
\* told which, and can download what the directory now holds.
MoveBack(r) ==
  LET b == req[r].build
      t == job[r].bin
      done == [NoJob EXCEPT !.no = job[r].no, !.of = b] IN
  /\ At(r, "back")
  /\ IF ~OwnDir(r).there
     THEN UNCHANGED <<dir, parent>>
     ELSE IF job[r].found = "bin"
     THEN /\ dir' = [dir EXCEPT ![b].bins[t] = Copied(parent.bins[t], @)]
          /\ parent' = [parent EXCEPT !.bins[t] = LeftByMove(@)]
     ELSE /\ dir' = [dir EXCEPT ![b].log = Copied(parent.log, @)]
          /\ parent' = [parent EXCEPT !.log = LeftByMove(@)]
  /\ job' = [job EXCEPT ![r] =
       IF job[r].found = "bin" THEN [done EXCEPT !.told = "image", !.got = dir'[b].bins[t]]
                               ELSE [done EXCEPT !.told = "log", !.got = dir'[b].log]]
  /\ Finish(r)
  /\ UNCHANGED <<fileVars, builds, nextBuild, cwd, made, nextGen>>

-----------------------------------------------------------------------------
(* Deleting a build: select, rm -r, and when the directory is gone the row *)
(* and the links.                                                          *)

DeleteBuild(r, b) ==
  /\ b \in DOMAIN builds
  /\ Alone(b, {builds[b].target}, {})
  /\ Start(r, [Idle EXCEPT !.op = "deletebuild", !.step = "rmtree", !.build = b])
  /\ job' = [job EXCEPT ![r] = NoJob]
  /\ UNCHANGED <<fileVars, builds, nextBuild, dir, parent, cwd, made, nextGen>>

RemoveTree(r) ==
  /\ At(r, "rmtree")
  /\ dir' = [dir EXCEPT ![req[r].build] = Missing]
  /\ Step(r, "droprow2")
  /\ UNCHANGED <<fileVars, builds, nextBuild, parent, cwd, job, made, nextGen>>

\* The row stays when somebody has made the directory again; the test and the
\* delete are one step.
DropBuildRow(r) ==
  /\ At(r, "droprow2")
  /\ IF OwnDir(r).there
     THEN Finish(r) /\ UNCHANGED builds
     ELSE /\ builds' = Restrict(builds, DOMAIN builds \ {req[r].build})
          /\ Step(r, "droplinks2")
  /\ UNCHANGED <<fileVars, nextBuild, dir, parent, cwd, job, made, nextGen>>

DropBuildLinks(r) ==
  /\ At(r, "droplinks2")
  /\ links' = {l \in links : l.build # req[r].build}
  /\ Finish(r)
  /\ UNCHANGED <<rows, nextId, disk, data, pipeVars>>

-----------------------------------------------------------------------------
Crash(r) ==
  /\ "crash" \in Faults
  /\ r \in Active
  /\ Fail(r)
  /\ UNCHANGED <<fileVars, builds, nextBuild, dir, parent, cwd, made, nextGen>>

PStart(r) ==
  \/ \E b \in Builds, t \in Targets, sel \in SUBSET Offered :
       /\ Cardinality(sel) <= MaxSelected
       /\ \E auto \in sel \cup {NoAutorun} : SaveBuild(r, b, t, sel, auto)
  \/ \E b \in Builds : DeleteBuild(r, b)
  \/ /\ \/ \E n \in Names : Alone(0, {}, {n}) /\ UploadOpen(r, n)
        \/ \E i \in DOMAIN rows : Alone(0, {}, {rows[i]}) /\ DeleteLookup(r, i)
     /\ job' = [job EXCEPT ![r] = NoJob]
     /\ UNCHANGED <<builds, nextBuild, dir, parent, cwd, made, nextGen>>

PStep(r) ==
  \/ FileStep(r) /\ UNCHANGED pipeVars
  \/ Fetch(r) \/ MakeDir(r) \/ CopyBase(r) \/ ClearRomfs(r) \/ ListFiles(r) \/ CopyFile(r)
  \/ WriteConf(r) \/ StoreConfigs(r) \/ Scons(r) \/ CheckBin(r) \/ Pack(r) \/ MoveBack(r)
  \/ RemoveTree(r) \/ DropBuildRow(r) \/ DropBuildLinks(r)

PNext == \E r \in Requests : PStart(r) \/ PStep(r) \/ Crash(r)

PSpec == PInit /\ [][PNext]_allVars

\* the web server and the shell run every step of a request they have begun
FairPSpec == PSpec /\ \A r \in Requests : WF_allVars(PStep(r))

-----------------------------------------------------------------------------
QuietBuild(b) == \A r \in Active : req[r].build # b

\* "Your build image was generated successfully": the binary offered is the one
\* this very generation compiled, not an older one and not another build's.
OwnFreshImage == \A r \in Requests : job[r].told = "image" => job[r].got = job[r].no

\* "Please, download the log errors below": the log offered is that of the
\* generation that failed.
OwnLog == \A r \in Requests : job[r].told = "log" => job[r].got = job[r].no

\* Whatever crashed or failed before: the image offered was compiled for this
\* build, by this generation or by an earlier one.
OwnImage ==
  \A r \in Requests : job[r].told = "image" /\ job[r].got # 0 =>
    made[job[r].got].build = job[r].of

\* A failure is reported only for a generation that made no image.
FailureIsReal == \A r \in Requests : job[r].told = "log" => made[job[r].no].build = 0

\* The selected files that copy_romfs puts under one name.
Into(r, sel, n) == {c \in sel : \E m \in NamesOf(c) : RomName(r, c, m) = n}

\* The file system in a new image comes from the selection of the build and from
\* nothing else, the files of the copied eLua tree included: under each name is, whole,
\* a selected file that belongs there, so the one that does when it is the only one,
\* and no file where none belongs.  Which one survives when several share a name is
\* the order of the loop; that none is lost is EverySelected, which is false.
ImageIsSelection ==
  [][\A r \in Requests : Scons(r) /\ made' # made =>
       LET rom == made'[job[r].no].romfs
           sel == builds[req[r].build].sel IN
       \A n \in Names :
         IF Into(r, sel, n) = {} THEN rom[n] = NoFile
         ELSE /\ rom[n].whole
              /\ [id |-> rom[n].id, user |-> rom[n].user] \in Into(r, sel, n)]_allVars

\* "Click on the + icon to include the file on your build ROMFS": every file the user
\* selected is itself in the image, none in the place of another (copy_romfs).  One is lost when a user's
\* file and a suggested one share a name (MCBuildNames.cfg).
EverySelected ==
  [][\A r \in Requests : Scons(r) /\ made' # made =>
       LET rom == made'[job[r].no].romfs IN
       \A c \in builds[req[r].build].sel : \A m \in NamesOf(c) :
         LET f == rom[RomName(r, c, m)] IN [id |-> f.id, user |-> f.user] = c]_allVars

\* Between requests: a directory has its row, a link has its build, and the
\* links of a build are the files it selected that still exist.
BuildsAgree ==
  /\ \A b \in Builds : QuietBuild(b) => (dir[b].there => b \in DOMAIN builds)
  /\ \A l \in links : QuietBuild(l.build) =>
       l.build \in DOMAIN builds /\ [id |-> l.id, user |-> l.user] \in builds[l.build].sel
  /\ \A b \in DOMAIN builds :
       Active = {} /\ (\A c \in builds[b].sel : NamesOf(c) # {}) =>
         \A c \in builds[b].sel : [build |-> b, id |-> c.id, user |-> c.user] \in links

\* The parent directory, which all builds share, holds a file only while some
\* request is between copying it there and moving it back.
ParentClean ==
  /\ \A t \in Targets : parent.bins[t] # 0 =>
       \E r \in Active : job[r].found = "bin" /\ job[r].bin = t
  /\ parent.log # 0 => \E r \in Active : job[r].found = "log"

\* Every request is answered; a build that was deleted under it ends it too.
PAnswered == \A r \in Requests : ~At(r, "idle") ~> At(r, "idle")
=============================================================================
