------------------------- MODULE BuildSelectionProofs -------------------------
(***************************************************************************)
(* Proofs about what a build consists of: its row, its directory, its      *)
(* links, and the files in its image.                                      *)
(***************************************************************************)
EXTENDS BuildPipelineProofs

-----------------------------------------------------------------------------
(***************************************************************************)
(* When it holds: requests that run at the same time have different builds *)
(* and files, none is killed, and no page is of a deleted build.  Deleting *)
(* a file drops links by number alone, so no suggested file may have the   *)
(* number of a user's file.                                                *)
(***************************************************************************)
Orderly == /\ Separate /\ "crash" \notin Faults /\ "oldpage" \notin Faults
           /\ \A i \in DOMAIN Suggested : i < FirstId

-----------------------------------------------------------------------------
(***************************************************************************)
(* The invariant                                                           *)
(***************************************************************************)

\* A selected file is one that a form has offered.
Known(c) == /\ c \in Choice
            /\ IF c.user THEN FirstId <= c.id /\ c.id < nextId ELSE c.id \in DOMAIN Suggested

Tables ==
  /\ overlapped = {} /\ nextId \in Nat /\ FirstId <= nextId
  /\ \A i \in DOMAIN rows : FirstId <= i
  /\ \A r \in Requests : req[r].op = "delete" =>
       /\ FirstId <= req[r].id
       /\ req[r].step = "unlink" => req[r].id \notin DOMAIN rows
  /\ \A b \in DOMAIN builds : \A c \in builds[b].sel : Known(c)

\* A directory has its row, and a row that is dropped stays so.
Rooted ==
  /\ \A b \in Builds : dir[b].there => b \in DOMAIN builds
  /\ \A r \in Requests : req[r].step = "droplinks2" => req[r].build \notin DOMAIN builds

\* A link has its build, which selected its file, unless the request that drops it is
\* at work.
At1(s, b) == \E r \in Requests : req[r].step = s /\ req[r].build = b
ChoiceOf(l) == [id |-> l.id, user |-> l.user]
Owed(l) ==
  /\ l.build \in Builds /\ l.build < nextBuild
  /\ \/ /\ l.build \in DOMAIN builds
        /\ ChoiceOf(l) \in builds[l.build].sel \/ At1("clear", l.build)
     \/ At1("droplinks2", l.build)
LinksOwed == \A l \in links : Owed(l)

\* A selected file has its link, unless the request that makes it is at work, or was
\* ended by a selected file that is gone.
LinkOf(b, c) == [build |-> b, id |-> c.id, user |-> c.user]
Gone(b) == \E c \in builds[b].sel : NamesOf(c) = {}
Doing(q, b, c) ==
  /\ q.op = "save" /\ q.build = b
  /\ \/ q.step = "clear"
     \/ q.step \in SaveSteps /\ c \in q.todo
     \/ q.step \in {"find", "store", "link"} /\ q.id = c.id /\ q.user = c.user
Kept(b, c) == LinkOf(b, c) \in links \/ Gone(b) \/ \E r \in Requests : Doing(req[r], b, c)
LinksMade == \A b \in DOMAIN builds : \A c \in builds[b].sel : Kept(b, c)

\* The name of a selected file, which nobody else is at work on.
Safe(c, q) == NamesOf(c) # {} /\ NamesOf(c) \subseteq q.claims

\* The files for the image: nothing but selected files, whole, each under a name that
\* is its own; where each of them has gone.
Belongs(j, c, n) == \E m \in NamesOf(c) : n = IF c.id = j.row.autorun.id THEN Autorun ELSE m
Pure(d, j, sel) ==
  /\ DOMAIN d.romfs = Names
  /\ \A n \in Names : d.romfs[n] # NoFile =>
       /\ d.romfs[n].whole /\ ChoiceOf(d.romfs[n]) \in sel
       /\ Belongs(j, ChoiceOf(d.romfs[n]), n)
Placed(d, j, c, names) ==
  \A n \in NamesOf(c) :
    LET dest == IF c.id = j.row.autorun.id THEN Autorun ELSE n IN
    d.romfs[dest] # NoFile /\ dest \in names \cup {Autorun}
Entry(c) == [id |-> c.id, user |-> c.user, names |-> NamesOf(c)]

Copying(j, d, sel) ==
  /\ \A e \in j.list : \E c \in sel : e = Entry(c)
  /\ \A c \in sel : Entry(c) \in j.list \/ Placed(d, j, c, j.listed)

\* A save and the generation after it.
Selecting(q, j, f, d) ==
  LET b   == q.build
      sel == f[b].sel IN
  /\ b \in DOMAIN f /\ q.todo \subseteq sel
  /\ q.step = "clear" => q.todo = sel
  /\ q.step \in BuildSteps => q.todo = {}
  /\ q.step \in {"find", "store", "link"} => [id |-> q.id, user |-> q.user] \in sel
  /\ \A c \in sel \ q.todo : Safe(c, q)
  /\ q.step \in Compiling => j.row = f[b]
  /\ q.step \in {"list", "copy", "conf", "scons"} => Pure(d[b], j, sel)
  /\ q.step = "copy" => Copying(j, d[b], sel)
  /\ q.step \in {"conf", "scons"} => \A c \in sel : Placed(d[b], j, c, d[b].listed)

Saves == \A r \in Requests : req[r].op = "save" => Selecting(req[r], job[r], builds, dir)

SelInv == Tables /\ Rooted /\ LinksOwed /\ LinksMade /\ Saves

-----------------------------------------------------------------------------
(***************************************************************************)
(* What a step leaves alone                                                *)
(***************************************************************************)

\* A step by r for the build b: what it does to other requests, builds and directories,
Beside(r, b) ==
  /\ req[r].step # "idle" => req[r].build = b
  /\ \A s \in Requests : s # r => req'[s] = req[s] /\ job'[s] = job[s]
  /\ \A s \in Requests : s # r /\ req[s].step # "idle" /\ req[s].build \in Builds =>
       req[s].build # b
  /\ \A c \in Builds : c # b =>
       /\ dir'[c] = dir[c] /\ (c \in DOMAIN builds' <=> c \in DOMAIN builds)
       /\ c \in DOMAIN builds => builds'[c] = builds[c]
  /\ DOMAIN builds' \subseteq Builds
  /\ nextBuild \in Nat /\ nextBuild' \in Nat /\ nextBuild <= nextBuild'

\* to the table of files,
RowsMove(r) ==
  /\ nextId' \in Nat /\ nextId <= nextId' /\ overlapped' = overlapped
  /\ \A i \in DOMAIN rows' : \/ i \in DOMAIN rows /\ rows'[i] = rows[i]
                             \/ i = nextId
  /\ \A i \in DOMAIN rows : \/ i \in DOMAIN rows' /\ rows'[i] = rows[i]
                            \/ req[r].op = "delete" /\ i = req[r].id

\* and to the links of other builds.
LinksMove(r, b) ==
  /\ \A l \in links' : l.build # b => l \in links
  /\ \A l \in links : l.build # b => \/ l \in links'
                                     \/ req[r].step = "unlink" /\ l.id = req[r].id

\* The requests on a build.
LEMMA OfSelection ==
  ASSUME RowsInv, PipeInv, SelInv, NEW r \in Requests, req[r].op \in {"save", "deletebuild"}
  PROVE  /\ req[r].build \in Builds /\ req[r].build < nextBuild /\ req[r].build # 0
         /\ req[r].step # "idle" /\ Busy(req[r]) /\ req[r] \in Request
         /\ \A s \in Requests : s # r /\ req[s].step # "idle" => req[s].build # req[r].build
         /\ req[r].op = "save" => Selecting(req[r], job[r], builds, dir)
<1>1. Busy(req[r]) /\ OnBuild(req[r], nextBuild) /\ req[r] \in Request
  BY OfPhase
<1>2. req[r].build \in Builds /\ req[r].build < nextBuild /\ req[r].build # 0
  BY <1>1, PipelineAssumption DEF OnBuild
<1>3. req[r].step # "idle"
  BY <1>1 DEF Busy, BuildSteps
<1>4. \A s \in Requests : s # r /\ req[s].step # "idle" => req[s].build # req[r].build
  BY <1>2, <1>3 DEF PipeInv, Exclusive
<1> QED
  BY <1>1, <1>2, <1>3, <1>4 DEF SelInv, Saves

\* A file that is gone stays gone, and a request that has one among its names keeps it.
LEMMA NamesStay ==
  ASSUME RowsInv, SelInv, NEW r \in Requests, RowsMove(r), NEW c, Known(c)
  PROVE  /\ Known(c)'
         /\ NamesOf(c) = {} => NamesOf(c)' = {}
         /\ \A s \in Requests : s # r \/ req[r].op # "delete" =>
              (Safe(c, req[s]) => NamesOf(c)' = NamesOf(c))
<1>1. c \in Choice /\ c.id \in Nat /\ c.user \in {TRUE, FALSE}
  BY DEF Known, Choice
<1>2. nextId \in Nat /\ nextId' \in Nat /\ nextId <= nextId'
  BY DEF RowsMove, SelInv, Tables
<1>3. FirstId \in Nat
  BY StoreAssumption
<1>4. Known(c)'
  BY <1>1, <1>2, <1>3 DEF Known
<1>5. CASE ~c.user
  <2>1. NamesOf(c)' = NamesOf(c)
    BY <1>5 DEF NamesOf
  <2> QED
    BY <1>4, <2>1
<1>6. CASE c.user
  <2>1. c.id < nextId /\ c.id # nextId
    BY <1>1, <1>2, <1>6 DEF Known
  <2>2. c.id \in DOMAIN rows' => c.id \in DOMAIN rows /\ rows'[c.id] = rows[c.id]
    BY <2>1 DEF RowsMove
  <2>3. NamesOf(c) = {} <=> c.id \notin DOMAIN rows
    BY <1>6 DEF NamesOf
  <2>4. NamesOf(c)' = {} <=> c.id \notin DOMAIN rows'
    BY <1>6 DEF NamesOf
  <2>5. c.id \in DOMAIN rows => NamesOf(c) = {rows[c.id]}
    BY <1>6 DEF NamesOf
  <2>6. c.id \in DOMAIN rows' => NamesOf(c)' = {rows'[c.id]}
    BY <1>6 DEF NamesOf
  <2>7. ASSUME NEW s \in Requests, s # r \/ req[r].op # "delete", Safe(c, req[s])
        PROVE  NamesOf(c)' = NamesOf(c)
    <3>1. c.id \in DOMAIN rows /\ rows[c.id] \in req[s].claims
      BY <2>3, <2>5, <2>7 DEF Safe
    <3>2. ~(req[r].op = "delete" /\ c.id = req[r].id)
      <4>1. SUFFICES ASSUME req[r].op = "delete", c.id = req[r].id PROVE FALSE
        OBVIOUS
      <4>2. rows[c.id] = req[r].name /\ req[r].claims = {req[r].name}
        BY <3>1, <4>1, OfRequest DEF Fits, Deleting, Busy
      <4>3. req[r].claims \cap req[s].claims \subseteq overlapped
        BY <2>7, <4>1 DEF RowsInv, Apart
      <4> QED
        BY <3>1, <4>2, <4>3 DEF SelInv, Tables
    <3>3. c.id \in DOMAIN rows' /\ rows'[c.id] = rows[c.id]
      BY <3>1, <3>2 DEF RowsMove
    <3> QED
      BY <2>5, <2>6, <3>1, <3>3
  <2> QED
    BY <1>4, <2>2, <2>3, <2>4, <2>7
<1> QED
  BY <1>1, <1>5, <1>6

\* Another request's save goes on as it was.
LEMMA OtherSave ==
  ASSUME RowsInv, PipeInv, SelInv, NEW r \in Requests, NEW b, Beside(r, b), RowsMove(r),
         NEW s \in Requests, s # r, req[s].op = "save"
  PROVE  Selecting(req[s], job[s], builds, dir)'
<1> DEFINE k   == req[s].build
           sel == builds[k].sel
<1>1. /\ k \in Builds /\ k # b /\ req'[s] = req[s] /\ job'[s] = job[s]
      /\ Selecting(req[s], job[s], builds, dir)
  BY OfSelection DEF Beside
<1>2. k \in DOMAIN builds
  BY <1>1 DEF Selecting
<1>3. dir'[k] = dir[k] /\ k \in DOMAIN builds' /\ builds'[k] = builds[k]
  BY <1>1, <1>2 DEF Beside
<1>4. \A c \in sel : Known(c)
  BY <1>2 DEF SelInv, Tables
<1>5. \A c \in sel : Safe(c, req[s]) => NamesOf(c)' = NamesOf(c)
  BY <1>4, NamesStay
<1>6. \A c \in sel \ req[s].todo : NamesOf(c)' = NamesOf(c) /\ Safe(c, req[s])
  BY <1>1, <1>5 DEF Selecting
<1>7. \A c \in sel \ req[s].todo : Safe(c, req[s])'
  BY <1>1, <1>6 DEF Safe
<1>8. ASSUME req[s].step \in BuildSteps
      PROVE  \A c \in sel : /\ NamesOf(c)' = NamesOf(c) /\ Entry(c)' = Entry(c)
                            /\ Placed(dir[k], job[s], c, job[s].listed)
                                 => Placed(dir[k], job[s], c, job[s].listed)'
                            /\ Placed(dir[k], job[s], c, dir[k].listed)
                                 => Placed(dir[k], job[s], c, dir[k].listed)'
                            /\ \A n : Belongs(job[s], c, n) => Belongs(job[s], c, n)'
  <2>1. \A c \in sel : NamesOf(c)' = NamesOf(c)
    BY <1>1, <1>6, <1>8 DEF Selecting
  <2> QED
    BY <1>1, <1>3, <2>1 DEF Entry, Placed, Belongs
<1>9. req[s].step = "copy" => Copying(job[s], dir[k], sel)'
  <2>1. SUFFICES ASSUME req[s].step = "copy" PROVE Copying(job[s], dir[k], sel)'
    OBVIOUS
  <2>2. Copying(job[s], dir[k], sel) /\ "copy" \in BuildSteps
    BY <1>1, <2>1 DEF Selecting, BuildSteps
  <2>3. \A e \in job[s].list : \E c \in sel : e = Entry(c)'
    BY <1>8, <2>1, <2>2 DEF Copying
  <2>4. \A c \in sel : Entry(c)' \in job[s].list \/ Placed(dir[k], job[s], c, job[s].listed)'
    <3>1. ASSUME NEW c \in sel
          PROVE  Entry(c)' \in job[s].list \/ Placed(dir[k], job[s], c, job[s].listed)'
      <4>1. Entry(c) \in job[s].list \/ Placed(dir[k], job[s], c, job[s].listed)
        BY <2>2 DEF Copying
      <4>2. /\ Entry(c)' = Entry(c)
            /\ Placed(dir[k], job[s], c, job[s].listed)
                 => Placed(dir[k], job[s], c, job[s].listed)'
        BY <1>8, <2>1, <2>2
      <4> QED
        BY <4>1, <4>2, Zenon
    <3> QED
      BY <3>1
  <2> QED
    BY <1>1, <1>3, <2>3, <2>4 DEF Copying
<1>10. req[s].step \in {"conf", "scons"} =>
         \A c \in sel : Placed(dir[k], job[s], c, dir[k].listed)'
  <2>1. SUFFICES ASSUME req[s].step \in {"conf", "scons"}, NEW c \in sel
                 PROVE  Placed(dir[k], job[s], c, dir[k].listed)'
    OBVIOUS
  <2>2. Placed(dir[k], job[s], c, dir[k].listed) /\ req[s].step \in BuildSteps
    BY <1>1, <2>1 DEF Selecting, BuildSteps
  <2> QED
    BY <1>8, <2>2
<1>11. req[s].step \in {"list", "copy", "conf", "scons"} => Pure(dir[k], job[s], sel)'
  <2>1. SUFFICES ASSUME req[s].step \in {"list", "copy", "conf", "scons"}
                 PROVE  Pure(dir[k], job[s], sel)'
    OBVIOUS
  <2>2. Pure(dir[k], job[s], sel) /\ req[s].step \in BuildSteps
    BY <1>1, <2>1 DEF Selecting, BuildSteps
  <2>3. \A c \in sel : \A n : Belongs(job[s], c, n) => Belongs(job[s], c, n)'
    BY <1>8, <2>2
  <2> QED
    BY <1>1, <1>3, <2>2, <2>3 DEF Pure, ChoiceOf
<1> QED
  BY <1>1, <1>3, <1>7, <1>9, <1>10, <1>11 DEF Selecting

\* Only r is on the build it works for.
LEMMA OnlyOn ==
  ASSUME RowsInv, PipeInv, NEW r \in Requests, NEW b \in Builds, Beside(r, b)
  PROVE  /\ \A s : At1(s, b) /\ s # "idle" => req[r].step = s /\ req[r].build = b
         /\ \A c, s : s \in Requests /\ Doing(req[s], b, c) => s = r
<1>1. \A s \in Requests : s # r /\ req[s].build = b => req[s].step = "idle"
  BY DEF Beside
<1>2. \A s \in Requests : req[s].op = "save" => req[s].step # "idle"
  BY OfRequest DEF Fits, Busy, BuildSteps
<1> QED
  BY <1>1, <1>2 DEF At1, Doing

\* So what a step must show is about its own request and build.
LEMMA BesideKeeps ==
  ASSUME RowsInv, PipeInv, SelInv, NEW r \in Requests, NEW b, Beside(r, b), RowsMove(r),
         LinksMove(r, b),
         req'[r].op = "delete" =>
           /\ FirstId <= req'[r].id
           /\ req'[r].step = "unlink" => req'[r].id \notin DOMAIN rows',
         Orderly, req[r].step = "unlink" => req[r].op = "delete",
         b \in DOMAIN builds' => \A c \in builds'[b].sel : Known(c)' /\ Kept(b, c)',
         b \in Builds => (dir'[b].there => b \in DOMAIN builds'),
         req'[r].step = "droplinks2" => req'[r].build \notin DOMAIN builds',
         \A l \in links' : l.build = b => Owed(l)',
         req'[r].op = "save" => Selecting(req[r], job[r], builds, dir)'
  PROVE  SelInv'
<1>1. \A s \in Requests : s # r => req'[s] = req[s]
  BY DEF Beside
<1>2. \A c \in DOMAIN builds' : c # b => c \in Builds /\ c \in DOMAIN builds /\ builds'[c] = builds[c]
  BY DEF Beside
<1>3. \A c : Known(c) => Known(c)'
  BY NamesStay
<1>4. FirstId \in Nat /\ nextId \in Nat /\ nextId' \in Nat /\ nextId <= nextId'
  BY StoreAssumption DEF RowsMove, SelInv, Tables
<1>5. Tables'
  <2>1. \A c \in DOMAIN builds' : \A x \in builds'[c].sel : Known(x)'
    BY <1>2, <1>3 DEF SelInv, Tables
  <2>2. ASSUME NEW i \in DOMAIN rows' PROVE FirstId <= i
    BY <1>4 DEF SelInv, Tables, RowsMove
  <2>3. ASSUME NEW s \in Requests, s # r, req[s].op = "delete"
        PROVE  /\ FirstId <= req[s].id
               /\ req[s].step = "unlink" => req[s].id \notin DOMAIN rows'
    <3>1. /\ FirstId <= req[s].id /\ req[s].id < nextId /\ req[s].id \in Nat
          /\ req[s].step = "unlink" => req[s].id \notin DOMAIN rows
      BY <2>3, OfRequest DEF SelInv, Tables, Fits, Deleting, Request
    <3>2. req[s].id # nextId
      BY <1>4, <3>1
    <3> QED
      BY <3>1, <3>2 DEF RowsMove
  <2>4. \A s \in Requests : req'[s].op = "delete" =>
          /\ FirstId <= req'[s].id
          /\ req'[s].step = "unlink" => req'[s].id \notin DOMAIN rows'
    BY <1>1, <2>3
  <2>5. overlapped' = {} /\ FirstId <= nextId'
    BY <1>4 DEF RowsMove, SelInv, Tables
  <2> QED
    BY <1>4, <2>1, <2>2, <2>4, <2>5 DEF Tables
<1>6. Rooted'
  <2>1. \A c \in Builds : dir'[c].there => c \in DOMAIN builds'
    BY DEF SelInv, Rooted, Beside
  <2>2. ASSUME NEW s \in Requests, s # r, req[s].step = "droplinks2"
        PROVE  req[s].build \notin DOMAIN builds'
    <3>1. req[s].op = "deletebuild"
      BY <2>2, OfRequest DEF Fits, Busy, BuildSteps
    <3>2. req[s].build \in Builds
      BY <3>1, OfSelection
    <3>3. req[s].build # b
      BY <2>2, <3>2 DEF Beside
    <3> QED
      BY <2>2, <3>2, <3>3 DEF SelInv, Rooted, Beside
  <2> QED
    BY <1>1, <2>1, <2>2 DEF Rooted
<1>7. LinksOwed'
  <2>1. ASSUME NEW l \in links', l.build # b PROVE Owed(l)'
    <3>1. l \in links /\ Owed(l)
      BY <2>1 DEF LinksMove, SelInv, LinksOwed
    <3>2. l.build \in Builds /\ l.build < nextBuild'
      BY <3>1, PipelineAssumption DEF Owed, Beside
    <3>3. \A t : t # "idle" /\ At1(t, l.build) => At1(t, l.build)'
      <4>1. ASSUME NEW t, t # "idle", NEW s \in Requests, req[s].step = t, req[s].build = l.build
            PROVE  s # r
        BY <2>1, <4>1 DEF Beside
      <4> QED
        BY <1>1, <4>1 DEF At1
    <3>4. /\ l.build \in DOMAIN builds => l.build \in DOMAIN builds'
          /\ l.build \in DOMAIN builds => builds'[l.build] = builds[l.build]
      BY <2>1, <3>2 DEF Beside
    <3> QED
      BY <3>1, <3>2, <3>3, <3>4 DEF Owed
  <2> QED
    BY <2>1 DEF LinksOwed
<1>8. LinksMade'
  <2>1. ASSUME NEW k \in DOMAIN builds', NEW c \in builds'[k].sel, k # b PROVE Kept(k, c)'
    <3>1. /\ k \in Builds /\ k \in DOMAIN builds /\ builds'[k] = builds[k]
          /\ c \in builds[k].sel /\ Kept(k, c) /\ Known(c)
      BY <1>2, <2>1 DEF SelInv, LinksMade, Tables
    <3>2. Gone(k) => Gone(k)'
      BY <3>1, NamesStay DEF Gone, SelInv, Tables
    <3>3. ASSUME NEW s \in Requests, Doing(req[s], k, c) PROVE Doing(req[s], k, c)'
      <4>1. req[s].op = "save"
        BY <3>3 DEF Doing
      <4>2. req[s].step # "idle" /\ req[s].build # b
        BY <2>1, <3>3, <4>1, OfSelection DEF Doing
      <4>3. s # r
        BY <4>2 DEF Beside
      <4> QED
        BY <1>1, <3>3, <4>3 DEF Doing
    <3>4. LinkOf(k, c) \in links => LinkOf(k, c) \in links' \/ Gone(k)'
      <4>1. SUFFICES ASSUME LinkOf(k, c) \in links, LinkOf(k, c) \notin links' PROVE Gone(k)'
        OBVIOUS
      <4>2. LinkOf(k, c).build = k /\ LinkOf(k, c).id = c.id
        BY DEF LinkOf
      <4>3. req[r].step = "unlink" /\ c.id = req[r].id
        BY <2>1, <4>1, <4>2 DEF LinksMove
      <4>4. c.id \notin DOMAIN rows /\ FirstId <= c.id
        BY <4>3 DEF SelInv, Tables
      <4>5. c.user
        <5>1. c.id \in DOMAIN Suggested => c.id < FirstId /\ c.id \in Nat
          BY StoreAssumption DEF Orderly
        <5> QED
          BY <1>4, <3>1, <4>4, <5>1 DEF Known, Choice
      <4>6. NamesOf(c) = {}
        BY <4>4, <4>5 DEF NamesOf
      <4> QED
        BY <3>1, <3>2, <4>6 DEF Gone
    <3> QED
      BY <3>1, <3>2, <3>3, <3>4 DEF Kept
  <2> QED
    BY <2>1 DEF LinksMade
<1>9. Saves'
  <2>1. \A s \in Requests : s # r /\ req[s].op = "save" => Selecting(req[s], job[s], builds, dir)'
    BY OtherSave
  <2> QED
    BY <1>1, <2>1 DEF Saves
<1> QED
  BY <1>5, <1>6, <1>7, <1>8, <1>9 DEF SelInv

-----------------------------------------------------------------------------
(***************************************************************************)
(* Requests on files, and requests that start                              *)
(***************************************************************************)

\* The table as it was.
LEMMA RowsSame ==
  ASSUME SelInv, NEW r \in Requests, UNCHANGED <<rows, nextId, overlapped>>
  PROVE  RowsMove(r)
BY DEF RowsMove, SelInv, Tables

\* No link is of build 0.
LEMMA LinkBuilds ==
  ASSUME SelInv, NEW l \in links
  PROVE  l.build \in Builds /\ l.build # 0 /\ l.build < nextBuild
BY PipelineAssumption DEF SelInv, LinksOwed, Owed

\* A step of a request that is on no build.
LEMMA FileSel ==
  ASSUME RowsInv, PipeInv, SelInv, Orderly, NEW r \in Requests,
         req[r].op \in {"none", "upload", "delete"}, RowsMove(r),
         \A s \in Requests : s # r => req'[s] = req[s] /\ job'[s] = job[s],
         UNCHANGED <<builds, nextBuild, dir>>, links' \subseteq links,
         \A l \in links \ links' : req[r].step = "unlink" /\ l.id = req[r].id,
         req'[r].op # "save", req'[r].step # "droplinks2",
         req'[r].op = "delete" =>
           /\ FirstId <= req'[r].id
           /\ req'[r].step = "unlink" => req'[r].id \notin DOMAIN rows'
  PROVE  SelInv'
<1>1. Busy(req[r]) /\ req[r].build = 0 /\ 0 \notin Builds
  BY OfPhase, PipelineAssumption DEF OnBuild
<1>2. DOMAIN builds \subseteq Builds /\ nextBuild \in Nat
  BY DEF PipeInv, PipeType
<1>3. Beside(r, 0)
  BY <1>1, <1>2 DEF Beside
<1>4. LinksMove(r, 0)
  BY DEF LinksMove
<1>5. req[r].step = "unlink" => req[r].op = "delete"
  BY <1>1 DEF Busy, BuildSteps
<1>6. \A l \in links' : l.build # 0
  BY LinkBuilds
<1>7. 0 \notin DOMAIN builds'
  BY <1>1, <1>2
<1> QED
  BY <1>1, <1>3, <1>4, <1>5, <1>6, <1>7, BesideKeeps

\* What starts beside the others works on names of its own.
LEMMA StartsApart ==
  ASSUME Orderly, NEW r \in Requests, NEW q, Start(r, q), NEW b, NEW ts,
         Alone(b, ts, q.claims)
  PROVE  overlapped' = overlapped
<1>1. "overlap" \notin Faults
  BY DEF Orderly, Separate
<1>2. overlapped' = overlapped \cup (q.claims \cap ClaimedBy(Active))
  BY DEF Start
<1>3. \A s \in Active : req[s].claims \cap q.claims = {}
  BY <1>1 DEF Alone
<1>4. q.claims \cap ClaimedBy(Active) = {}
  BY <1>3 DEF ClaimedBy
<1> QED
  BY <1>2, <1>4

\* The request that starts was idle.
LEMMA WasIdle ==
  ASSUME RowsInv, NEW r \in Requests, req[r].step = "idle"
  PROVE  req[r].op = "none"
<1>1. Busy(req[r])
  BY OfRequest DEF Fits
<1> QED
  BY <1>1 DEF Busy, BuildSteps

\* Opening a file to upload, looking up one to delete, starting to delete a build.
LEMMA FileStartSel ==
  ASSUME RowsInv, PipeInv, SelInv, Orderly, NEW r \in Requests, NEW q, Start(r, q),
         NEW b, NEW ts, Alone(b, ts, q.claims), UNCHANGED <<rows, nextId, links>>,
         job' = [job EXCEPT ![r] = NoJob], UNCHANGED <<builds, nextBuild, dir>>,
         q.op # "save", q.step \notin {"droplinks2", "unlink"}, q.op = "delete" => FirstId <= q.id
  PROVE  SelInv'
<1>1. req[r].step = "idle" /\ req'[r] = q /\ \A s \in Requests : s # r => req'[s] = req[s]
  BY StartIs
<1>2. \A s \in Requests : s # r => job'[s] = job[s]
  BY NoJobYet
<1>3. RowsMove(r)
  BY StartsApart, RowsSame
<1>4. req[r].op = "none"
  BY <1>1, WasIdle
<1> QED
  BY <1>1, <1>2, <1>3, <1>4, FileSel

\* The starts that save nothing.
LEMMA PlainStartSel ==
  ASSUME RowsInv, PipeInv, SelInv, Orderly, NEW r \in Requests,
         job' = [job EXCEPT ![r] = NoJob], UNCHANGED <<builds, nextBuild, dir>>,
         \/ \E n \in Names : Alone(0, {}, {n}) /\ UploadOpen(r, n)
         \/ \E i \in DOMAIN rows : Alone(0, {}, {rows[i]}) /\ DeleteLookup(r, i)
         \/ \E b \in Builds : DeleteBuild(r, b)
  PROVE  SelInv'
<1>1. CASE \E n \in Names : Alone(0, {}, {n}) /\ UploadOpen(r, n)
  <2>1. PICK n \in Names : Alone(0, {}, {n}) /\ UploadOpen(r, n)
    BY <1>1
  <2> DEFINE i == IF disk[n] = 0 THEN FreeInode ELSE disk[n]
             q == Uploading(n, i)
  <2>2. Start(r, q) /\ UNCHANGED <<rows, nextId, links>>
    BY <2>1, Zenon DEF UploadOpen, Uploading
  <2> HIDE DEF i
  <2>3. q.op = "upload" /\ q.step = "find" /\ q.claims = {n}
    BY DEF Uploading, Idle
  <2> HIDE DEF q
  <2>4. Alone(0, {}, q.claims)
    BY <2>1, <2>3
  <2> QED
    BY <2>2, <2>3, <2>4, FileStartSel
<1>2. CASE \E i \in DOMAIN rows : Alone(0, {}, {rows[i]}) /\ DeleteLookup(r, i)
  <2>1. PICK i \in DOMAIN rows : Alone(0, {}, {rows[i]}) /\ DeleteLookup(r, i)
    BY <1>2
  <2> DEFINE q == Removing(i, rows[i])
  <2>2. Start(r, q) /\ UNCHANGED <<rows, nextId, links>>
    BY <2>1, Zenon DEF DeleteLookup, Removing
  <2>3. q.op = "delete" /\ q.step = "remove" /\ q.claims = {rows[i]} /\ q.id = i
    BY DEF Removing, Idle
  <2> HIDE DEF q
  <2>4. Alone(0, {}, q.claims) /\ FirstId <= i
    BY <2>1, <2>3 DEF SelInv, Tables
  <2> QED
    BY <2>2, <2>3, <2>4, FileStartSel
<1>3. CASE \E b \in Builds : DeleteBuild(r, b)
  <2>1. PICK b \in Builds : DeleteBuild(r, b)
    BY <1>3
  <2> DEFINE q == DeletingBuild(b)
  <2>2. Start(r, q) /\ Alone(b, {builds[b].target}, {}) /\ UNCHANGED <<rows, nextId, links>>
    BY <2>1, Zenon DEF DeleteBuild, DeletingBuild, fileVars
  <2>3. q.op = "deletebuild" /\ q.step = "rmtree" /\ q.claims = {}
    BY DEF DeletingBuild, Idle
  <2> HIDE DEF q
  <2>4. Alone(b, {builds[b].target}, q.claims)
    BY <2>2, <2>3
  <2> QED
    BY <2>2, <2>3, <2>4, FileStartSel
<1> QED
  BY <1>1, <1>2, <1>3

\* A save starts with the files a form offers, and gives the build a new selection.
LEMMA SaveStartSel ==
  ASSUME RowsInv, PipeInv, SelInv, Orderly, NEW r \in Requests, NEW b \in Builds,
         NEW t, NEW sel \in SUBSET Offered, NEW auto, SaveBuild(r, b, t, sel, auto)
  PROVE  SelInv'
<1> DEFINE names == UNION {NamesOf(c) : c \in sel}
           q     == Saving(b, sel, names)
           new   == Row(t, sel, auto)
           ts    == {t} \cup (IF b \in DOMAIN builds THEN {builds[b].target} ELSE {})
<1>1. /\ Start(r, q) /\ UNCHANGED <<rows, nextId, links, dir>>
      /\ job' = [job EXCEPT ![r] = NoJob] /\ Alone(b, ts, names)
  BY Zenon DEF SaveBuild, SelectFiles, Saving
<1>2. /\ builds' = [i \in DOMAIN builds \cup ({b} \cap {nextBuild}) |->
                      IF i = b THEN new ELSE builds[i]]
      /\ nextBuild' = IF b = nextBuild THEN nextBuild + 1 ELSE nextBuild
      /\ b \in DOMAIN builds \/ b = nextBuild
  BY DEF SaveBuild, Orderly
<1>3. q.op = "save" /\ q.step = "clear" /\ q.build = b /\ q.todo = sel /\ q.claims = names
  BY DEF Saving, Idle
<1>4. new.sel = sel
  BY DEF Row
<1> HIDE DEF q, new, names, ts
<1>5. req[r].step = "idle" /\ req'[r] = q /\ \A s \in Requests : s # r => req'[s] = req[s]
  BY <1>1, StartIs
<1>6. \A s \in Requests : s # r => job'[s] = job[s]
  BY <1>1, NoJobYet
<1>7. RowsMove(r)
  BY <1>1, <1>3, StartsApart, RowsSame
<1>8. /\ nextBuild \in Nat \ {0} /\ DOMAIN builds \subseteq Builds /\ b # 0 /\ b \in Nat
      /\ \A c \in DOMAIN builds : c < nextBuild
  BY PipelineAssumption DEF PipeInv, PipeType
<1>9. nextBuild' \in Nat /\ nextBuild <= nextBuild' /\ b < nextBuild'
  BY <1>2, <1>8
<1>10. /\ b \in DOMAIN builds' /\ builds'[b].sel = sel /\ DOMAIN builds' \subseteq Builds
       /\ \A c \in Builds : c # b => /\ c \in DOMAIN builds' <=> c \in DOMAIN builds
                                     /\ c \in DOMAIN builds => builds'[c] = builds[c]
  BY <1>2, <1>4, <1>8
<1>11. \A s \in Requests : s # r /\ req[s].step # "idle" => req[s].build # b
  BY <1>1, <1>8 DEF Alone, Active, At, Orderly, Separate
<1>12. Beside(r, b)
  BY <1>1, <1>5, <1>6, <1>8, <1>9, <1>10, <1>11 DEF Beside
<1>13. LinksMove(r, b)
  BY <1>1 DEF LinksMove
<1>14. \A c \in sel : Known(c)'
  <2>1. SUFFICES ASSUME NEW c \in sel PROVE Known(c)
    BY <1>7, NamesStay
  <2>2. c \in Choice
    BY OfferedIs
  <2>3. nextId \in Nat /\ FirstId \in Nat
    BY StoreAssumption DEF SelInv, Tables
  <2>4. IF c.user THEN c.id \in FirstId..(nextId - 1) ELSE c.id \in DOMAIN Suggested
    BY DEF Offered
  <2> QED
    BY <2>2, <2>3, <2>4 DEF Known
<1>15. \A c \in sel : Kept(b, c)'
  BY <1>3, <1>5 DEF Kept, Doing
<1>16. \A l \in links' : l.build = b => Owed(l)'
  BY <1>3, <1>5, <1>9, <1>10 DEF Owed, At1
<1>17. Selecting(req[r], job[r], builds, dir)'
  BY <1>3, <1>5, <1>10 DEF Selecting, BuildSteps, Compiling
<1> QED
  BY <1>3, <1>5, <1>7, <1>10, <1>12, <1>13, <1>14, <1>15, <1>16, <1>17, BesideKeeps

-----------------------------------------------------------------------------
(***************************************************************************)
(* Saving: the links of the build, one file after the other                *)
(***************************************************************************)

\* What holds of the links of the build a request works on.
LEMMA OwnLinks ==
  ASSUME RowsInv, PipeInv, SelInv, NEW r \in Requests, req[r].op \in {"save", "deletebuild"}
  PROVE  /\ req[r].step \notin {"clear", "droplinks2"} =>
              \A l \in links : l.build = req[r].build =>
                l.build \in DOMAIN builds /\ ChoiceOf(l) \in builds[l.build].sel
         /\ req[r].build \in DOMAIN builds => \A c \in builds[req[r].build].sel :
              \/ LinkOf(req[r].build, c) \in links \/ Gone(req[r].build)
              \/ Doing(req[r], req[r].build, c)
<1> DEFINE b == req[r].build
<1>1. \A s \in Requests : s # r /\ req[s].step # "idle" => req[s].build # b
  BY OfSelection
<1>2. \A s \in Requests : req[s].op = "save" => req[s].step # "idle"
  BY OfSelection
<1>3. ASSUME req[r].step \notin {"clear", "droplinks2"}, NEW l \in links, l.build = b
      PROVE  l.build \in DOMAIN builds /\ ChoiceOf(l) \in builds[l.build].sel
  <2>1. Owed(l)
    BY DEF SelInv, LinksOwed
  <2>2. ~At1("clear", b) /\ ~At1("droplinks2", b)
    BY <1>1, <1>3 DEF At1
  <2> HIDE DEF b
  <2> QED
    BY <1>3, <2>1, <2>2 DEF Owed
<1>4. ASSUME b \in DOMAIN builds, NEW c \in builds[b].sel
      PROVE  LinkOf(b, c) \in links \/ Gone(b) \/ Doing(req[r], b, c)
  <2>1. Kept(b, c)
    BY <1>4 DEF SelInv, LinksMade
  <2>2. \A s \in Requests : Doing(req[s], b, c) => s = r
    BY <1>1, <1>2 DEF Doing
  <2> HIDE DEF b
  <2> QED
    BY <2>1, <2>2 DEF Kept
<1> QED
  BY <1>3, <1>4

\* All a step on files must show in a save.
LEMMA SaveFile ==
  ASSUME RowsInv, PipeInv, SelInv, Orderly, NEW r \in Requests, req[r].op = "save",
         NEW b, b = req[r].build, NEW sel, sel = builds[b].sel,
         UNCHANGED <<builds, nextBuild, dir, job>>, RowsMove(r),
         \A s \in Requests : s # r => req'[s] = req[s],
         \A l \in links' : l.build # b => l \in links,
         \A l \in links : l.build # b => l \in links',
         \A c \in sel : LinkOf(b, c) \in links' \/ Gone(b) \/ Doing(req'[r], b, c),
         \A l \in links' : l.build = b => ChoiceOf(l) \in sel,
         \/ req'[r] = Idle
         \/ /\ req'[r].op = "save" /\ req'[r].build = b /\ req'[r].claims = req[r].claims
            /\ req'[r].step \in SaveSteps \ {"clear"} /\ req'[r].todo \subseteq sel
            /\ req'[r].step \in {"find", "store", "link"} =>
                 [id |-> req'[r].id, user |-> req'[r].user] \in sel
            /\ \A c \in sel \ req'[r].todo : Safe(c, req[r])
  PROVE  SelInv'
<1>1. /\ b \in Builds /\ b < nextBuild /\ b # 0 /\ Busy(req[r])
      /\ \A s \in Requests : s # r /\ req[s].step # "idle" => req[s].build # b
      /\ Selecting(req[r], job[r], builds, dir)
  BY OfSelection
<1>2. b \in DOMAIN builds /\ DOMAIN builds \subseteq Builds /\ nextBuild \in Nat
  BY <1>1 DEF Selecting, PipeInv, PipeType
<1>3. Beside(r, b)
  BY <1>1, <1>2 DEF Beside
<1>4. LinksMove(r, b)
  BY DEF LinksMove
<1>5. req[r].step # "unlink"
  BY <1>1 DEF Busy, BuildSteps
<1>6. \A c \in sel : Known(c) /\ Known(c)'
  <2>1. \A c \in sel : Known(c)
    BY <1>2 DEF SelInv, Tables
  <2> QED
    BY <2>1, NamesStay
<1>7. Gone(b) => Gone(b)'
  BY <1>6, NamesStay DEF Gone
<1>8. \A c \in sel : Kept(b, c)'
  BY <1>7 DEF Kept
<1>9. \A l \in links' : l.build = b => Owed(l)'
  BY <1>1, <1>2 DEF Owed
<1>10. req'[r].op # "delete" /\ req'[r].step # "droplinks2"
  BY DEF Idle, SaveSteps
<1>11. ASSUME req'[r].op = "save" PROVE Selecting(req[r], job[r], builds, dir)'
  <2>1. Idle.op # "save"
    BY DEF Idle
  <2> DEFINE q == req'[r]
  <2>2. /\ q.build = b /\ q.claims = req[r].claims
        /\ q.step \in SaveSteps \ {"clear"} /\ q.todo \subseteq sel
        /\ q.step \in {"find", "store", "link"} => [id |-> q.id, user |-> q.user] \in sel
        /\ \A c \in sel \ q.todo : Safe(c, req[r])
    BY <1>11, <2>1
  <2>3. \A c \in sel \ q.todo : Safe(c, req[r])'
    <3>1. SUFFICES ASSUME NEW c \in sel \ q.todo PROVE Safe(c, req[r])'
      OBVIOUS
    <3>2. Safe(c, req[r]) /\ Known(c)
      BY <1>6, <2>2
    <3>3. NamesOf(c)' = NamesOf(c)
      BY <3>2, NamesStay
    <3> QED
      BY <2>2, <3>2, <3>3 DEF Safe
  <2>4. /\ q.step \notin BuildSteps /\ q.step \notin Compiling
        /\ q.step \notin {"list", "copy", "conf", "scons", "clear"}
    BY <2>2 DEF SaveSteps, BuildSteps, Compiling
  <2>5. b \in DOMAIN builds' /\ builds'[b].sel = sel
    BY <1>2
  <2> QED
    BY <2>2, <2>3, <2>4, <2>5 DEF Selecting
<1> QED
  BY <1>1, <1>2, <1>3, <1>4, <1>5, <1>6, <1>8, <1>9, <1>10, <1>11, BesideKeeps

\* What is known of a save before its generation.
LEMMA OfSave ==
  ASSUME RowsInv, PipeInv, SelInv, NEW r \in Requests, req[r].op = "save",
         req[r].step \in SaveSteps
  PROVE  /\ req[r] \in Request /\ req \in [Requests -> Request]
         /\ Selecting(req[r], job[r], builds, dir)
         /\ req[r].step # "clear" =>
              \A l \in links : l.build = req[r].build => ChoiceOf(l) \in builds[req[r].build].sel
         /\ \A c \in builds[req[r].build].sel :
              \/ LinkOf(req[r].build, c) \in links \/ Gone(req[r].build)
              \/ Doing(req[r], req[r].build, c)
<1>1. Selecting(req[r], job[r], builds, dir) /\ req[r] \in Request
  BY OfSelection
<1>2. req[r].step # "droplinks2"
  BY DEF SaveSteps
<1>3. req[r].build \in DOMAIN builds
  BY <1>1 DEF Selecting
<1> QED
  BY <1>1, <1>2, <1>3, OwnLinks, OfRequest

\* The lookup of a save: nothing changes but the step.
LEMMA FindRowSel ==
  ASSUME RowsInv, PipeInv, SelInv, Orderly, NEW r \in Requests, FindRow(r), UNCHANGED pipeVars
  PROVE  SelInv'
<1>1. PICK i \in IF IdsNamed(req[r].name) = {} THEN {0} ELSE IdsNamed(req[r].name) :
        Go(r, Found(req[r], i))
  BY Zenon DEF FindRow, Found
<1>2. /\ req[r].step = "find" /\ UNCHANGED <<rows, nextId, links, overlapped>>
      /\ UNCHANGED <<builds, nextBuild, dir, job>>
  BY <1>1, Zenon DEF FindRow, At, Go, pipeVars
<1>3. req[r] \in Request /\ Busy(req[r]) /\ req \in [Requests -> Request] /\ i \in Nat
  BY OfRequest DEF Fits, IdsNamed
<1> DEFINE new == Found(req[r], i)
<1>4. /\ new.op = req[r].op /\ new.step = "store" /\ new.claims = req[r].claims
      /\ new.id = req[r].id /\ new.user = req[r].user /\ new.todo = req[r].todo
  BY <1>3, FoundIs
<1>5. GoesOn(new, req[r], "store")
  BY <1>3, GoingOn
<1> HIDE DEF new
<1>6. req'[r] = new /\ (\A s \in Requests : s # r => req'[s] = req[s]) /\ RowsMove(r)
  BY <1>1, <1>2, <1>3, RowsSame DEF Go, new
<1>7. CASE req[r].op = "upload"
  BY <1>2, <1>4, <1>6, <1>7, FileSel
<1>8. CASE req[r].op = "save"
  <2>1. /\ Selecting(req[r], job[r], builds, dir)
        /\ \A l \in links : l.build = req[r].build => ChoiceOf(l) \in builds[req[r].build].sel
        /\ \A c \in builds[req[r].build].sel :
              \/ LinkOf(req[r].build, c) \in links \/ Gone(req[r].build)
              \/ Doing(req[r], req[r].build, c)
    BY <1>2, <1>8, OfSave DEF SaveSteps
  <2>2. \A c : Doing(req[r], req[r].build, c) => Doing(new, req[r].build, c)
    BY <1>2, <1>4, <1>5 DEF Doing, GoesOn, SaveSteps
  <2>3. /\ req[r].todo \subseteq builds[req[r].build].sel
        /\ [id |-> req[r].id, user |-> req[r].user] \in builds[req[r].build].sel
        /\ \A c \in builds[req[r].build].sel \ req[r].todo : Safe(c, req[r])
    BY <1>2, <2>1 DEF Selecting
  <2>4. "store" \in SaveSteps \ {"clear"}
    BY DEF SaveSteps
  <2> QED
    BY <1>2, <1>4, <1>5, <1>6, <1>8, <2>1, <2>2, <2>3, <2>4, SaveFile DEF GoesOn
<1>9. req[r].op \in {"upload", "save"}
  BY <1>2, <1>3 DEF Busy, BuildSteps
<1> QED
  BY <1>7, <1>8, <1>9

\* A row inserted has a new number.
LEMMA StoreRowSel ==
  ASSUME RowsInv, PipeInv, SelInv, Orderly, NEW r \in Requests, StoreRow(r), UNCHANGED pipeVars
  PROVE  SelInv'
<1> DEFINE s   == IF req[r].op = "upload" THEN "write" ELSE "link"
           new == To(req[r], s)
<1>1. /\ req[r].step = "store" /\ Go(r, new) /\ UNCHANGED <<links, overlapped>>
      /\ UNCHANGED <<builds, nextBuild, dir, job>>
  BY Zenon DEF StoreRow, At, Go, To, pipeVars
<1>2. req[r] \in Request /\ Busy(req[r]) /\ req \in [Requests -> Request]
  BY OfRequest DEF Fits
<1>3. s \in {"write", "link"} /\ s \in Steps
  BY DEF Steps
<1>4. /\ new.op = req[r].op /\ new.step = s /\ new.claims = req[r].claims
      /\ new.id = req[r].id /\ new.user = req[r].user /\ new.todo = req[r].todo
      /\ new.build = req[r].build
  BY <1>2, <1>3, ToIs
<1>5. RowsMove(r)
  <2>1. CASE req[r].row = 0
    <3>1. /\ rows' = [i \in DOMAIN rows \cup {nextId} |->
                        IF i = nextId THEN req[r].name ELSE rows[i]]
          /\ nextId' = nextId + 1
      BY <2>1, Zenon DEF StoreRow
    <3>2. nextId \in Nat /\ nextId \notin DOMAIN rows
      BY OfRequest
    <3> QED
      BY <1>1, <3>1, <3>2 DEF RowsMove
  <2>2. CASE req[r].row # 0
    BY <1>1, <2>2, RowsSame DEF StoreRow
  <2> QED
    BY <2>1, <2>2
<1> HIDE DEF new
<1>6. req'[r] = new /\ \A t \in Requests : t # r => req'[t] = req[t]
  BY <1>1, <1>2 DEF Go
<1>7. CASE req[r].op = "upload"
  <2>1. s # "droplinks2" /\ new.op # "save" /\ new.op # "delete"
    BY <1>4, <1>7
  <2> HIDE DEF s
  <2> QED
    BY <1>1, <1>4, <1>5, <1>6, <1>7, <2>1, FileSel
<1>8. CASE req[r].op = "save"
  <2> DEFINE b == req[r].build
  <2>1. /\ Selecting(req[r], job[r], builds, dir)
        /\ \A l \in links : l.build = b => ChoiceOf(l) \in builds[b].sel
        /\ \A c \in builds[b].sel : LinkOf(b, c) \in links \/ Gone(b) \/ Doing(req[r], b, c)
    BY <1>1, <1>8, OfSave DEF SaveSteps
  <2>2. s = "link"
    BY <1>8
  <2>3. \A c : Doing(req[r], b, c) => Doing(new, b, c)
    BY <1>1, <1>4, <2>2 DEF Doing, SaveSteps
  <2>4. /\ req[r].todo \subseteq builds[b].sel
        /\ [id |-> req[r].id, user |-> req[r].user] \in builds[b].sel
        /\ \A c \in builds[b].sel \ req[r].todo : Safe(c, req[r])
    BY <1>1, <2>1 DEF Selecting
  <2>5. "link" \in SaveSteps \ {"clear"}
    BY DEF SaveSteps
  <2> HIDE DEF s
  <2> QED
    BY <1>1, <1>4, <1>5, <1>6, <1>8, <2>1, <2>2, <2>3, <2>4, <2>5, SaveFile
<1>9. req[r].op \in {"upload", "save"}
  BY <1>1, <1>2 DEF Busy, BuildSteps
<1> QED
  BY <1>7, <1>8, <1>9

\* The end of an upload, and the steps of a deletion: it drops the row before the links.
LEMMA DeleteSel ==
  ASSUME RowsInv, PipeInv, SelInv, Orderly, NEW r \in Requests, UNCHANGED pipeVars,
         WriteFile(r) \/ RemoveFile(r) \/ DropRow(r) \/ DropLinks(r)
  PROVE  SelInv'
<1>1. /\ req[r] \in Request /\ Busy(req[r]) /\ req \in [Requests -> Request]
      /\ UNCHANGED <<builds, nextBuild, dir, job>>
  BY OfRequest, Zenon DEF Fits, pipeVars
<1>2. ASSUME Finish(r)
      PROVE  /\ req'[r].op = "none" /\ req'[r].step = "idle" /\ overlapped' = overlapped
             /\ \A s \in Requests : s # r => req'[s] = req[s]
  BY <1>2, FinishIs DEF Ended, Finish, Go
<1>3. ASSUME NEW s \in Steps, Go(r, To(req[r], s))
      PROVE  /\ req'[r].op = req[r].op /\ req'[r].step = s /\ req'[r].id = req[r].id
             /\ overlapped' = overlapped /\ \A t \in Requests : t # r => req'[t] = req[t]
  <2>1. To(req[r], s).op = req[r].op /\ To(req[r], s).step = s /\ To(req[r], s).id = req[r].id
    BY <1>1, ToIs
  <2> QED
    BY <1>1, <1>3, <2>1 DEF Go
<1>4. req[r].op = "delete" => FirstId <= req[r].id
  BY DEF SelInv, Tables
<1>5. CASE WriteFile(r)
  <2>1. req[r].step = "write" /\ Finish(r) /\ UNCHANGED <<rows, nextId, links>>
    BY <1>5, Zenon DEF WriteFile, At
  <2>2. req[r].op = "upload"
    BY <1>1, <2>1 DEF Busy, BuildSteps
  <2> QED
    BY <1>1, <1>2, <2>1, <2>2, RowsSame, FileSel
<1>6. CASE RemoveFile(r)
  <2>1. req[r].step = "remove" /\ Go(r, To(req[r], "droprow")) /\ UNCHANGED <<rows, nextId, links>>
    BY <1>6, Zenon DEF RemoveFile, At, To
  <2>2. req[r].op = "delete" /\ "droprow" \in Steps
    BY <1>1, <2>1 DEF Busy, BuildSteps, Steps
  <2> QED
    BY <1>1, <1>3, <1>4, <2>1, <2>2, RowsSame, FileSel
<1>7. CASE DropRow(r)
  <2>1. /\ req[r].step = "droprow" /\ Go(r, To(req[r], "unlink")) /\ UNCHANGED <<nextId, links>>
        /\ rows' = Restrict(rows, DOMAIN rows \ {req[r].id})
    BY <1>7, Zenon DEF DropRow, At, To
  <2>2. req[r].op = "delete" /\ "unlink" \in Steps
    BY <1>1, <2>1 DEF Busy, BuildSteps, Steps
  <2>3. /\ DOMAIN rows' = DOMAIN rows \ {req[r].id} /\ \A i \in DOMAIN rows' : rows'[i] = rows[i]
    BY <2>1 DEF Restrict
  <2>4. RowsMove(r)
    <3>1. nextId \in Nat /\ nextId' = nextId /\ overlapped' = overlapped
      BY <1>3, <2>1, <2>2 DEF SelInv, Tables
    <3> QED
      BY <2>2, <2>3, <3>1 DEF RowsMove
  <2> QED
    BY <1>1, <1>3, <1>4, <2>1, <2>2, <2>3, <2>4, FileSel
<1>8. CASE DropLinks(r)
  <2>1. /\ req[r].step = "unlink" /\ Finish(r) /\ UNCHANGED <<rows, nextId>>
        /\ links' = {l \in links : l.id # req[r].id}
    BY <1>8, Zenon DEF DropLinks, At
  <2>2. req[r].op = "delete"
    BY <1>1, <2>1 DEF Busy, BuildSteps
  <2> QED
    BY <1>1, <1>2, <2>1, <2>2, RowsSame, FileSel
<1> QED
  BY <1>5, <1>6, <1>7, <1>8

\* The links of the build are dropped: every selected file is still to be linked.
LEMMA ClearLinksSel ==
  ASSUME RowsInv, PipeInv, SelInv, Orderly, NEW r \in Requests, ClearLinks(r), UNCHANGED pipeVars
  PROVE  SelInv'
<1> DEFINE b   == req[r].build
           new == To(req[r], "pick")
<1>1. /\ req[r].step = "clear" /\ Go(r, new) /\ links' = {l \in links : l.build # b}
      /\ UNCHANGED <<rows, nextId, overlapped>> /\ UNCHANGED <<builds, nextBuild, dir, job>>
  BY Zenon DEF ClearLinks, At, Go, To, pipeVars
<1>2. /\ req[r].op = "save" /\ req[r] \in Request /\ req \in [Requests -> Request]
      /\ "pick" \in Steps /\ "clear" \in SaveSteps /\ "pick" \in SaveSteps \ {"clear"}
  BY <1>1, ClearLinksRows, OfRequest DEF Steps, SaveSteps
<1>3. /\ new.op = "save" /\ new.step = "pick" /\ new.claims = req[r].claims
      /\ new.todo = req[r].todo /\ new.build = b
  BY <1>2, ToIs
<1> HIDE DEF new
<1>4. req'[r] = new /\ (\A s \in Requests : s # r => req'[s] = req[s]) /\ RowsMove(r)
  BY <1>1, <1>2, RowsSame DEF Go
<1>5. Selecting(req[r], job[r], builds, dir)
  BY <1>1, <1>2, OfSave
<1>6. new.todo = builds[b].sel
  BY <1>1, <1>3, <1>5 DEF Selecting
<1>7. \A c \in builds[b].sel : Doing(req'[r], b, c)
  BY <1>2, <1>3, <1>4, <1>6 DEF Doing
<1>8. /\ \A l \in links' : l.build # b /\ l \in links
      /\ \A l \in links : l.build # b => l \in links'
  BY <1>1
<1>9. new.step \notin {"find", "store", "link"} /\ new.todo \subseteq builds[b].sel
  BY <1>3, <1>6
<1>10. UNCHANGED <<builds, nextBuild, dir, job>>
  BY <1>1
<1> HIDE DEF b
<1> QED
  <2>1. /\ req'[r].op = "save" /\ req'[r].build = b /\ req'[r].claims = req[r].claims
        /\ req'[r].step \in SaveSteps \ {"clear"} /\ req'[r].todo \subseteq builds[b].sel
        /\ req'[r].step \in {"find", "store", "link"} =>
             [id |-> req'[r].id, user |-> req'[r].user] \in builds[b].sel
        /\ \A c \in builds[b].sel \ req'[r].todo : Safe(c, req[r])
    BY <1>2, <1>3, <1>4, <1>6
  <2> QED
    BY <1>2, <1>4, <1>7, <1>8, <1>10, <2>1, SaveFile DEF b

\* A selected file that is gone ends the save; another one is looked up next.
LEMMA PickUserSel ==
  ASSUME RowsInv, PipeInv, SelInv, Orderly, NEW r \in Requests, PickUser(r), UNCHANGED pipeVars
  PROVE  SelInv'
<1> DEFINE b   == req[r].build
           sel == builds[b].sel
<1>1. PICK c \in req[r].todo :
        /\ c.user
        /\ IF c.id \in DOMAIN rows
           THEN Go(r, TakingOwn(req[r], c, rows[c.id])) ELSE Go(r, Idle)
  BY Zenon DEF PickUser, TakingOwn, Finish
<1>2. /\ req[r].step = "pick" /\ req[r].op = "save" /\ UNCHANGED <<rows, nextId, links, overlapped>>
      /\ UNCHANGED <<builds, nextBuild, dir, job>>
  BY PickUserRows, Zenon DEF pipeVars
<1>3. req[r] \in Request /\ req \in [Requests -> Request] /\ rows \in [DOMAIN rows -> Names]
  BY OfRequest
<1>4. /\ Selecting(req[r], job[r], builds, dir)
      /\ \A l \in links : l.build = b => ChoiceOf(l) \in sel
      /\ \A x \in sel : LinkOf(b, x) \in links \/ Gone(b) \/ Doing(req[r], b, x)
  BY <1>2, OfSave DEF SaveSteps
<1>5. RowsMove(r)
  BY <1>2, RowsSame
<1>6. c \in sel /\ c.user = TRUE /\ c = [id |-> c.id, user |-> TRUE]
  <2>1. c \in sel /\ b \in DOMAIN builds
    BY <1>4 DEF Selecting
  <2>2. c \in Choice
    BY <2>1 DEF SelInv, Tables, Known
  <2>3. c.user = TRUE
    BY <1>1, <2>2 DEF Choice
  <2>4. c = [id |-> c.id, user |-> c.user]
    BY <2>2 DEF Choice
  <2> QED
    BY <2>1, <2>2, <2>3, <2>4
<1>7. CASE c.id \notin DOMAIN rows
  <2>1. req'[r] = Idle /\ \A s \in Requests : s # r => req'[s] = req[s]
    <3>1. Go(r, Idle)
      BY <1>1, <1>7
    <3> QED
      BY <1>3, <3>1 DEF Go
  <2>2. NamesOf(c) = {}
    BY <1>1, <1>7 DEF NamesOf
  <2>3. Gone(b)
    BY <1>6, <2>2 DEF Gone
  <2> QED
    BY <1>2, <1>4, <1>5, <2>1, <2>3, SaveFile
<1>8. CASE c.id \in DOMAIN rows
  <2> DEFINE new == TakingOwn(req[r], c, rows[c.id])
  <2>1. Go(r, new) /\ rows[c.id] \in Names
    BY <1>1, <1>3, <1>8
  <2>2. TookOwn(new, req[r], c, rows[c.id]) /\ GoesOn(new, req[r], "find")
    BY <1>3, <2>1, TakingOwnIs, GoingOn, Zenon
  <2>3. /\ new.step = "find" /\ new.op = "save" /\ new.claims = req[r].claims
        /\ new.id = c.id /\ new.user = TRUE /\ new.todo = req[r].todo \ {c} /\ new.build = b
    <3>1. new.user = TRUE
      BY <1>3 DEF TakingOwn, Request
    <3> HIDE DEF new
    <3> QED
      BY <1>2, <2>2, <3>1 DEF TookOwn, GoesOn
  <2> HIDE DEF new
  <2>4. req'[r] = new /\ \A s \in Requests : s # r => req'[s] = req[s]
    BY <1>3, <2>1 DEF Go
  <2>5. \A x : Doing(req[r], b, x) => Doing(new, b, x)
    <3>1. \A x : /\ x \in req[r].todo => x \in new.todo \/ x = c
                 /\ new.id = c.id /\ new.user = c.user /\ new.build = req[r].build
      BY <1>6, <2>3
    <3> HIDE DEF b
    <3> QED
      BY <1>2, <2>3, <3>1 DEF Doing, SaveSteps
  <2>6. Safe(c, req[r])
    <3>1. rows[c.id] \in req[r].claims
      BY <1>1, <1>8, OfRequest DEF Fits, Wanted
    <3>2. NamesOf(c) = {rows[c.id]}
      BY <1>1, <1>8 DEF NamesOf
    <3> QED
      BY <3>1, <3>2 DEF Safe
  <2>7. /\ new.todo \subseteq sel /\ [id |-> new.id, user |-> new.user] \in sel
        /\ \A x \in sel \ new.todo : Safe(x, req[r])
    BY <1>4, <1>6, <2>3, <2>6 DEF Selecting
  <2>8. "find" \in SaveSteps \ {"clear"}
    BY DEF SaveSteps
  <2> HIDE DEF b
  <2> QED
    BY <1>2, <1>4, <1>5, <2>3, <2>4, <2>5, <2>7, <2>8, SaveFile DEF b
<1> QED
  BY <1>7, <1>8

\* A suggested file is copied to the files of the user.
LEMMA PickSuggestedSel ==
  ASSUME RowsInv, PipeInv, SelInv, Orderly, NEW r \in Requests, PickSuggested(r), UNCHANGED pipeVars
  PROVE  SelInv'
<1> DEFINE b   == req[r].build
           sel == builds[b].sel
<1>1. PICK c \in req[r].todo : ~c.user /\ Go(r, TakingSuggested(req[r], c, Suggested[c.id]))
  BY Zenon DEF PickSuggested, TakingSuggested
<1>2. /\ req[r].step = "pick" /\ req[r].op = "save" /\ UNCHANGED <<rows, nextId, links, overlapped>>
      /\ UNCHANGED <<builds, nextBuild, dir, job>>
  BY PickSuggestedRows, Zenon DEF pipeVars
<1>3. req[r] \in Request /\ req \in [Requests -> Request]
  BY OfRequest
<1>4. /\ Selecting(req[r], job[r], builds, dir)
      /\ \A l \in links : l.build = b => ChoiceOf(l) \in sel
      /\ \A x \in sel : LinkOf(b, x) \in links \/ Gone(b) \/ Doing(req[r], b, x)
  BY <1>2, OfSave DEF SaveSteps
<1>5. RowsMove(r)
  BY <1>2, RowsSame
<1>6. c \in sel /\ c.user = FALSE /\ c = [id |-> c.id, user |-> FALSE]
  <2>1. c \in sel /\ b \in DOMAIN builds
    BY <1>4 DEF Selecting
  <2>2. c \in Choice
    BY <2>1 DEF SelInv, Tables, Known
  <2>3. c.user = FALSE
    BY <1>1, <2>2 DEF Choice
  <2>4. c = [id |-> c.id, user |-> c.user]
    BY <2>2 DEF Choice
  <2> QED
    BY <2>1, <2>2, <2>3, <2>4
<1>7. c.id \in DOMAIN Suggested /\ Suggested[c.id] \in req[r].claims
  BY <1>1, OfRequest DEF Fits, Wanted
<1> DEFINE n   == Suggested[c.id]
           new == TakingSuggested(req[r], c, n)
<1>8. n \in Names
  BY <1>7, StoreAssumption
<1>9. /\ new.step = "link" /\ new.op = "save" /\ new.claims = req[r].claims
      /\ new.id = c.id /\ new.user = FALSE /\ new.todo = req[r].todo \ {c} /\ new.build = b
  <2>1. TookSuggested(new, req[r], c, n) /\ GoesOn(new, req[r], "link")
    BY <1>3, <1>8, TakingSuggestedIs, GoingOn, Zenon
  <2>2. new.user = FALSE
    BY <1>3 DEF TakingSuggested, Request
  <2> HIDE DEF new, n
  <2> QED
    BY <1>2, <2>1, <2>2 DEF TookSuggested, GoesOn
<1>10. req'[r] = new /\ \A s \in Requests : s # r => req'[s] = req[s]
  <2>1. Go(r, new)
    BY <1>1
  <2> HIDE DEF new
  <2> QED
    BY <1>3, <2>1 DEF Go
<1>11. Safe(c, req[r])
  <2>1. NamesOf(c) = {n}
    BY <1>1, <1>7 DEF NamesOf
  <2> QED
    BY <1>7, <2>1 DEF Safe
<1> HIDE DEF new, n
<1>12. \A x : Doing(req[r], b, x) => Doing(new, b, x)
  <2>1. \A x : /\ x \in req[r].todo => x \in new.todo \/ x = c
               /\ new.id = c.id /\ new.user = c.user /\ new.build = req[r].build
    BY <1>6, <1>9
  <2> HIDE DEF b
  <2> QED
    BY <1>2, <1>9, <2>1 DEF Doing, SaveSteps
<1>13. /\ new.todo \subseteq sel /\ [id |-> new.id, user |-> new.user] \in sel
       /\ \A x \in sel \ new.todo : Safe(x, req[r])
  BY <1>4, <1>6, <1>9, <1>11 DEF Selecting
<1>14. "link" \in SaveSteps \ {"clear"}
  BY DEF SaveSteps
<1> HIDE DEF b
<1> QED
  BY <1>2, <1>4, <1>5, <1>9, <1>10, <1>12, <1>13, <1>14, SaveFile DEF b

\* saveBuildFile: the link of the file at hand.
LEMMA AddLinkSel ==
  ASSUME RowsInv, PipeInv, SelInv, Orderly, NEW r \in Requests, AddLink(r), UNCHANGED pipeVars
  PROVE  SelInv'
<1> DEFINE b   == req[r].build
           sel == builds[b].sel
           new == Linked(req[r])
           one == [build |-> b, id |-> req[r].id, user |-> req[r].user]
<1>1. /\ req[r].step = "link" /\ Go(r, new) /\ UNCHANGED <<rows, nextId, overlapped>>
      /\ links' = links \cup {one} /\ UNCHANGED <<builds, nextBuild, dir, job>>
  BY Zenon DEF AddLink, At, Go, Linked, pipeVars
<1>2. req[r] \in Request /\ req \in [Requests -> Request] /\ req[r].op = "save"
  BY AddLinkRows, OfRequest
<1>3. /\ Selecting(req[r], job[r], builds, dir)
      /\ \A l \in links : l.build = b => ChoiceOf(l) \in sel
      /\ \A x \in sel : LinkOf(b, x) \in links \/ Gone(b) \/ Doing(req[r], b, x)
  BY <1>1, <1>2, OfSave DEF SaveSteps
<1>4. /\ new.op = "save" /\ new.step = "pick" /\ new.claims = req[r].claims
      /\ new.todo = req[r].todo /\ new.build = b
  BY <1>2 DEF Linked, Request
<1> HIDE DEF new
<1>5. req'[r] = new /\ (\A s \in Requests : s # r => req'[s] = req[s]) /\ RowsMove(r)
  BY <1>1, <1>2, RowsSame DEF Go
<1>6. one.build = b /\ ChoiceOf(one) \in sel
  BY <1>1, <1>3 DEF Selecting, ChoiceOf
<1>7. \A x : Doing(req[r], b, x) => Doing(new, b, x) \/ LinkOf(b, x) = one
  BY <1>1, <1>4 DEF Doing, LinkOf, SaveSteps
<1>8. /\ new.todo \subseteq sel /\ \A x \in sel \ new.todo : Safe(x, req[r])
  BY <1>1, <1>3, <1>4 DEF Selecting
<1>9. "pick" \in SaveSteps \ {"clear"} /\ "pick" \notin {"find", "store", "link"}
  BY DEF SaveSteps
<1> HIDE DEF b, one
<1>10. \A c \in sel : LinkOf(b, c) \in links' \/ Gone(b) \/ Doing(req'[r], b, c)
  BY <1>1, <1>3, <1>5, <1>7
<1>11. /\ \A l \in links' : l.build # b => l \in links
       /\ \A l \in links : l.build # b => l \in links'
       /\ \A l \in links' : l.build = b => ChoiceOf(l) \in sel
  BY <1>1, <1>3, <1>6
<1>12. UNCHANGED <<builds, nextBuild, dir, job>>
  BY <1>1
<1> QED
  <2>1. /\ req'[r].op = "save" /\ req'[r].build = b /\ req'[r].claims = req[r].claims
        /\ req'[r].step \in SaveSteps \ {"clear"} /\ req'[r].todo \subseteq builds[b].sel
        /\ req'[r].step \in {"find", "store", "link"} =>
             [id |-> req'[r].id, user |-> req'[r].user] \in builds[b].sel
        /\ \A c \in builds[b].sel \ req'[r].todo : Safe(c, req[r])
    BY <1>4, <1>5, <1>8, <1>9
  <2> QED
    BY <1>2, <1>5, <1>10, <1>11, <1>12, <2>1, SaveFile DEF b

-----------------------------------------------------------------------------
(***************************************************************************)
(* The generation                                                          *)
(***************************************************************************)

\* The same rows of builds.
SameBuilds == DOMAIN builds' = DOMAIN builds /\ \A k \in DOMAIN builds : builds'[k] = builds[k]

\* All a step of a generation must show, of the directory and the variables it leaves.
LEMMA BuildSel ==
  ASSUME RowsInv, PipeInv, SelInv, Orderly, NEW r \in Requests, req[r].op = "save",
         NEW b, b = req[r].build, NEW sel, sel = builds[b].sel,
         req[r].step \in BuildSteps \/ Picked(r),
         UNCHANGED <<rows, nextId, links, overlapped>>, UNCHANGED nextBuild, SameBuilds,
         \A k \in Builds : k # b => dir'[k] = dir[k],
         \A s \in Requests : s # r => req'[s] = req[s] /\ job'[s] = job[s],
         \/ req'[r] = Idle
         \/ /\ req'[r].op = "save" /\ req'[r].build = b /\ req'[r].claims = req[r].claims
            /\ req'[r].step \in BuildSteps /\ req'[r].todo = {}
            /\ req'[r].step \in Compiling => job'[r].row = builds[b]
            /\ req'[r].step \in {"list", "copy", "conf", "scons"} => Pure(dir'[b], job'[r], sel)
            /\ req'[r].step = "copy" => Copying(job'[r], dir'[b], sel)
            /\ req'[r].step \in {"conf", "scons"} =>
                 \A c \in sel : Placed(dir'[b], job'[r], c, dir'[b].listed)
  PROVE  SelInv'
<1>1. /\ b \in Builds /\ b < nextBuild /\ b # 0 /\ Busy(req[r])
      /\ \A s \in Requests : s # r /\ req[s].step # "idle" => req[s].build # b
      /\ Selecting(req[r], job[r], builds, dir)
  BY OfSelection
<1>2. /\ b \in DOMAIN builds /\ DOMAIN builds \subseteq Builds /\ nextBuild \in Nat
      /\ req[r].todo = {}
  BY <1>1 DEF Selecting, PipeInv, PipeType, Picked
<1>3. Beside(r, b)
  BY <1>1, <1>2 DEF Beside, SameBuilds
<1>4. LinksMove(r, b) /\ RowsMove(r)
  BY RowsSame DEF LinksMove
<1>5. req[r].step \notin {"unlink", "clear", "droplinks2"} \cup SaveSteps \/ req[r].step = "pick"
  BY DEF BuildSteps, Picked, At, SaveSteps
<1>6. \A c \in sel : Known(c) /\ Known(c)'
  <2>1. \A c \in sel : Known(c)
    BY <1>2 DEF SelInv, Tables
  <2> QED
    BY <1>4, <2>1, NamesStay
<1>7. \A c : NamesOf(c)' = NamesOf(c) /\ Entry(c)' = Entry(c)
  BY DEF NamesOf, Entry
<1>8. \A c \in sel : Kept(b, c)'
  <2>1. ASSUME NEW c \in sel PROVE Kept(b, c)'
    <3>1. LinkOf(b, c) \in links \/ Gone(b) \/ Doing(req[r], b, c)
      BY <1>2, OwnLinks
    <3>2. ~Doing(req[r], b, c)
      BY <1>2, <1>5 DEF Doing, SaveSteps
    <3>3. Gone(b) => Gone(b)'
      BY <1>2, <1>7 DEF Gone, SameBuilds
    <3> QED
      BY <3>1, <3>2, <3>3 DEF Kept
  <2> QED
    BY <2>1
<1>9. \A l \in links' : l.build = b => Owed(l)'
  <2>1. req[r].step \notin {"clear", "droplinks2"}
    BY <1>5
  <2>2. \A l \in links : l.build = b => ChoiceOf(l) \in sel
    BY <2>1, OwnLinks
  <2> QED
    BY <1>1, <1>2, <2>2 DEF Owed, SameBuilds
<1>10. req'[r].op # "delete" /\ req'[r].step # "droplinks2"
  BY DEF Idle, BuildSteps
<1>11. ASSUME req'[r].op = "save" PROVE Selecting(req[r], job[r], builds, dir)'
  <2>1. Idle.op # "save"
    BY DEF Idle
  <2> DEFINE q == req'[r]
  <2>2. /\ q.build = b /\ q.claims = req[r].claims /\ q.step \in BuildSteps /\ q.todo = {}
        /\ q.step \in Compiling => job'[r].row = builds[b]
        /\ q.step \in {"list", "copy", "conf", "scons"} => Pure(dir'[b], job'[r], sel)
        /\ q.step = "copy" => Copying(job'[r], dir'[b], sel)
        /\ q.step \in {"conf", "scons"} =>
             \A c \in sel : Placed(dir'[b], job'[r], c, dir'[b].listed)
    BY <1>11, <2>1
  <2>3. \A c \in sel : Safe(c, req[r])'
    BY <1>1, <1>2, <1>7, <2>2 DEF Selecting, Safe
  <2>4. q.step \notin {"find", "store", "link", "clear"}
    BY <2>2 DEF BuildSteps
  <2>5. b \in DOMAIN builds' /\ builds'[b].sel = sel /\ builds'[b] = builds[b]
    BY <1>2 DEF SameBuilds
  <2>6. /\ \A c : Placed(dir'[b], job'[r], c, dir'[b].listed) <=>
                 Placed(dir[b], job[r], c, dir[b].listed)'
        /\ Copying(job'[r], dir'[b], sel) <=> Copying(job[r], dir[b], sel)'
        /\ Pure(dir'[b], job'[r], sel) <=> Pure(dir[b], job[r], sel)'
    BY <1>7, <2>2 DEF Placed, Copying, Pure, Belongs
  <2>7. q.step \in Compiling => job'[r].row = builds'[b]
    BY <2>2, <2>5
  <2>8. \A c \in sel \ q.todo : Safe(c, req[r])'
    BY <2>3
  <2> QED
    BY <2>2, <2>4, <2>5, <2>6, <2>7, <2>8 DEF Selecting
<1>12. b \in DOMAIN builds' /\ builds'[b].sel = sel
  BY <1>2 DEF SameBuilds
<1> QED
  BY <1>1, <1>2, <1>3, <1>4, <1>5, <1>6, <1>8, <1>9, <1>10, <1>11, <1>12, BesideKeeps

\* What is known of a generation at work.
LEMMA OfBuilding ==
  ASSUME RowsInv, PipeInv, SelInv, NEW r \in Requests, req[r].step \in BuildSteps
  PROVE  /\ req[r].op = "save" /\ req[r].todo = {} /\ req[r].build \in DOMAIN builds
         /\ req[r].build \in Builds /\ DOMAIN dir = Builds /\ DOMAIN job = Requests
         /\ IsDir(dir[req[r].build]) /\ IsJob(job[r])
         /\ req[r].step # "mkdir" => dir[req[r].build].there
         /\ Selecting(req[r], job[r], builds, dir)
         /\ \A c \in builds[req[r].build].sel : Known(c) /\ Safe(c, req[r])
<1>1. /\ req[r].op = "save" /\ req[r].build \in DOMAIN builds /\ req[r].build \in Builds
      /\ IsDir(dir[req[r].build]) /\ IsJob(job[r])
      /\ req[r].step # "mkdir" => dir[req[r].build].there
  BY OfGeneration DEF Generating
<1>2. Selecting(req[r], job[r], builds, dir)
  BY <1>1, OfSelection
<1>3. req[r].todo = {}
  BY <1>2 DEF Selecting
<1>4. DOMAIN dir = Builds /\ DOMAIN job = Requests
  BY DEF PipeInv, PipeType
<1>5. \A c \in builds[req[r].build].sel : Known(c) /\ Safe(c, req[r])
  BY <1>1, <1>2, <1>3 DEF Selecting, SelInv, Tables
<1> QED
  BY <1>1, <1>2, <1>3, <1>4, <1>5

\* A request that goes on with its generation.
BuildsOn(r, s) ==
  /\ req'[r].op = req[r].op /\ req'[r].build = req[r].build /\ req'[r].claims = req[r].claims
  /\ req'[r].step = s /\ req'[r].todo = req[r].todo /\ overlapped' = overlapped
  /\ \A t \in Requests : t # r => req'[t] = req[t]

\* Step leaves everything else in the record.
LEMMA StepOn ==
  ASSUME RowsInv, NEW r \in Requests, NEW s \in BuildSteps, Step(r, s)
  PROVE  BuildsOn(r, s)
<1>1. Go(r, To(req[r], s)) /\ s \in Steps /\ req[r] \in Request /\ req \in [Requests -> Request]
  BY OfRequest, Zenon DEF Step, To, Steps
<1>2. /\ To(req[r], s).step = s /\ To(req[r], s).op = req[r].op
      /\ To(req[r], s).claims = req[r].claims /\ To(req[r], s).build = req[r].build
      /\ To(req[r], s).todo = req[r].todo
  BY <1>1, ToIs
<1> QED
  BY <1>1, <1>2 DEF BuildsOn, Go

\* The steps that change neither the rows nor what is to be copied.
LEMMA QuietBuildSel ==
  ASSUME RowsInv, PipeInv, SelInv, Orderly, NEW r \in Requests, req[r].step \in BuildSteps,
         UNCHANGED fileVars, UNCHANGED <<builds, nextBuild>>,
         \A k \in Builds : k # req[r].build => dir'[k] = dir[k],
         \A s \in Requests : s # r => job'[s] = job[s],
         \/ Finish(r)
         \/ \E s \in {"check", "pack", "back"} : Step(r, s)
         \/ /\ \E s \in {"base", "clearrom"} : Step(r, s)
            /\ req[r].step \in Compiling /\ UNCHANGED job
  PROVE  SelInv'
<1> DEFINE b   == req[r].build
           sel == builds[b].sel
<1>1. /\ req[r].op = "save" /\ req[r].todo = {} /\ Selecting(req[r], job[r], builds, dir)
  BY OfBuilding
<1>2. UNCHANGED <<rows, nextId, links>>
  BY Zenon DEF fileVars
<1>3. SameBuilds
  BY DEF SameBuilds
<1>4. CASE Finish(r)
  <2>1. req'[r] = Idle /\ overlapped' = overlapped /\ \A s \in Requests : s # r => req'[s] = req[s]
    BY <1>4, OfRequest DEF Finish, Go
  <2> QED
    BY <1>1, <1>2, <1>3, <2>1, BuildSel
<1>5. CASE \E s \in {"check", "pack", "back"} : Step(r, s)
  <2>1. PICK s \in {"check", "pack", "back"} : Step(r, s)
    BY <1>5
  <2>2. s \in BuildSteps /\ s \notin Compiling
    BY DEF BuildSteps, Compiling
  <2>3. BuildsOn(r, s)
    BY <2>1, <2>2, StepOn
  <2> HIDE DEF b
  <2> QED
    BY <1>1, <1>2, <1>3, <2>2, <2>3, BuildSel DEF BuildsOn, b, Compiling
<1>6. CASE /\ \E s \in {"base", "clearrom"} : Step(r, s)
           /\ req[r].step \in Compiling /\ UNCHANGED job
  <2>1. PICK s \in {"base", "clearrom"} : Step(r, s)
    BY <1>6
  <2>2. s \in BuildSteps /\ s \notin {"list", "copy", "conf", "scons"}
    BY DEF BuildSteps
  <2>3. BuildsOn(r, s)
    BY <2>1, <2>2, StepOn
  <2>4. job'[r].row = builds[b]
    BY <1>1, <1>6 DEF Selecting
  <2> HIDE DEF b
  <2> QED
    BY <1>1, <1>2, <1>3, <1>6, <2>2, <2>3, <2>4, BuildSel DEF BuildsOn, b
<1> QED
  BY <1>4, <1>5, <1>6

\* checkDir, the copy of the tree, the compiler and what follows it.
LEMMA QuietStepsSel ==
  ASSUME RowsInv, PipeInv, SelInv, Orderly, NEW r \in Requests,
         MakeDir(r) \/ CopyBase(r) \/ Scons(r) \/ CheckBin(r) \/ Pack(r) \/ MoveBack(r)
  PROVE  SelInv'
<1> DEFINE b == req[r].build
<1>1. req[r].step \in {"mkdir", "base", "scons", "check", "pack", "back"}
  BY Zenon DEF MakeDir, CopyBase, Scons, CheckBin, Pack, MoveBack, At
<1>2. req[r].step \in BuildSteps /\ DOMAIN dir = Builds /\ DOMAIN job = Requests
  <2>1. req[r].step \in BuildSteps
    BY <1>1 DEF BuildSteps
  <2> QED
    BY <2>1, OfBuilding
<1>3. UNCHANGED fileVars /\ UNCHANGED <<builds, nextBuild>>
  BY Zenon DEF MakeDir, CopyBase, Scons, CheckBin, Pack, MoveBack
<1>4. CASE MakeDir(r)
  <2>1. /\ req[r].step = "mkdir" /\ Step(r, "base") /\ UNCHANGED job
        /\ dir' = dir \/ dir' = [dir EXCEPT ![b] = EmptyDir]
    BY <1>4, Zenon DEF MakeDir, At
  <2> HIDE DEF EmptyDir
  <2>2. \A k \in Builds : k # b => dir'[k] = dir[k]
    BY <1>2, <2>1
  <2>3. req[r].step \in Compiling
    BY <2>1 DEF Compiling
  <2> QED
    BY <1>2, <1>3, <2>1, <2>2, <2>3, QuietBuildSel
<1>5. CASE CopyBase(r)
  <2>1. /\ req[r].step = "base" /\ Step(r, "clearrom") /\ UNCHANGED job
        /\ dir' = dir \/ dir' = [dir EXCEPT ![b].listed = {},
                                            ![b].romfs = [n \in Names |-> IF n \in RangeOf(Suggested)
                                        THEN [NoFile EXCEPT !.whole = TRUE] ELSE @[n]]]
    BY <1>5, Zenon DEF CopyBase, At
  <2>2. \A k \in Builds : k # b => dir'[k] = dir[k]
    BY <1>2, <2>1
  <2>3. req[r].step \in Compiling
    BY <2>1 DEF Compiling
  <2> QED
    BY <1>2, <1>3, <2>1, <2>2, <2>3, QuietBuildSel
<1>6. CASE Scons(r)
  <2>1. /\ Step(r, "check") /\ UNCHANGED job
        /\ \/ dir' = [dir EXCEPT ![b].bins[job[r].row.target] = job[r].no, ![b].log = job[r].no]
           \/ dir' = [dir EXCEPT ![b].log = job[r].no]
           \/ dir' = dir
    BY <1>6, Zenon DEF Scons
  <2>2. \A k \in Builds : k # b => dir'[k] = dir[k]
    BY <1>2, <2>1
  <2> QED
    BY <1>2, <1>3, <2>1, <2>2, QuietBuildSel
<1>7. CASE CheckBin(r)
  <2>1. UNCHANGED dir /\ (Finish(r) \/ Step(r, "pack"))
    BY <1>7, Zenon DEF CheckBin, Fail
  <2>2. \/ job' = [job EXCEPT ![r] = NoJob]
        \/ \E t : job' = [job EXCEPT ![r].found = "bin", ![r].bin = t]
        \/ job' = [job EXCEPT ![r].found = "log"]
    BY <1>7, Zenon DEF CheckBin, Fail
  <2> HIDE DEF NoJob
  <2>3. \A s \in Requests : s # r => job'[s] = job[s]
    BY <1>2, <2>2
  <2> QED
    BY <1>2, <1>3, <2>1, <2>3, QuietBuildSel
<1>8. CASE Pack(r)
  <2>1. /\ Step(r, "back") /\ UNCHANGED job
        /\ dir' = dir \/ dir' = [dir EXCEPT ![b] = EmptyDir]
    BY <1>8, Zenon DEF Pack
  <2> HIDE DEF EmptyDir
  <2>2. \A k \in Builds : k # b => dir'[k] = dir[k]
    BY <1>2, <2>1
  <2> QED
    BY <1>2, <1>3, <2>1, <2>2, QuietBuildSel
<1>9. CASE MoveBack(r)
  <2>1. /\ Finish(r)
        /\ \/ dir' = dir
           \/ dir' = [dir EXCEPT ![b].bins[job[r].bin] = Copied(parent.bins[job[r].bin], @)]
           \/ dir' = [dir EXCEPT ![b].log = Copied(parent.log, @)]
        /\ \E j : job' = [job EXCEPT ![r] = j]
    BY <1>9, Zenon DEF MoveBack
  <2>2. \A k \in Builds : k # b => dir'[k] = dir[k]
    BY <1>2, <2>1
  <2>3. \A s \in Requests : s # r => job'[s] = job[s]
    BY <1>2, <2>1
  <2> QED
    BY <1>2, <1>3, <2>1, <2>2, <2>3, QuietBuildSel
<1> QED
  BY <1>4, <1>5, <1>6, <1>7, <1>8, <1>9

\* getBuild: the row is there, and what it selects is linked.
LEMMA FetchSel ==
  ASSUME RowsInv, PipeInv, SelInv, Orderly, NEW r \in Requests, Fetch(r)
  PROVE  SelInv'
<1> DEFINE b == req[r].build
<1>1. Picked(r) /\ UNCHANGED fileVars /\ UNCHANGED <<builds, nextBuild, dir>>
  BY Zenon DEF Fetch
<1>2. req[r].step = "pick" /\ req[r].todo = {} /\ Busy(req[r]) /\ IsJob(job[r])
  BY <1>1, OfPhase DEF Picked, At
<1>3. req[r].op = "save"
  BY <1>2 DEF Busy, BuildSteps
<1>4. b \in DOMAIN builds /\ DOMAIN job = Requests
  BY <1>3, OfSelection DEF Selecting, PipeInv, PipeType
<1>5. Step(r, "mkdir") /\ job' = [job EXCEPT ![r].row = builds[b], ![r].no = nextGen]
  BY <1>4, Zenon DEF Fetch
<1>6. BuildsOn(r, "mkdir") /\ "mkdir" \in BuildSteps
  BY <1>5, StepOn DEF BuildSteps
<1>7. (\A s \in Requests : s # r => job'[s] = job[s]) /\ job'[r].row = builds[b]
  BY <1>2, <1>4, <1>5 DEF IsJob, JobFields
<1>8. UNCHANGED <<rows, nextId, links>> /\ SameBuilds
  BY <1>1, Zenon DEF fileVars, SameBuilds
<1> HIDE DEF b
<1> QED
  BY <1>1, <1>2, <1>3, <1>6, <1>7, <1>8, BuildSel DEF BuildsOn, b

\* rm romfs/*: what came with the tree goes before the selection is copied.
LEMMA ClearRomfsSel ==
  ASSUME RowsInv, PipeInv, SelInv, Orderly, NEW r \in Requests, ClearRomfs(r)
  PROVE  SelInv'
<1> DEFINE b == req[r].build
<1>1. /\ req[r].step = "clearrom" /\ Step(r, "list") /\ UNCHANGED fileVars
      /\ UNCHANGED <<builds, nextBuild, job>> /\ dir' = [dir EXCEPT ![b].romfs = NoRomfs]
  BY Zenon DEF ClearRomfs, At
<1>2. /\ req[r].step \in BuildSteps /\ req[r].step \in Compiling
      /\ "list" \in BuildSteps
  BY <1>1 DEF BuildSteps, Compiling
<1>3. /\ req[r].op = "save" /\ req[r].todo = {} /\ Selecting(req[r], job[r], builds, dir)
      /\ b \in Builds /\ DOMAIN dir = Builds /\ IsDir(dir[b])
  BY <1>2, OfBuilding
<1>4. BuildsOn(r, "list")
  BY <1>1, <1>2, StepOn
<1>5. \A k \in Builds : k # b => dir'[k] = dir[k]
  BY <1>1, <1>3
<1>6. Pure(dir'[b], job'[r], builds[b].sel)
  <2>1. dir'[b].romfs = NoRomfs
    BY <1>1, <1>3 DEF IsDir, DirFields
  <2> QED
    BY <2>1 DEF Pure, NoRomfs
<1>7. job'[r].row = builds[b]
  BY <1>1, <1>2, <1>3 DEF Selecting
<1>8. UNCHANGED <<rows, nextId, links>> /\ SameBuilds
  BY <1>1, Zenon DEF fileVars, SameBuilds
<1> HIDE DEF b
<1> QED
  BY <1>1, <1>2, <1>3, <1>4, <1>5, <1>6, <1>7, <1>8, BuildSel DEF BuildsOn, b

\* getFilesByBuild: the links are the selected files, each with the name it has now.
LEMMA ListFilesSel ==
  ASSUME RowsInv, PipeInv, SelInv, Orderly, NEW r \in Requests, ListFiles(r)
  PROVE  SelInv'
<1> DEFINE b   == req[r].build
           sel == builds[b].sel
           list == {[id |-> l.id, user |-> l.user, names |-> NamesOf(l)]
                      : l \in {k \in links : k.build = req[r].build}}
<1>1. /\ req[r].step = "list" /\ Step(r, "copy") /\ UNCHANGED fileVars
      /\ UNCHANGED <<builds, nextBuild, dir>>
      /\ job' = [job EXCEPT ![r].list = list, ![r].listed = {}]
  BY DEF ListFiles, At
<1>2. /\ req[r].step \in BuildSteps /\ req[r].step \in Compiling
      /\ "copy" \in BuildSteps
  BY <1>1 DEF BuildSteps, Compiling
<1>3. /\ req[r].op = "save" /\ req[r].todo = {} /\ Selecting(req[r], job[r], builds, dir)
      /\ b \in DOMAIN builds /\ DOMAIN job = Requests /\ IsJob(job[r])
      /\ \A c \in sel : Known(c) /\ Safe(c, req[r])
  BY <1>2, OfBuilding
<1>4. BuildsOn(r, "copy")
  BY <1>1, <1>2, StepOn
<1>5. /\ \A l \in links : l.build = b => ChoiceOf(l) \in sel
      /\ \A c \in sel : LinkOf(b, c) \in links
  <2>1. /\ \A l \in links : l.build = b => ChoiceOf(l) \in sel
        /\ \A c \in sel : LinkOf(b, c) \in links \/ Gone(b) \/ Doing(req[r], b, c)
    BY <1>1, <1>3, OwnLinks
  <2>2. ~Gone(b)
    BY <1>3 DEF Gone, Safe
  <2>3. \A c : ~Doing(req[r], b, c)
    BY <1>1, <1>3 DEF Doing, SaveSteps
  <2> QED
    BY <2>1, <2>2, <2>3
<1>6. \A l \in links : [id |-> l.id, user |-> l.user, names |-> NamesOf(l)] = Entry(ChoiceOf(l))
  BY DEF Entry, ChoiceOf, NamesOf
<1>7. \A c \in sel : ChoiceOf(LinkOf(b, c)) = c /\ LinkOf(b, c).build = b
  <2>1. ASSUME NEW c \in sel PROVE ChoiceOf(LinkOf(b, c)) = c /\ LinkOf(b, c).build = b
    <3>1. c = [id |-> c.id, user |-> c.user]
      BY <1>3 DEF Known, Choice
    <3>2. ChoiceOf(LinkOf(b, c)) = [id |-> c.id, user |-> c.user] /\ LinkOf(b, c).build = b
      BY DEF ChoiceOf, LinkOf
    <3> QED
      BY <3>1, <3>2
  <2> QED
    BY <2>1
<1>8. /\ \A e \in list : \E c \in sel : e = Entry(c)
      /\ \A c \in sel : Entry(c) \in list
  <2>1. \A e \in list : \E c \in sel : e = Entry(c)
    BY <1>5, <1>6
  <2>2. ASSUME NEW c \in sel PROVE Entry(c) \in list
    <3> DEFINE l == LinkOf(b, c)
    <3>1. l \in links /\ l.build = b
      BY <1>5, <1>7
    <3>2. Entry(c) = [id |-> l.id, user |-> l.user, names |-> NamesOf(l)]
      BY <1>6, <1>7, <3>1
    <3> HIDE DEF l
    <3> QED
      BY <3>1, <3>2
  <2> QED
    BY <2>1, <2>2
<1> HIDE DEF list
<1>9. /\ \A s \in Requests : s # r => job'[s] = job[s]
      /\ job'[r].list = list /\ job'[r].row = job[r].row
  BY <1>1, <1>3 DEF IsJob, JobFields
<1>10. Copying(job'[r], dir'[b], sel)
  BY <1>8, <1>9 DEF Copying
<1>11. job'[r].row = builds[b] /\ Pure(dir'[b], job'[r], sel)
  BY <1>1, <1>2, <1>3, <1>9 DEF Selecting, Pure, Belongs
<1>12. UNCHANGED <<rows, nextId, links>> /\ SameBuilds
  BY <1>1, Zenon DEF fileVars, SameBuilds
<1> HIDE DEF b
<1> QED
  BY <1>1, <1>2, <1>3, <1>4, <1>9, <1>10, <1>11, <1>12, BuildSel DEF BuildsOn, b

\* A name that only a save works on has its file, whole, when it has a row.
LEMMA SourceWhole ==
  ASSUME FilesInv, SelInv, NEW r \in Requests, req[r].op = "save", NEW c, Known(c), c.user,
         Safe(c, req[r]), NEW n \in NamesOf(c)
  PROVE  n \in Names /\ disk[n] # 0 /\ data[disk[n]] # {}
<1>1. RowsInv
  BY DEF FilesInv
<1>2. c.id \in DOMAIN rows /\ n = rows[c.id] /\ n \in Names /\ n \in req[r].claims
  BY <1>1, OfRequest DEF NamesOf, Safe
<1>3. n \notin overlapped
  BY DEF SelInv, Tables
<1>4. AtRest(n)
  <2>1. ASSUME NEW s \in Requests, n \in req[s].claims PROVE s = r
    BY <1>1, <1>2, <1>3, <2>1 DEF RowsInv, Apart
  <2> QED
    BY <2>1 DEF AtRest
<1>5. Match(n, rows, disk, data)
  BY <1>2, <1>3, <1>4 DEF FilesInv, Files
<1>6. Named(rows, n) # {}
  BY <1>2 DEF Named
<1> QED
  BY <1>2, <1>5, <1>6 DEF Match

\* A selected file stands for one name at most.
LEMMA AtMostOneName == \A c, m, n : m \in NamesOf(c) /\ n \in NamesOf(c) => m = n
BY DEF NamesOf

\* A round of copy_romfs: the file is there and goes where the image wants it.
LEMMA CopyFileSel ==
  ASSUME FilesInv, PipeInv, SelInv, Orderly, NEW r \in Requests, CopyFile(r)
  PROVE  SelInv'
<1> DEFINE b   == req[r].build
           sel == builds[b].sel
           j   == job[r]
<1>1. req[r].step = "copy" /\ UNCHANGED fileVars /\ UNCHANGED <<builds, nextBuild>>
  BY Zenon DEF CopyFile, At
<1>2. /\ req[r].step \in BuildSteps /\ req[r].step \in Compiling /\ RowsInv
      /\ "copy" \in BuildSteps
  BY <1>1 DEF BuildSteps, Compiling, FilesInv
<1>3. /\ req[r].op = "save" /\ req[r].todo = {} /\ Selecting(req[r], j, builds, dir)
      /\ b \in Builds /\ DOMAIN dir = Builds /\ DOMAIN job = Requests
      /\ IsDir(dir[b]) /\ IsJob(j) /\ dir[b].there
      /\ \A c \in sel : Known(c) /\ Safe(c, req[r])
  BY <1>1, <1>2, OfBuilding
<1>4. /\ \A e \in j.list : \E c \in sel : e = Entry(c)
      /\ \A c \in sel : Entry(c) \in j.list \/ Placed(dir[b], j, c, j.listed)
      /\ Pure(dir[b], j, sel) /\ j.row = builds[b]
  BY <1>1, <1>2, <1>3 DEF Selecting, Copying
<1>5. PICK e \in j.list :
        IF e.names = {}
        THEN Fail(r) /\ UNCHANGED dir
        ELSE LET n    == CHOOSE x \in e.names : TRUE
                 dest == RomName(r, e, n) IN
             /\ dir' = IF OwnDir(r).there /\ (e.user => disk[n] # 0)
                       THEN [dir EXCEPT ![b].romfs[dest] = Source(e, n)]
                       ELSE dir
             /\ job' = [job EXCEPT ![r].list = @ \ {e}, ![r].listed = @ \cup ({dest} \ {Autorun})]
             /\ UNCHANGED <<req, overlapped>>
  BY Zenon DEF CopyFile
<1>6. PICK c \in sel : e = Entry(c)
  BY <1>4, <1>5
<1>7. e.id = c.id /\ e.user = c.user /\ e.names = NamesOf(c)
  BY <1>6 DEF Entry
<1>8. PICK n \in NamesOf(c) : n = CHOOSE x \in e.names : TRUE
  BY <1>3, <1>7 DEF Safe
<1> DEFINE dest == IF c.id = j.row.autorun.id THEN Autorun ELSE n
           src  == Source(e, n)
<1>9. RomName(r, e, n) = dest /\ OwnDir(r).there /\ e.names # {}
  BY <1>3, <1>7, <1>8 DEF RomName, OwnDir
<1>10. c.user => disk[n] # 0 /\ data[disk[n]] # {}
  BY <1>3, SourceWhole
<1>11. n \in Names /\ dest \in Names
  <2>1. n \in req[r].claims
    BY <1>3 DEF Safe
  <2>2. n \in Names
    BY <1>2, <2>1, OfRequest DEF Request
  <2> QED
    BY <2>2, PipelineAssumption
<1>12. /\ dir' = [dir EXCEPT ![b].romfs[dest] = src]
       /\ job' = [job EXCEPT ![r].list = @ \ {e}, ![r].listed = @ \cup ({dest} \ {Autorun})]
       /\ UNCHANGED <<req, overlapped>>
  BY <1>5, <1>7, <1>8, <1>9, <1>10, Zenon
<1>13. src.whole /\ ChoiceOf(src) = c /\ src # NoFile
  <2>1. c = [id |-> c.id, user |-> c.user]
    BY <1>3 DEF Known, Choice
  <2>2. src.whole /\ src.id = c.id /\ src.user = c.user
    BY <1>7, <1>10 DEF Source
  <2>3. src # NoFile
    BY <2>2 DEF NoFile
  <2> QED
    BY <2>1, <2>2, <2>3 DEF ChoiceOf
<1> HIDE DEF dest, src
<1>14. /\ \A k \in Builds : k # b => dir'[k] = dir[k]
       /\ \A s \in Requests : s # r => job'[s] = job[s]
       /\ job'[r].list = j.list \ {e} /\ job'[r].row = j.row
       /\ job'[r].listed = j.listed \cup ({dest} \ {Autorun})
  BY <1>3, <1>12 DEF IsJob, JobFields
<1>15. dir'[b].romfs = [dir[b].romfs EXCEPT ![dest] = src]
  BY <1>3, <1>12 DEF IsDir, DirFields
<1>16. Pure(dir'[b], job'[r], sel)
  <2>1. Belongs(job'[r], c, dest)
    BY <1>14 DEF Belongs, dest
  <2>2. \A d, x : Belongs(j, d, x) => Belongs(job'[r], d, x)
    BY <1>14 DEF Belongs
  <2> QED
    BY <1>4, <1>11, <1>13, <1>15, <2>1, <2>2 DEF Pure
<1>17. \A x \in Names : dir[b].romfs[x] # NoFile \/ x = dest => dir'[b].romfs[x] # NoFile
  BY <1>4, <1>11, <1>13, <1>15 DEF Pure
<1>18. Copying(job'[r], dir'[b], sel)
  <2>1. \A x \in job'[r].list : \E d \in sel : x = Entry(d)
    BY <1>4, <1>14
  <2>2. ASSUME NEW d \in sel
        PROVE  Entry(d) \in job'[r].list \/ Placed(dir'[b], job'[r], d, job'[r].listed)
    <3>1. CASE Entry(d) = e
      <4>1. d.id = c.id /\ NamesOf(d) = NamesOf(c)
        BY <1>7, <3>1 DEF Entry
      <4>2. \A m \in NamesOf(d) : m = n
        BY <4>1, AtMostOneName
      <4>3. dir'[b].romfs[dest] # NoFile /\ dest \in job'[r].listed \cup {Autorun}
        BY <1>11, <1>14, <1>17
      <4> QED
        BY <1>14, <4>1, <4>2, <4>3 DEF Placed, dest
    <3>2. CASE Entry(d) # e /\ Entry(d) \in j.list
      BY <1>14, <3>2
    <3>3. CASE Placed(dir[b], j, d, j.listed)
      <4>1. ASSUME NEW m \in NamesOf(d)
            PROVE  LET to == IF d.id = job'[r].row.autorun.id THEN Autorun ELSE m IN
                   dir'[b].romfs[to] # NoFile /\ to \in job'[r].listed \cup {Autorun}
        <5> DEFINE to == IF d.id = j.row.autorun.id THEN Autorun ELSE m
        <5>1. dir[b].romfs[to] # NoFile /\ to \in j.listed \cup {Autorun}
          BY <3>3 DEF Placed
        <5>2. to \in Names
          <6>1. m \in req[r].claims
            BY <1>3 DEF Safe
          <6> QED
            BY <1>2, <6>1, OfRequest, PipelineAssumption DEF Request
        <5>3. dir'[b].romfs[to] # NoFile /\ to \in job'[r].listed \cup {Autorun}
          <6> HIDE DEF to
          <6> QED
            BY <1>14, <1>17, <5>1, <5>2
        <5> QED
          BY <1>14, <5>3
      <4> QED
        BY <4>1 DEF Placed
    <3> QED
      BY <1>4, <3>1, <3>2, <3>3
  <2> QED
    BY <2>1, <2>2 DEF Copying
<1>19. UNCHANGED <<rows, nextId, links>> /\ SameBuilds
  BY <1>1, Zenon DEF fileVars, SameBuilds
<1>20. BuildsOn(r, "copy")
  BY <1>1, <1>12 DEF BuildsOn
<1>21. job'[r].row = builds[b]
  BY <1>4, <1>14
<1> HIDE DEF b, j
<1> QED
  BY <1>1, <1>2, <1>3, <1>14, <1>16, <1>18, <1>19, <1>20, <1>21, BuildSel DEF BuildsOn, b

\* The templates: every file copied is listed, and everything has been copied.
LEMMA WriteConfSel ==
  ASSUME RowsInv, PipeInv, SelInv, Orderly, NEW r \in Requests, WriteConf(r)
  PROVE  SelInv'
<1> DEFINE b   == req[r].build
           sel == builds[b].sel
<1>1. /\ req[r].step = "copy" /\ job[r].list = {} /\ Step(r, "conf") /\ UNCHANGED fileVars
      /\ UNCHANGED <<builds, nextBuild, job>>
  BY Zenon DEF WriteConf, At
<1>2. /\ req[r].step \in BuildSteps /\ req[r].step \in Compiling
      /\ "conf" \in BuildSteps
  BY <1>1 DEF BuildSteps, Compiling
<1>3. /\ req[r].op = "save" /\ req[r].todo = {} /\ Selecting(req[r], job[r], builds, dir)
      /\ b \in Builds /\ DOMAIN dir = Builds /\ IsDir(dir[b]) /\ dir[b].there
  BY <1>1, <1>2, OfBuilding
<1>4. /\ job[r].row = builds[b] /\ Pure(dir[b], job[r], sel)
      /\ \A c \in sel : Placed(dir[b], job[r], c, job[r].listed)
  BY <1>1, <1>2, <1>3 DEF Selecting, Copying
<1>5. dir' = [dir EXCEPT ![b].listed = job[r].listed]
  BY <1>3, Zenon DEF WriteConf, OwnDir
<1>6. \A k \in Builds : k # b => dir'[k] = dir[k]
  BY <1>3, <1>5
<1>7. dir'[b].romfs = dir[b].romfs /\ dir'[b].listed = job[r].listed
  BY <1>3, <1>5 DEF IsDir, DirFields
<1>8. /\ Pure(dir'[b], job'[r], sel) /\ job'[r].row = builds[b]
      /\ \A c \in sel : Placed(dir'[b], job'[r], c, dir'[b].listed)
  BY <1>1, <1>4, <1>7 DEF Pure, Placed
<1>9. BuildsOn(r, "conf")
  BY <1>1, <1>2, StepOn
<1>10. UNCHANGED <<rows, nextId, links>> /\ SameBuilds
  BY <1>1, Zenon DEF fileVars, SameBuilds
<1> HIDE DEF b
<1> QED
  BY <1>1, <1>2, <1>3, <1>6, <1>8, <1>9, <1>10, BuildSel DEF BuildsOn, b

\* update(): the row written back is the row.
LEMMA StoreConfigsSel ==
  ASSUME RowsInv, PipeInv, SelInv, Orderly, NEW r \in Requests, StoreConfigs(r)
  PROVE  SelInv'
<1> DEFINE b   == req[r].build
           sel == builds[b].sel
<1>1. /\ req[r].step = "conf" /\ Step(r, "scons") /\ UNCHANGED fileVars
      /\ UNCHANGED <<nextBuild, dir, job>>
  BY Zenon DEF StoreConfigs, At
<1>2. /\ req[r].step \in BuildSteps /\ req[r].step \in Compiling
      /\ "scons" \in BuildSteps
  BY <1>1 DEF BuildSteps, Compiling
<1>3. /\ req[r].op = "save" /\ req[r].todo = {} /\ Selecting(req[r], job[r], builds, dir)
      /\ b \in DOMAIN builds
  BY <1>2, OfBuilding
<1>4. /\ job[r].row = builds[b] /\ Pure(dir[b], job[r], sel)
      /\ \A c \in sel : Placed(dir[b], job[r], c, dir[b].listed)
  BY <1>1, <1>2, <1>3 DEF Selecting
<1>5. builds' = [builds EXCEPT ![b] = job[r].row]
  BY <1>3, Zenon DEF StoreConfigs
<1>6. SameBuilds
  BY <1>3, <1>4, <1>5 DEF SameBuilds
<1>7. BuildsOn(r, "scons")
  BY <1>1, <1>2, StepOn
<1>8. UNCHANGED <<rows, nextId, links>>
  BY <1>1, Zenon DEF fileVars
<1>9. /\ Pure(dir'[b], job'[r], sel) /\ job'[r].row = builds[b]
      /\ \A c \in sel : Placed(dir'[b], job'[r], c, dir'[b].listed)
  BY <1>1, <1>4
<1> HIDE DEF b
<1> QED
  BY <1>1, <1>2, <1>3, <1>6, <1>7, <1>8, <1>9, BuildSel DEF BuildsOn, b

-----------------------------------------------------------------------------
(***************************************************************************)
(* Deleting a build                                                        *)
(***************************************************************************)

\* All a step of a deletion must show.
LEMMA DropSel ==
  ASSUME RowsInv, PipeInv, SelInv, Orderly, NEW r \in Requests, req[r].op = "deletebuild",
         NEW b, b = req[r].build,
         UNCHANGED <<rows, nextId, overlapped>>, UNCHANGED <<nextBuild, job>>,
         \A k \in Builds : k # b => dir'[k] = dir[k],
         \A s \in Requests : s # r => req'[s] = req[s],
         DOMAIN builds' \subseteq DOMAIN builds, DOMAIN builds \ {b} \subseteq DOMAIN builds',
         \A k \in DOMAIN builds' : builds'[k] = builds[k],
         \A l \in links : l.build # b => l \in links', links' \subseteq links,
         b \in DOMAIN builds' => links' = links,
         dir'[b].there => b \in DOMAIN builds',
         req'[r].op \notin {"save", "delete"},
         req'[r].step = "droplinks2" => req'[r].build \notin DOMAIN builds',
         \A l \in links' : l.build = b => Owed(l)'
  PROVE  SelInv'
<1>1. /\ b \in Builds /\ b # 0 /\ Busy(req[r])
      /\ \A s \in Requests : s # r /\ req[s].step # "idle" => req[s].build # b
  BY OfSelection
<1>2. DOMAIN builds \subseteq Builds /\ nextBuild \in Nat
  BY DEF PipeInv, PipeType
<1>3. Beside(r, b)
  BY <1>1, <1>2 DEF Beside
<1>4. LinksMove(r, b) /\ RowsMove(r)
  BY RowsSame DEF LinksMove
<1>5. req[r].step # "unlink"
  BY <1>1 DEF Busy, BuildSteps
<1>6. ASSUME b \in DOMAIN builds', NEW c \in builds'[b].sel PROVE Known(c)' /\ Kept(b, c)'
  <2>1. c \in builds[b].sel /\ b \in DOMAIN builds /\ links' = links
    BY <1>6
  <2>2. Known(c)
    BY <2>1 DEF SelInv, Tables
  <2>3. Known(c)'
    BY <1>4, <2>2, NamesStay
  <2>4. LinkOf(b, c) \in links \/ Gone(b)
    BY <2>1, OwnLinks DEF Doing
  <2>5. Gone(b) => Gone(b)'
    BY <1>6 DEF Gone, NamesOf
  <2> QED
    BY <2>1, <2>3, <2>4, <2>5 DEF Kept
<1> QED
  BY <1>1, <1>3, <1>4, <1>5, <1>6, BesideKeeps

\* rm -r, then the row, then the links.
LEMMA DroppingSel ==
  ASSUME RowsInv, PipeInv, SelInv, Orderly, NEW r \in Requests,
         RemoveTree(r) \/ DropBuildRow(r) \/ DropBuildLinks(r)
  PROVE  SelInv'
<1> DEFINE b == req[r].build
<1>1. req[r].step \in BuildEnds
  BY Zenon DEF RemoveTree, DropBuildRow, DropBuildLinks, At, BuildEnds
<1>2. /\ req[r].op = "deletebuild" /\ b \in Builds /\ b < nextBuild
      /\ DOMAIN dir = Builds /\ req \in [Requests -> Request]
  <2>1. req[r].op = "deletebuild"
    BY <1>1, OfDropping
  <2> QED
    BY <2>1, OfSelection, OfRequest DEF PipeInv, PipeType
<1>3. req[r].step # "droplinks2" =>
        \A l \in links : l.build = b => b \in DOMAIN builds /\ ChoiceOf(l) \in builds[b].sel
  BY <1>1, <1>2, OwnLinks DEF BuildEnds
<1>4. ASSUME Finish(r)
      PROVE  /\ req'[r].op = "none" /\ req'[r].step = "idle" /\ overlapped' = overlapped
             /\ \A s \in Requests : s # r => req'[s] = req[s]
  BY <1>4, FinishIs DEF Ended, Finish, Go
<1>5. ASSUME NEW s \in Steps, Step(r, s)
      PROVE  /\ req'[r].op = "deletebuild" /\ req'[r].step = s /\ req'[r].build = b
             /\ overlapped' = overlapped /\ \A t \in Requests : t # r => req'[t] = req[t]
  BY <1>2, <1>5, StepIs DEF WentTo, Step, Go
<1>6. CASE RemoveTree(r)
  <2>1. /\ req[r].step = "rmtree" /\ Step(r, "droprow2") /\ UNCHANGED <<rows, nextId, links>>
        /\ UNCHANGED <<builds, nextBuild, job>> /\ dir' = [dir EXCEPT ![b] = Missing]
    BY <1>6, Zenon DEF RemoveTree, At, fileVars
  <2>2. "droprow2" \in Steps
    BY DEF Steps
  <2> HIDE DEF Missing
  <2>3. (\A k \in Builds : k # b => dir'[k] = dir[k]) /\ ~dir'[b].there
    BY <1>2, <2>1, EmptyDirIs
  <2>4. \A l \in links' : l.build = b => Owed(l)'
    BY <1>2, <1>3, <2>1 DEF Owed
  <2> QED
    BY <1>2, <1>5, <2>1, <2>2, <2>3, <2>4, DropSel
<1>7. CASE DropBuildRow(r) /\ dir[b].there
  <2>1. /\ req[r].step = "droprow2" /\ Finish(r) /\ UNCHANGED <<rows, nextId, links>>
        /\ UNCHANGED <<builds, nextBuild, job, dir>>
    BY <1>7, Zenon DEF DropBuildRow, At, fileVars, OwnDir
  <2>2. \A l \in links' : l.build = b => Owed(l)'
    BY <1>2, <1>3, <2>1 DEF Owed
  <2>3. dir'[b].there => b \in DOMAIN builds'
    BY <1>2, <2>1 DEF SelInv, Rooted
  <2> QED
    BY <1>2, <1>4, <2>1, <2>2, <2>3, DropSel
<1>8. CASE DropBuildRow(r) /\ ~dir[b].there
  <2>1. /\ req[r].step = "droprow2" /\ Step(r, "droplinks2") /\ UNCHANGED <<rows, nextId, links>>
        /\ UNCHANGED <<nextBuild, job, dir>> /\ builds' = Restrict(builds, DOMAIN builds \ {b})
    BY <1>8, Zenon DEF DropBuildRow, At, fileVars, OwnDir
  <2>2. DOMAIN builds' = DOMAIN builds \ {b} /\ \A k \in DOMAIN builds' : builds'[k] = builds[k]
    BY <2>1 DEF Restrict
  <2>3. "droplinks2" \in Steps
    BY DEF Steps
  <2>4. \A l \in links' : l.build = b => Owed(l)'
    BY <1>2, <1>5, <2>1, <2>3 DEF Owed, At1
  <2>5. ~dir'[b].there /\ b \notin DOMAIN builds'
    BY <1>8, <2>1, <2>2
  <2> HIDE DEF b
  <2> QED
    BY <1>2, <1>5, <2>1, <2>2, <2>3, <2>4, <2>5, DropSel DEF b
<1>9. CASE DropBuildLinks(r)
  <2>1. /\ req[r].step = "droplinks2" /\ Finish(r) /\ UNCHANGED <<rows, nextId>>
        /\ UNCHANGED <<builds, nextBuild, job, dir>> /\ links' = {l \in links : l.build # b}
    BY <1>9, Zenon DEF DropBuildLinks, At, pipeVars
  <2>2. b \notin DOMAIN builds
    BY <2>1 DEF SelInv, Rooted
  <2>3. /\ links' \subseteq links /\ \A l \in links : l.build # b => l \in links'
        /\ \A l \in links' : l.build # b
    BY <2>1
  <2>4. dir'[b].there => b \in DOMAIN builds'
    BY <1>2, <2>1 DEF SelInv, Rooted
  <2>5. UNCHANGED <<builds, nextBuild, job, dir, rows, nextId>>
    BY <2>1
  <2> HIDE DEF b
  <2> QED
    BY <1>2, <1>4, <2>1, <2>2, <2>3, <2>4, <2>5, DropSel DEF b
<1> QED
  BY <1>6, <1>7, <1>8, <1>9

-----------------------------------------------------------------------------
(***************************************************************************)
(* SelInv is inductive                                                     *)
(***************************************************************************)

\* Every step on files keeps the invariant.
LEMMA FileStepSel ==
  ASSUME RowsInv, PipeInv, SelInv, Orderly, NEW r \in Requests, FileStep(r), UNCHANGED pipeVars
  PROVE  SelInv'
<1>1. CASE FindRow(r) \/ StoreRow(r)
  BY <1>1, FindRowSel, StoreRowSel
<1>2. CASE WriteFile(r) \/ RemoveFile(r) \/ DropRow(r) \/ DropLinks(r)
  BY <1>2, DeleteSel
<1>3. CASE ClearLinks(r) \/ PickUser(r) \/ PickSuggested(r) \/ AddLink(r)
  BY <1>3, ClearLinksSel, PickUserSel, PickSuggestedSel, AddLinkSel
<1> QED
  BY <1>1, <1>2, <1>3, Zenon DEF FileStep

\* Every start keeps the invariant.
LEMMA StartSel ==
  ASSUME RowsInv, PipeInv, SelInv, Orderly, NEW r \in Requests, PStart(r)
  PROVE  SelInv'
<1>1. CASE \E b \in Builds, t \in Targets, sel \in SUBSET Offered :
             /\ Cardinality(sel) <= MaxSelected
             /\ \E auto \in sel \cup {NoAutorun} : SaveBuild(r, b, t, sel, auto)
  <2>1. PICK b \in Builds, sel \in SUBSET Offered : \E t, auto : SaveBuild(r, b, t, sel, auto)
    BY <1>1
  <2> QED
    BY <2>1, SaveStartSel
<1>2. CASE \E b \in Builds : DeleteBuild(r, b)
  <2>1. UNCHANGED <<builds, nextBuild, dir>> /\ job' = [job EXCEPT ![r] = NoJob]
    BY <1>2, Zenon DEF DeleteBuild
  <2> QED
    BY <1>2, <2>1, PlainStartSel
<1>3. CASE /\ \/ \E n \in Names : Alone(0, {}, {n}) /\ UploadOpen(r, n)
              \/ \E i \in DOMAIN rows : Alone(0, {}, {rows[i]}) /\ DeleteLookup(r, i)
           /\ job' = [job EXCEPT ![r] = NoJob]
           /\ UNCHANGED <<builds, nextBuild, dir, parent, cwd, made, nextGen>>
  BY <1>3, PlainStartSel
<1> QED
  BY <1>1, <1>2, <1>3, Zenon DEF PStart

\* Every step keeps the invariant, and no request is killed.
LEMMA NextSel ==
  ASSUME FilesInv, PipeInv, SelInv, Orderly, [PNext]_allVars
  PROVE  SelInv'
<1>1. RowsInv
  BY DEF FilesInv
<1>2. CASE UNCHANGED allVars
  <2>1. /\ UNCHANGED <<rows, nextId, links, req, overlapped>>
        /\ UNCHANGED <<builds, nextBuild, dir, job>>
    BY <1>2, Zenon DEF allVars, vars, pipeVars
  <2>2. Tables'
    BY <2>1 DEF SelInv, Tables, Known
  <2>3. Rooted'
    BY <2>1 DEF SelInv, Rooted
  <2>4. LinksOwed'
    BY <2>1 DEF SelInv, LinksOwed, Owed, At1
  <2>5. LinksMade'
    BY <2>1 DEF SelInv, LinksMade, Kept, Gone, NamesOf
  <2>6. Saves'
    <3>1. ASSUME NEW r \in Requests
          PROVE  Selecting(req[r], job[r], builds, dir)' <=> Selecting(req[r], job[r], builds, dir)
      <4>1. /\ req'[r] = req[r] /\ job'[r] = job[r] /\ builds' = builds /\ dir' = dir
            /\ \A c : NamesOf(c)' = NamesOf(c)
        BY <2>1, Zenon DEF NamesOf
      <4>2. \A d, j, c, names : Placed(d, j, c, names)' <=> Placed(d, j, c, names)
        BY <4>1, Zenon DEF Placed
      <4>3. \A c : Entry(c)' = Entry(c)
        BY <4>1, Zenon DEF Entry
      <4>4. /\ \A j, d, sel : Copying(j, d, sel)' <=> Copying(j, d, sel)
            /\ \A j, d, sel : Pure(d, j, sel)' <=> Pure(d, j, sel)
        <5>1. \A j, c, n : Belongs(j, c, n)' <=> Belongs(j, c, n)
          BY <4>1, Zenon DEF Belongs
        <5>2. \A j, d, sel : Pure(d, j, sel)' <=> Pure(d, j, sel)
          BY <5>1, Zenon DEF Pure
        <5> QED
          BY <4>2, <4>3, <5>2, Zenon DEF Copying
      <4>5. \A c, q : Safe(c, q)' <=> Safe(c, q)
        BY <4>1, Zenon DEF Safe
      <4> QED
        BY <4>1, <4>4, <4>5, <4>2, Zenon DEF Selecting
    <3> QED
      BY <2>1, <3>1, Zenon DEF SelInv, Saves
  <2> QED
    BY <2>2, <2>3, <2>4, <2>5, <2>6 DEF SelInv
<1>3. CASE PNext
  <2>1. PICK r \in Requests : PStart(r) \/ PStep(r) \/ Crash(r)
    BY <1>3, Zenon DEF PNext
  <2>2. ~Crash(r)
    BY DEF Crash, Orderly
  <2>3. CASE PStart(r)
    BY <1>1, <2>3, StartSel
  <2>4. CASE FileStep(r) /\ UNCHANGED pipeVars
    BY <1>1, <2>4, FileStepSel
  <2>5. CASE MakeDir(r) \/ CopyBase(r) \/ Scons(r) \/ CheckBin(r) \/ Pack(r) \/ MoveBack(r)
    BY <1>1, <2>5, QuietStepsSel
  <2>6. CASE Fetch(r) \/ ClearRomfs(r) \/ ListFiles(r) \/ CopyFile(r)
    BY <1>1, <2>6, FetchSel, ClearRomfsSel, ListFilesSel, CopyFileSel
  <2>7. CASE WriteConf(r) \/ StoreConfigs(r)
    BY <1>1, <2>7, WriteConfSel, StoreConfigsSel
  <2>8. CASE RemoveTree(r) \/ DropBuildRow(r) \/ DropBuildLinks(r)
    BY <1>1, <2>8, DroppingSel
  <2> QED
    BY <2>1, <2>2, <2>3, <2>4, <2>5, <2>6, <2>7, <2>8, Zenon DEF PStep
<1> QED
  BY <1>2, <1>3

\* At first there are no builds, links or directories, and nobody is at work.
LEMMA InitSel ==
  ASSUME PInit
  PROVE  SelInv
<1>1. /\ req = [r \in Requests |-> Idle] /\ builds = <<>> /\ links = {} /\ rows = <<>>
      /\ dir = [b \in Builds |-> Missing] /\ overlapped = {} /\ nextId = FirstId
  BY Zenon DEF PInit, Init
<1>2. \A r \in Requests : req[r].op = "none" /\ req[r].step = "idle"
  BY <1>1 DEF Idle
<1>3. DOMAIN builds = {} /\ DOMAIN rows = {} /\ \A b \in Builds : ~dir[b].there
  <2> HIDE DEF Missing
  <2> QED
    BY <1>1, EmptyDirIs
<1>4. Tables
  BY <1>1, <1>2, <1>3, StoreAssumption DEF Tables
<1>5. Rooted /\ LinksOwed /\ LinksMade /\ Saves
  BY <1>1, <1>2, <1>3 DEF Rooted, LinksOwed, LinksMade, Saves
<1> QED
  BY <1>4, <1>5 DEF SelInv

-----------------------------------------------------------------------------
(***************************************************************************)
(* What a build consists of                                                *)
(***************************************************************************)

\* The rows, the directories and the links of the builds, and what a save has done of
\* them, at every step of any number of saves, generations, deletions and uploads.
THEOREM SelectionInvariant == Orderly => (PSpec => []SelInv)
<1> SUFFICES ASSUME Orderly PROVE PSpec => []SelInv
  OBVIOUS
<1>1. FilesInv /\ PipeInv /\ SelInv /\ [PNext]_allVars => SelInv'
  BY NextSel
<1>2. PInit => SelInv
  BY InitSel
<1>3. "crash" \notin Faults /\ Separate
  BY DEF Orderly
<1> QED
  BY <1>1, <1>2, <1>3, FilesInvariant, PipelineInvariant, PTL DEF PSpec

\* Between requests a directory has its row and a link its build, and the links of a
\* build are the files it selected: saving and deleting leave no half of it behind.
THEOREM BuildsFitTogether == Orderly => (PSpec => []BuildsAgree)
<1> SUFFICES ASSUME Orderly PROVE PSpec => []BuildsAgree
  OBVIOUS
<1>1. RowsInv /\ SelInv => BuildsAgree
  <2> SUFFICES ASSUME RowsInv, SelInv PROVE BuildsAgree
    OBVIOUS
  <2>1. \A b \in Builds : dir[b].there => b \in DOMAIN builds
    BY DEF SelInv, Rooted
  <2>2. ASSUME NEW l \in links, QuietBuild(l.build)
        PROVE  l.build \in DOMAIN builds /\ ChoiceOf(l) \in builds[l.build].sel
    <3>1. Owed(l)
      BY DEF SelInv, LinksOwed
    <3>2. \A s : s # "idle" => ~At1(s, l.build)
      BY <2>2 DEF At1, QuietBuild, Active, At
    <3> QED
      BY <3>1, <3>2 DEF Owed
  <2>3. ASSUME NEW b \in DOMAIN builds, Active = {}, \A c \in builds[b].sel : NamesOf(c) # {},
               NEW c \in builds[b].sel
        PROVE  LinkOf(b, c) \in links
    <3>1. Kept(b, c)
      BY DEF SelInv, LinksMade
    <3>2. \A r \in Requests : req[r].op = "none"
      BY <2>3, WasIdle DEF Active, At
    <3> QED
      BY <2>3, <3>1, <3>2 DEF Kept, Gone, Doing
  <2> QED
    BY <2>1, <2>2, <2>3 DEF BuildsAgree, ChoiceOf, LinkOf
<1> QED
  BY <1>1, TableInvariant, SelectionInvariant, PTL

\* A new image comes from the selection of its build and from nothing else: under each
\* name is a selected file that belongs there, whole, under the name it has now or as
\* autorun.lua, and no file under a name where none belongs.
THEOREM ImageHoldsSelection == Orderly => (PSpec => ImageIsSelection)
<1> DEFINE Holds(r) ==
      LET rom == made'[job[r].no].romfs
          sel == builds[req[r].build].sel IN
      \A n \in Names :
        IF Into(r, sel, n) = {} THEN rom[n] = NoFile
        ELSE /\ rom[n].whole
             /\ [id |-> rom[n].id, user |-> rom[n].user] \in Into(r, sel, n)
<1> SUFFICES ASSUME Orderly PROVE PSpec => ImageIsSelection
  OBVIOUS
<1>1. ASSUME RowsInv, PipeInv, SelInv, NEW r \in Requests, Scons(r), made' # made
      PROVE  Holds(r)
  <2> DEFINE b   == req[r].build
             sel == builds[b].sel
  <2>1. /\ req[r].step = "scons"
        /\ made' = [made EXCEPT ![job[r].no] = [romfs |-> Packed(dir[b]), build |-> b]]
    BY <1>1, Zenon DEF Scons, At
  <2>2. req[r].step \in BuildSteps /\ req[r].step \in Compiling
    BY <2>1 DEF BuildSteps, Compiling
  <2>3. Selecting(req[r], job[r], builds, dir)
    BY <1>1, <2>2, OfBuilding
  <2>4. job[r].no \in 1..MaxGen /\ DOMAIN made = 1..MaxGen
    BY <1>1, <2>2, OfGeneration DEF Generating, PipeInv, PipeType
  <2>5. made'[job[r].no].romfs = Packed(dir[b])
    <3> HIDE DEF Packed, b
    <3> QED
      BY <2>1, <2>4
  <2>6. Pure(dir[b], job[r], sel) /\ \A c \in sel : Placed(dir[b], job[r], c, dir[b].listed)
    BY <2>1, <2>3 DEF Selecting
  <2>7. ASSUME NEW n \in Names, NEW c \in Into(r, sel, n)
        PROVE  Packed(dir[b])[n] # NoFile
    <3>1. PICK m \in NamesOf(c) : RomName(r, c, m) = n
      BY <2>7 DEF Into
    <3>2. dir[b].romfs[n] # NoFile /\ n \in dir[b].listed \cup {Autorun}
      BY <2>6, <2>7, <3>1 DEF Into, Placed, RomName
    <3> QED
      BY <3>2, PipelineAssumption DEF Packed
  <2>8. ASSUME NEW n \in Names, Packed(dir[b])[n] # NoFile
        PROVE  /\ Packed(dir[b])[n].whole
               /\ ChoiceOf(Packed(dir[b])[n]) \in Into(r, sel, n)
    <3> DEFINE c == ChoiceOf(dir[b].romfs[n])
    <3>1. Packed(dir[b])[n] = dir[b].romfs[n]
      BY <2>8 DEF Packed
    <3>2. dir[b].romfs[n].whole /\ c \in sel /\ Belongs(job[r], c, n)
      BY <2>6, <2>8, <3>1 DEF Pure
    <3>3. c \in Into(r, sel, n)
      <4> HIDE DEF c
      <4> QED
        BY <3>2 DEF Belongs, Into, RomName
    <3> QED
      BY <3>1, <3>2, <3>3
  <2>9. ASSUME NEW n \in Names
        PROVE  IF Into(r, sel, n) = {} THEN Packed(dir[b])[n] = NoFile
               ELSE /\ Packed(dir[b])[n].whole
                    /\ ChoiceOf(Packed(dir[b])[n]) \in Into(r, sel, n)
    <3>1. CASE Into(r, sel, n) = {}
      BY <2>8, <3>1
    <3>2. CASE Into(r, sel, n) # {}
      <4>1. Packed(dir[b])[n] # NoFile
        BY <2>7, <3>2
      <4> QED
        BY <2>8, <3>2, <4>1
    <3> QED
      BY <3>1, <3>2
  <2> QED
    BY <2>5, <2>9 DEF ChoiceOf
<1>2. RowsInv /\ PipeInv /\ SelInv =>
        (\A r \in Requests : Scons(r) /\ made' # made => Holds(r))
  BY <1>1
<1>3. Separate
  BY DEF Orderly
<1> QED
  BY <1>2, <1>3, TableInvariant, PipelineInvariant, SelectionInvariant, PTL
     DEF ImageIsSelection
=============================================================================
