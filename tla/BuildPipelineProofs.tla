-------------------------- MODULE BuildPipelineProofs --------------------------
(***************************************************************************)
(* Proofs about BuildPipeline: first about the files of a user, under      *)
(* everything that can run at the same time, the requests of FileStore and *)
(* the builds; then about the generations, and the image, or the log, a    *)
(* user is offered.                                                        *)
(***************************************************************************)
EXTENDS BuildPipeline, FiniteSetTheorems, WellFoundedInduction, TLAPS

(***************************************************************************)
(* I. Files                                                                *)
(***************************************************************************)

-----------------------------------------------------------------------------
(***************************************************************************)
(* The invariant of the table and of the requests.  Each part takes what   *)
(* it reads as an argument, so that a lemma can speak of two states.       *)
(***************************************************************************)
Ops        == {"none", "upload", "delete", "save", "deletebuild"}
BuildSteps == {"mkdir", "base", "clearrom", "list", "copy", "conf", "scons", "check", "pack", "back"}
Steps      == {"idle", "find", "store", "write", "remove", "droprow", "unlink", "clear", "pick",
               "link", "rmtree", "droprow2", "droplinks2"} \cup BuildSteps

Choice  == [id : Nat, user : {TRUE, FALSE}]
Request == [op : Ops, step : Steps, claims : SUBSET Names, name : Names \cup {NoName},
            id : Nat, user : {TRUE, FALSE}, row : Nat, ino : Inodes \cup {0}, build : Nat,
            todo : SUBSET Choice]

FileType ==
  /\ nextId \in Nat \ {0}
  /\ rows \in [DOMAIN rows -> Names] /\ DOMAIN rows \subseteq 1..(nextId - 1)
  /\ disk \in [Names -> Inodes \cup {0}]
  /\ data \in [Inodes -> SUBSET (Requests \cup {Admin})]
  /\ req \in [Requests -> Request]

Named(f, n) == {i \in DOMAIN f : f[i] = n}

\* Where each kind of request can be, and what it claims there.
Busy(q) ==
  \/ q.op = "none" /\ q.step = "idle" /\ q.claims = {} /\ q.ino = 0
  \/ q.op = "upload" /\ q.step \in {"find", "store", "write"} /\ q.claims = {q.name} /\ q.ino # 0
  \/ q.op = "delete" /\ q.step \in {"remove", "droprow", "unlink"} /\ q.claims = {q.name} /\ q.ino = 0
  \/ /\ q.op = "save" /\ q.ino = 0
     /\ \/ q.step \in {"clear", "pick"} \cup BuildSteps
        \/ q.step \in {"find", "store"} /\ q.name \in q.claims /\ q.user
        \/ q.step = "link" /\ q.name \in q.claims
  \/ q.op = "deletebuild" /\ q.step \in {"rmtree", "droprow2", "droplinks2"} /\ q.claims = {} /\ q.ino = 0

\* A file still to be saved with a build has a name the request claims.
Wanted(q, f, k) ==
  \A c \in q.todo : IF c.user THEN c.id < k /\ (c.id \in DOMAIN f => f[c.id] \in q.claims)
                              ELSE c.id \in DOMAIN Suggested /\ Suggested[c.id] \in q.claims

\* The file being saved is still there, unless somebody works on its name too.
Chosen(q, f, o) ==
  q.op = "save" /\ q.step \in {"find", "store", "link"} /\ q.user /\ q.name \notin o =>
    q.id \in DOMAIN f /\ f[q.id] = q.name

\* What was looked up is still so.
Looked(q, f, o) == q.step = "store" /\ q.row = 0 /\ q.name \notin o => Named(f, q.name) = {}

\* A row that is being deleted keeps its name, and its number is not given again.
Deleting(q, f, k) == q.op = "delete" => q.id < k /\ (q.id \in DOMAIN f => f[q.id] = q.name)

Fits(q, f, k, o) == /\ Busy(q) /\ Wanted(q, f, k) /\ Chosen(q, f, o) /\ Looked(q, f, o)
                    /\ Deleting(q, f, k)

Fitting == \A r \in Requests : Fits(req[r], rows, nextId, overlapped)

\* Two requests share only names that overlapped holds.
Apart == \A r, s \in Requests : r # s => req[r].claims \cap req[s].claims \subseteq overlapped

AtMostOne(f, n) == \A i, j \in DOMAIN f : f[i] = n /\ f[j] = n => i = j

One == \A n \in Names \ overlapped : AtMostOne(rows, n)

RowsInv == FileType /\ Fitting /\ Apart /\ One

-----------------------------------------------------------------------------
(***************************************************************************)
(* The invariant of the files, when no request is killed.                  *)
(***************************************************************************)

\* An inode has one name, and one a request has open has that request's name.
OneName(d) == \A m, n \in Names : d[m] = d[n] /\ d[m] # 0 => m = n
Held(q, d) == q.ino # 0 => \A m \in Names : d[m] = q.ino => m = q.name

\* A name at rest.
Match(n, f, d, t) ==
  /\ Named(f, n) # {} => d[n] # 0 /\ \E x \in Requests \cup {Admin} : t[d[n]] = {x}
  /\ d[n] # 0 => Named(f, n) # {} \/ n \in RangeOf(Suggested)

\* A name that a request is half way through.
Half(q, f, d, t) ==
  /\ q.op = "upload" => /\ d[q.name] = q.ino /\ t[q.ino] = {}
                        /\ q.step = "store" /\ q.row # 0 => Named(f, q.name) # {}
                        /\ q.step = "write" => Named(f, q.name) # {}
  /\ q.op = "delete" =>
       \/ q.step = "remove" /\ Match(q.name, f, d, t)
       \/ q.step = "droprow" /\ d[q.name] = 0
       \/ q.step = "unlink" /\ d[q.name] = 0 /\ Named(f, q.name) = {}
  /\ q.op = "delete" /\ q.step # "unlink" => q.id \in DOMAIN f

Disks == OneName(disk) /\ \A r \in Requests : Held(req[r], disk)

AtRest(n) == \A r \in Requests : n \in req[r].claims => req[r].op = "save"

Files ==
  /\ \A n \in Names \ overlapped : AtRest(n) => Match(n, rows, disk, data)
  /\ \A r \in Requests : req[r].name \notin overlapped => Half(req[r], rows, disk, data)

FilesInv == RowsInv /\ Disks /\ Files /\ LinksAlive

-----------------------------------------------------------------------------
(***************************************************************************)
(* Inodes                                                                  *)
(***************************************************************************)

\* The inodes are finitely many, more than the names and the requests together.
LEMMA InodesFinite ==
  /\ Cardinality(Names) \in Nat /\ Cardinality(Requests) \in Nat
  /\ IsFiniteSet(Inodes) /\ Inodes \subseteq Nat
  /\ Cardinality(Inodes) = Cardinality(Names) + Cardinality(Requests) + 1
<1>1. Cardinality(Names) \in Nat /\ Cardinality(Requests) \in Nat
  BY StoreAssumption, FS_CardinalityType
<1> DEFINE k == Cardinality(Names) + Cardinality(Requests) + 1
<1>2. 1 \in Int /\ k \in Int /\ k \in Nat \ {0}
  BY <1>1
<1>3. Inodes = 1..k
  BY DEF Inodes
<1> HIDE DEF k
<1>4. IsFiniteSet(1..k) /\ Cardinality(1..k) = k
  BY <1>2, FS_Interval
<1>5. 1..k \subseteq Nat
  BY <1>2
<1> QED
  BY <1>1, <1>3, <1>4, <1>5 DEF k

\* The images of a function on a finite set are no more than its arguments.
LEMMA ImageSmaller ==
  ASSUME NEW S, NEW f, IsFiniteSet(S), f = [x \in S |-> f[x]]
  PROVE  IsFiniteSet(RangeOf(f)) /\ Cardinality(RangeOf(f)) <= Cardinality(S)
<1>1. f \in Surjection(S, RangeOf(f))
  BY DEF Surjection, RangeOf
<1> QED
  BY <1>1, FS_Surjection

\* open() and cp find an inode that no name has and no request holds.
LEMMA FreeInodeIsFree ==
  ASSUME disk \in [Names -> Inodes \cup {0}], req \in [Requests -> Request]
  PROVE  /\ FreeInode \in Inodes /\ FreeInode \notin RangeOf(disk) /\ FreeInode # 0
         /\ \A r \in Requests : req[r].ino # FreeInode
<1> DEFINE open == [r \in Requests |-> req[r].ino]
           used == RangeOf(disk) \cup RangeOf(open)
           free == Inodes \ used
<1>1. /\ IsFiniteSet(RangeOf(disk)) /\ Cardinality(RangeOf(disk)) <= Cardinality(Names)
      /\ IsFiniteSet(RangeOf(open)) /\ Cardinality(RangeOf(open)) <= Cardinality(Requests)
  <2>1. disk = [n \in Names |-> disk[n]] /\ open = [r \in Requests |-> open[r]]
    OBVIOUS
  <2> HIDE DEF open
  <2> QED
    BY <2>1, ImageSmaller, StoreAssumption
<1>2. /\ Cardinality(RangeOf(disk)) \in Nat /\ Cardinality(RangeOf(open)) \in Nat
      /\ Cardinality(RangeOf(disk) \cap RangeOf(open)) \in Nat
  <2> HIDE DEF open
  <2>1. IsFiniteSet(RangeOf(disk) \cap RangeOf(open))
    BY <1>1, FS_Intersection
  <2> QED
    BY <1>1, <2>1, FS_CardinalityType
<1>3. /\ IsFiniteSet(used) /\ Cardinality(used) \in Nat
      /\ Cardinality(used) < Cardinality(Inodes)
  <2> HIDE DEF open
  <2>1. IsFiniteSet(used) /\ Cardinality(used) =
          Cardinality(RangeOf(disk)) + Cardinality(RangeOf(open))
            - Cardinality(RangeOf(disk) \cap RangeOf(open))
    BY <1>1, FS_Union
  <2>2. /\ Cardinality(Names) \in Nat /\ Cardinality(Requests) \in Nat
        /\ Cardinality(Inodes) = Cardinality(Names) + Cardinality(Requests) + 1
    BY InodesFinite
  <2>3. IsFiniteSet(used) /\ Cardinality(used) \in Nat
    BY <2>1, FS_CardinalityType
  <2>4. \A a, b, c, m, n, u \in Nat : a <= m /\ b <= n /\ u = a + b - c => u < m + n + 1
    OBVIOUS
  <2> HIDE DEF used
  <2> QED
    BY <1>1, <1>2, <2>1, <2>2, <2>3, <2>4
<1>4. free # {}
  <2> HIDE DEF used
  <2>1. SUFFICES ASSUME free = {} PROVE FALSE
    OBVIOUS
  <2>2. Inodes \in SUBSET used
    BY <2>1
  <2>3. Cardinality(Inodes) <= Cardinality(used)
    BY <1>3, <2>2, FS_Subset
  <2> QED
    BY <1>3, <2>3, InodesFinite
<1>5. free \subseteq Nat
  BY InodesFinite
<1>6. PICK i \in free : \A j \in free : ~(<<j, i>> \in OpToRel(<, Nat))
  <2> HIDE DEF free
  <2> QED
    BY <1>4, <1>5, NatLessThanWellFounded, WFMin, Zenon
<1>7. i \in Nat \ {0} /\ \A j \in 1..(i - 1) : j \in used
  <2>1. i \in Nat \ {0}
    BY <1>5, InodesFinite DEF Inodes
  <2>2. ASSUME NEW j \in 1..(i - 1) PROVE j \in used
    <3>1. j \in Inodes /\ j \in Nat /\ j < i
      BY <2>1, InodesFinite DEF Inodes
    <3>2. <<j, i>> \in OpToRel(<, Nat)
      BY <2>1, <3>1 DEF OpToRel
    <3> QED
      BY <1>6, <3>1, <3>2
  <2> QED
    BY <2>1, <2>2
<1>8. /\ i \in Inodes /\ i \notin RangeOf(disk)
      /\ \A r \in Requests : req[r].ino # i
      /\ \A j \in 1..(i - 1) : j \in RangeOf(disk) \/ \E r \in Requests : req[r].ino = j
  <2>1. \A j : j \in RangeOf(open) <=> \E r \in Requests : req[r].ino = j
    BY DEF RangeOf
  <2> HIDE DEF open
  <2> QED
    BY <1>6, <1>7, <2>1
<1>9. /\ FreeInode \in Inodes /\ FreeInode \notin RangeOf(disk)
      /\ \A r \in Requests : req[r].ino # FreeInode
  BY <1>8 DEF FreeInode
<1> QED
  BY <1>9, InodesFinite DEF Inodes

-----------------------------------------------------------------------------
(***************************************************************************)
(* Steps that leave the table of files alone                               *)
(***************************************************************************)

\* More raced names only weaken what a request relies on.
LEMMA FitsLess ==
  ASSUME NEW q, NEW f, NEW k, NEW o, NEW p, Fits(q, f, k, o), o \subseteq p
  PROVE  Fits(q, f, k, p)
BY DEF Fits, Chosen, Looked

\* A step of one request that leaves the table alone.
LEMMA RowsKept ==
  ASSUME RowsInv, NEW r \in Requests, UNCHANGED <<rows, nextId>>,
         disk' \in [Names -> Inodes \cup {0}],
         data' \in [Inodes -> SUBSET (Requests \cup {Admin})],
         overlapped \subseteq overlapped',
         req' = [req EXCEPT ![r] = req'[r]], req'[r] \in Request,
         Fits(req'[r], rows, nextId, overlapped'),
         \A s \in Requests \ {r} : req'[r].claims \cap req[s].claims \subseteq overlapped'
  PROVE  RowsInv'
<1>1. \A s \in Requests \ {r} : req'[s] = req[s]
  BY DEF RowsInv, FileType
<1>2. FileType'
  BY DEF RowsInv, FileType
<1>3. Fitting'
  <2>1. ASSUME NEW s \in Requests PROVE Fits(req'[s], rows', nextId', overlapped')
    <3>1. CASE s = r
      BY <3>1
    <3>2. CASE s # r
      <4>1. Fits(req[s], rows, nextId, overlapped)
        BY DEF RowsInv, Fitting
      <4>2. Fits(req[s], rows, nextId, overlapped')
        BY <4>1, FitsLess
      <4> QED
        BY <1>1, <3>2, <4>2
    <3> QED
      BY <3>1, <3>2
  <2> QED
    BY <2>1 DEF Fitting
<1>4. Apart'
  BY <1>1 DEF RowsInv, Apart
<1>5. One'
  BY DEF RowsInv, One
<1> QED
  BY <1>2, <1>3, <1>4, <1>5 DEF RowsInv

\* A request starts, with a record the table fits.
LEMMA StartKept ==
  ASSUME RowsInv, NEW r \in Requests, NEW init \in Request, Start(r, init),
         UNCHANGED <<rows, nextId>>,
         disk' \in [Names -> Inodes \cup {0}],
         data' \in [Inodes -> SUBSET (Requests \cup {Admin})],
         Fits(init, rows, nextId, overlapped')
  PROVE  RowsInv' /\ req'[r] = init /\ overlapped \subseteq overlapped'
<1>1. req' = [req EXCEPT ![r] = req'[r]] /\ req'[r] = init /\ overlapped \subseteq overlapped'
  BY DEF Start, RowsInv, FileType
<1>2. ASSUME NEW s \in Requests \ {r}
      PROVE  init.claims \cap req[s].claims \subseteq overlapped'
  <2>1. CASE At(s, "idle")
    <3>1. Busy(req[s])
      BY DEF RowsInv, Fitting, Fits
    <3>2. req[s].claims = {}
      BY <2>1, <3>1 DEF At, Busy, BuildSteps
    <3> QED
      BY <3>2
  <2>2. CASE ~At(s, "idle")
    BY <2>2 DEF Start, ClaimedBy, Active
  <2> QED
    BY <2>1, <2>2
<1> QED
  BY <1>1, <1>2, RowsKept

\* A request goes on, and claims no more than before.
LEMMA GoKept ==
  ASSUME RowsInv, NEW r \in Requests, NEW new \in Request, Go(r, new),
         UNCHANGED <<rows, nextId>>,
         disk' \in [Names -> Inodes \cup {0}],
         data' \in [Inodes -> SUBSET (Requests \cup {Admin})],
         new.claims \subseteq req[r].claims,
         Fits(new, rows, nextId, overlapped)
  PROVE  RowsInv' /\ req'[r] = new
<1>1. req' = [req EXCEPT ![r] = req'[r]] /\ req'[r] = new /\ overlapped' = overlapped
  BY DEF Go, RowsInv, FileType
<1>2. \A s \in Requests \ {r} : new.claims \cap req[s].claims \subseteq overlapped
  BY DEF RowsInv, Apart
<1> QED
  BY <1>1, <1>2, RowsKept

\* The idle record fits any table.
LEMMA IdleFits ==
  /\ Idle \in Request /\ Idle.claims = {} /\ Idle.op = "none" /\ Idle.ino = 0
  /\ Idle.step = "idle"
  /\ \A f, k, o : Fits(Idle, f, k, o)
<1>1. /\ Idle.op = "none" /\ Idle.step = "idle" /\ Idle.claims = {} /\ Idle.ino = 0
      /\ Idle.todo = {}
  BY DEF Idle
<1>2. Idle \in Request
  <2>1. "none" \in Ops /\ "idle" \in Steps
    BY DEF Ops, Steps
  <2>2. 0 \in Nat /\ 0 \in Inodes \cup {0}
    OBVIOUS
  <2>3. {} \in SUBSET Names /\ {} \in SUBSET Choice /\ NoName \in Names \cup {NoName}
    BY Zenon
  <2>4. FALSE \in {TRUE, FALSE}
    OBVIOUS
  <2> QED
    BY <2>1, <2>2, <2>3, <2>4, Zenon DEF Idle, Request
<1>3. Busy(Idle)
  BY <1>1 DEF Busy
<1>4. ASSUME NEW f, NEW k, NEW o PROVE Fits(Idle, f, k, o)
  <2> HIDE DEF Idle
  <2> QED
    BY <1>1, <1>3 DEF Fits, Wanted, Chosen, Looked, Deleting
<1> QED
  BY <1>1, <1>2, <1>4

-----------------------------------------------------------------------------
(***************************************************************************)
(* Every action and the table                                              *)
(***************************************************************************)

\* What the invariant says of one request.
LEMMA OfRequest ==
  ASSUME RowsInv, NEW r \in Requests
  PROVE  /\ req[r] \in Request /\ Fits(req[r], rows, nextId, overlapped)
         /\ disk \in [Names -> Inodes \cup {0}]
         /\ data \in [Inodes -> SUBSET (Requests \cup {Admin})]
         /\ nextId \in Nat \ {0} /\ rows \in [DOMAIN rows -> Names]
         /\ DOMAIN rows \subseteq 1..(nextId - 1)
         /\ req \in [Requests -> Request]
BY DEF RowsInv, FileType, Fitting

\* The record an upload starts with.
Uploading(n, i) == [Idle EXCEPT !.op = "upload", !.step = "find", !.claims = {n},
                                !.name = n, !.ino = i]

\* An upload starts with a record that fits any state.
LEMMA UploadRecord ==
  ASSUME NEW n \in Names, NEW i \in Inodes, i # 0
  PROVE  /\ Uploading(n, i) \in Request
         /\ Uploading(n, i).op = "upload" /\ Uploading(n, i).step = "find"
         /\ Uploading(n, i).claims = {n} /\ Uploading(n, i).name = n
         /\ Uploading(n, i).ino = i
         /\ \A f, k, o : Fits(Uploading(n, i), f, k, o)
<1> DEFINE q == Uploading(n, i)
<1>1. /\ q.op = "upload" /\ q.step = "find" /\ q.claims = {n}
  BY DEF Idle, Uploading
<1>2. q.name = n /\ q.ino = i /\ q.todo = {}
  BY DEF Idle, Uploading
<1>3. q \in Request
  <2>1. "upload" \in Ops /\ "find" \in Steps
    BY DEF Ops, Steps
  <2> QED
    BY <2>1, IdleFits DEF Uploading, Request
<1> HIDE DEF q
<1>4. Busy(q)
  BY <1>1, <1>2 DEF Busy
<1>5. \A f, k, o : Fits(q, f, k, o)
  BY <1>1, <1>2, <1>4 DEF Fits, Wanted, Chosen, Looked, Deleting
<1> QED
  BY <1>1, <1>2, <1>3, <1>5 DEF q

\* The inode an upload of n opens.
LEMMA OpenedInode ==
  ASSUME RowsInv, NEW n \in Names
  PROVE  LET ino == IF disk[n] = 0 THEN FreeInode ELSE disk[n] IN ino \in Inodes /\ ino # 0
BY FreeInodeIsFree, InodesFinite DEF RowsInv, FileType

\* An upload opens its file and works on that name alone.
LEMMA UploadOpenRows ==
  ASSUME RowsInv, NEW r \in Requests, NEW n \in Names, UploadOpen(r, n)
  PROVE  /\ RowsInv' /\ overlapped \subseteq overlapped'
         /\ req'[r].op = "upload" /\ req'[r].name = n /\ req'[r].step = "find"
         /\ req'[r].claims = {n}
         /\ req'[r].ino = IF disk[n] = 0 THEN FreeInode ELSE disk[n]
<1> DEFINE ino  == IF disk[n] = 0 THEN FreeInode ELSE disk[n]
           init == Uploading(n, ino)
<1>1. Start(r, init) /\ UNCHANGED <<rows, nextId>>
      /\ disk' = [disk EXCEPT ![n] = ino] /\ data' = [data EXCEPT ![ino] = {}]
  BY DEF UploadOpen, Uploading
<1>2. ino \in Inodes /\ ino # 0
  BY OpenedInode
<1> HIDE DEF ino
<1>3. init \in Request /\ init.op = "upload" /\ init.step = "find" /\ init.claims = {n}
      /\ init.name = n /\ init.ino = ino /\ Fits(init, rows, nextId, overlapped')
  <2> HIDE DEF init
  <2>1. /\ init \in Request /\ init.op = "upload" /\ init.step = "find" /\ init.claims = {n}
        /\ init.name = n /\ init.ino = ino /\ \A f, k, o : Fits(init, f, k, o)
    BY <1>2, UploadRecord DEF init
  <2> QED
    BY <2>1, Zenon
<1>4. /\ disk' \in [Names -> Inodes \cup {0}]
      /\ data' \in [Inodes -> SUBSET (Requests \cup {Admin})]
  BY <1>1, <1>2 DEF RowsInv, FileType
<1> HIDE DEF init
<1>5. RowsInv' /\ req'[r] = init /\ overlapped \subseteq overlapped'
  BY <1>1, <1>3, <1>4, StartKept
<1> QED
  BY <1>3, <1>5 DEF ino

\* The record of a request that has looked its name up.
Found(q, i) == [q EXCEPT !.row = i, !.step = "store"]

\* Looking up sets the row found and the step, nothing else.
LEMMA FoundIs ==
  ASSUME NEW q \in Request, NEW i \in Nat
  PROVE  /\ Found(q, i) \in Request /\ Found(q, i).op = q.op /\ Found(q, i).step = "store"
         /\ Found(q, i).name = q.name /\ Found(q, i).claims = q.claims
         /\ Found(q, i).ino = q.ino /\ Found(q, i).user = q.user /\ Found(q, i).id = q.id
         /\ Found(q, i).row = i /\ Found(q, i).todo = q.todo
<1>1. "store" \in Steps
  BY DEF Steps
<1>2. /\ Found(q, i).op = q.op /\ Found(q, i).step = "store"
      /\ Found(q, i).name = q.name /\ Found(q, i).claims = q.claims
      /\ Found(q, i).ino = q.ino /\ Found(q, i).user = q.user /\ Found(q, i).id = q.id
      /\ Found(q, i).row = i /\ Found(q, i).todo = q.todo
  BY DEF Found, Request
<1>3. Found(q, i) \in Request
  BY <1>1 DEF Found, Request
<1> QED
  BY <1>2, <1>3


\* getFileByName remembers a row of that name, if there is one.
LEMMA FindRowRows ==
  ASSUME RowsInv, NEW r \in Requests, FindRow(r)
  PROVE  /\ RowsInv' /\ UNCHANGED <<rows, nextId, disk, data, links, overlapped>>
         /\ req[r].step = "find" /\ req'[r].step = "store" /\ req'[r].op = req[r].op
         /\ req'[r].name = req[r].name /\ req'[r].ino = req[r].ino
         /\ req'[r].claims = req[r].claims
         /\ req'[r].row # 0 => Named(rows, req[r].name) # {}
<1>1. PICK i \in IF IdsNamed(req[r].name) = {} THEN {0} ELSE IdsNamed(req[r].name) :
        Go(r, [req[r] EXCEPT !.row = i, !.step = "store"])
  BY Zenon DEF FindRow
<1> DEFINE new == Found(req[r], i)
<1>2. /\ At(r, "find") /\ UNCHANGED <<rows, nextId, disk, data, links, overlapped>>
      /\ Go(r, new)
  BY <1>1, Zenon DEF FindRow, Go, Found
<1>3. /\ i \in Nat /\ (i = 0 => Named(rows, req[r].name) = {})
      /\ i # 0 => Named(rows, req[r].name) # {}
  BY OfRequest DEF IdsNamed, Named
<1>4. /\ new \in Request /\ new.op = req[r].op /\ new.step = "store" /\ new.name = req[r].name
      /\ new.claims = req[r].claims /\ new.ino = req[r].ino /\ new.user = req[r].user
      /\ new.id = req[r].id /\ new.row = i /\ new.todo = req[r].todo
  <2>1. req[r] \in Request /\ i \in Nat
    BY <1>3, OfRequest
  <2> QED
    BY <2>1, FoundIs
<1> HIDE DEF new
<1>5. Fits(new, rows, nextId, overlapped)
  <2>1. Fits(req[r], rows, nextId, overlapped) /\ req[r].step = "find"
    BY <1>2, OfRequest DEF At
  <2>2. Busy(new)
    BY <1>4, <2>1 DEF Fits, Busy, BuildSteps
  <2>3. Wanted(new, rows, nextId) /\ Deleting(new, rows, nextId)
    BY <1>4, <2>1 DEF Fits, Wanted, Deleting
  <2>4. Chosen(new, rows, overlapped)
    BY <1>4, <2>1 DEF Fits, Chosen
  <2>5. Looked(new, rows, overlapped)
    BY <1>3, <1>4 DEF Looked
  <2> QED
    BY <2>2, <2>3, <2>4, <2>5 DEF Fits
<1>6. RowsInv' /\ req'[r] = new
  BY <1>2, <1>4, <1>5, GoKept, OfRequest
<1> QED
  BY <1>2, <1>3, <1>4, <1>6 DEF At

\* A request that only changes its step.
To(q, s) == [q EXCEPT !.step = s]

\* Going on to a step changes nothing but the step.
LEMMA ToIs ==
  ASSUME NEW q \in Request, NEW s \in Steps
  PROVE  /\ To(q, s) \in Request /\ To(q, s).step = s
         /\ To(q, s).op = q.op /\ To(q, s).claims = q.claims /\ To(q, s).name = q.name
         /\ To(q, s).id = q.id /\ To(q, s).user = q.user /\ To(q, s).row = q.row
         /\ To(q, s).ino = q.ino /\ To(q, s).build = q.build /\ To(q, s).todo = q.todo
BY DEF To, Request

\* What a claimed name at "find" or "store" means.
LEMMA NameClaimed ==
  ASSUME NEW q \in Request, Busy(q), q.step \in {"find", "store", "write", "link", "droprow"}
  PROVE  q.name \in q.claims /\ q.name \in Names /\ q.op \in {"upload", "save", "delete"}
BY DEF Request, Busy, BuildSteps

\* A step that changes the table.
LEMMA RowsChanged ==
  ASSUME RowsInv, NEW r \in Requests, NEW new \in Request, Go(r, new),
         UNCHANGED <<disk, data>>, new.claims = req[r].claims,
         nextId' \in Nat \ {0}, rows' \in [DOMAIN rows' -> Names],
         DOMAIN rows' \subseteq 1..(nextId' - 1),
         Fits(new, rows', nextId', overlapped),
         \A s \in Requests : s # r => Fits(req[s], rows', nextId', overlapped),
         \A n \in Names \ overlapped : AtMostOne(rows', n)
  PROVE  RowsInv' /\ req'[r] = new
<1>1. /\ req' = [req EXCEPT ![r] = new] /\ req'[r] = new /\ overlapped' = overlapped
      /\ req' \in [Requests -> Request] /\ \A s \in Requests : s # r => req'[s] = req[s]
  BY DEF Go, RowsInv, FileType
<1>2. FileType'
  BY <1>1 DEF RowsInv, FileType
<1>3. Fitting'
  <2>1. ASSUME NEW s \in Requests PROVE Fits(req'[s], rows', nextId', overlapped')
    BY <1>1
  <2> QED
    BY <2>1 DEF Fitting
<1>4. Apart'
  BY <1>1 DEF RowsInv, Apart
<1>5. One'
  BY <1>1 DEF One
<1> QED
  BY <1>1, <1>2, <1>3, <1>4, <1>5 DEF RowsInv

\* A row with a new number disturbs no other request, and is the only one of its
\* name, unless the name is raced on.
LEMMA RowAdded ==
  ASSUME RowsInv, NEW r \in Requests, req[r].step = "store", req[r].row = 0,
         NEW f, f = [i \in DOMAIN rows \cup {nextId} |->
                       IF i = nextId THEN req[r].name ELSE rows[i]]
  PROVE  /\ DOMAIN f = DOMAIN rows \cup {nextId} /\ f \in [DOMAIN f -> Names]
         /\ f[nextId] = req[r].name /\ \A i \in DOMAIN rows : i # nextId /\ f[i] = rows[i]
         /\ \A s \in Requests : s # r => Fits(req[s], f, nextId + 1, overlapped)
         /\ \A n \in Names \ overlapped : AtMostOne(f, n)
<1> DEFINE m == req[r].name
<1>1. /\ req[r] \in Request /\ Fits(req[r], rows, nextId, overlapped)
      /\ nextId \in Nat \ {0} /\ rows \in [DOMAIN rows -> Names]
      /\ DOMAIN rows \subseteq 1..(nextId - 1)
  BY OfRequest
<1>2. m \in req[r].claims /\ m \in Names
  BY <1>1, NameClaimed DEF Fits
<1>3. /\ DOMAIN f = DOMAIN rows \cup {nextId} /\ f \in [DOMAIN f -> Names]
      /\ f[nextId] = m /\ \A i \in DOMAIN rows : i # nextId /\ f[i] = rows[i]
  BY <1>1, <1>2
<1>4. m \notin overlapped => Named(rows, m) = {}
  BY <1>1 DEF Fits, Looked
<1> HIDE DEF m
<1>5. ASSUME NEW s \in Requests, s # r
      PROVE  Fits(req[s], f, nextId + 1, overlapped)
  <2>1. req[s] \in Request /\ Fits(req[s], rows, nextId, overlapped)
    BY OfRequest
  <2>2. Busy(req[s])
    BY <2>1 DEF Fits
  <2>3. Wanted(req[s], f, nextId + 1)
    <3>1. ASSUME NEW c \in req[s].todo
          PROVE  IF c.user THEN c.id < nextId + 1 /\ (c.id \in DOMAIN f => f[c.id] \in req[s].claims)
                           ELSE c.id \in DOMAIN Suggested /\ Suggested[c.id] \in req[s].claims
      <4>1. IF c.user THEN c.id < nextId /\ (c.id \in DOMAIN rows => rows[c.id] \in req[s].claims)
                      ELSE c.id \in DOMAIN Suggested /\ Suggested[c.id] \in req[s].claims
        BY <2>1 DEF Fits, Wanted
      <4>2. c.id \in Nat
        BY <2>1 DEF Request, Choice
      <4> QED
        BY <1>1, <1>3, <4>1, <4>2
    <3> QED
      BY <3>1 DEF Wanted
  <2>4. Chosen(req[s], f, overlapped)
    BY <1>3, <2>1 DEF Fits, Chosen
  <2>5. Looked(req[s], f, overlapped)
    <3>1. SUFFICES ASSUME req[s].step = "store", req[s].row = 0, req[s].name \notin overlapped
                   PROVE  Named(f, req[s].name) = {}
      BY DEF Looked
    <3>2. req[s].name \in req[s].claims
      BY <2>1, <2>2, <3>1, NameClaimed
    <3>3. req[s].name # m
      <4>1. req[r].claims \cap req[s].claims \subseteq overlapped
        BY <1>5 DEF RowsInv, Apart
      <4> QED
        BY <1>2, <3>1, <3>2, <4>1
    <3>4. Named(rows, req[s].name) = {}
      BY <2>1, <3>1 DEF Fits, Looked
    <3> QED
      BY <1>3, <3>3, <3>4 DEF Named
  <2>6. Deleting(req[s], f, nextId + 1)
    <3>1. req[s].id \in Nat /\ Deleting(req[s], rows, nextId)
      BY <2>1 DEF Fits, Request
    <3> QED
      BY <1>1, <1>3, <3>1 DEF Deleting
  <2> QED
    BY <2>2, <2>3, <2>4, <2>5, <2>6 DEF Fits
<1>6. ASSUME NEW n \in Names \ overlapped PROVE AtMostOne(f, n)
  <2>1. AtMostOne(rows, n)
    BY DEF RowsInv, One
  <2>2. CASE n = m
    BY <1>3, <1>4, <2>2 DEF AtMostOne, Named
  <2>3. CASE n # m
    BY <1>3, <2>1, <2>3 DEF AtMostOne
  <2> QED
    BY <2>2, <2>3
<1> QED
  BY <1>3, <1>5, <1>6 DEF m

\* FileModel.save.
LEMMA StoreRowRows ==
  ASSUME RowsInv, NEW r \in Requests, StoreRow(r)
  PROVE  /\ RowsInv' /\ UNCHANGED <<disk, data, links, overlapped>>
         /\ req[r].step = "store"
         /\ req'[r] = To(req[r], IF req[r].op = "upload" THEN "write" ELSE "link")
         /\ DOMAIN rows \subseteq DOMAIN rows' /\ \A i \in DOMAIN rows : rows'[i] = rows[i]
         /\ \A n \in Names : n # req[r].name => Named(rows', n) = Named(rows, n)
         /\ req[r].row = 0 => Named(rows', req[r].name) # {}
         /\ req[r].row # 0 => rows' = rows
<1> DEFINE to == IF req[r].op = "upload" THEN "write" ELSE "link"
           new == To(req[r], to)
<1>1. /\ req[r].step = "store" /\ Go(r, new)
      /\ UNCHANGED <<disk, data, links, overlapped>>
  BY Zenon DEF StoreRow, At, Go, To
<1>2. /\ req[r] \in Request /\ Fits(req[r], rows, nextId, overlapped) /\ Busy(req[r])
      /\ nextId \in Nat \ {0} /\ rows \in [DOMAIN rows -> Names]
      /\ DOMAIN rows \subseteq 1..(nextId - 1)
      /\ disk \in [Names -> Inodes \cup {0}]
      /\ data \in [Inodes -> SUBSET (Requests \cup {Admin})]
  BY OfRequest DEF Fits
<1>3. to \in Steps /\ to \in {"write", "link"} /\ (to = "write" <=> req[r].op = "upload")
  BY DEF Steps
<1> HIDE DEF to
<1>4. /\ new \in Request /\ new.step = to /\ new.op = req[r].op /\ new.claims = req[r].claims
      /\ new.name = req[r].name /\ new.id = req[r].id /\ new.user = req[r].user
      /\ new.ino = req[r].ino /\ new.todo = req[r].todo
  BY <1>2, <1>3, ToIs
<1> HIDE DEF new
<1>5. Busy(new)
  BY <1>1, <1>2, <1>3, <1>4 DEF Busy, BuildSteps
<1>6. CASE req[r].row = 0
  <2>1. /\ rows' = [i \in DOMAIN rows \cup {nextId} |->
                      IF i = nextId THEN req[r].name ELSE rows[i]]
        /\ nextId' = nextId + 1
    BY <1>6 DEF StoreRow
  <2>2. /\ DOMAIN rows' = DOMAIN rows \cup {nextId} /\ rows' \in [DOMAIN rows' -> Names]
        /\ rows'[nextId] = req[r].name /\ \A i \in DOMAIN rows : i # nextId /\ rows'[i] = rows[i]
        /\ \A s \in Requests : s # r => Fits(req[s], rows', nextId + 1, overlapped)
        /\ \A n \in Names \ overlapped : AtMostOne(rows', n)
    BY <1>1, <1>6, <2>1, RowAdded
  <2>3. Wanted(new, rows', nextId + 1)
    <3>1. ASSUME NEW c \in new.todo
          PROVE  IF c.user THEN /\ c.id < nextId + 1
                                /\ (c.id \in DOMAIN rows' => rows'[c.id] \in new.claims)
                           ELSE c.id \in DOMAIN Suggested /\ Suggested[c.id] \in new.claims
      <4>1. IF c.user THEN c.id < nextId /\ (c.id \in DOMAIN rows => rows[c.id] \in req[r].claims)
                      ELSE c.id \in DOMAIN Suggested /\ Suggested[c.id] \in req[r].claims
        BY <1>2, <1>4 DEF Fits, Wanted
      <4>2. c.id \in Nat
        BY <1>4 DEF Request, Choice
      <4> QED
        BY <1>2, <1>4, <2>2, <4>1, <4>2
    <3> QED
      BY <3>1 DEF Wanted
  <2>4. Chosen(new, rows', overlapped)
    BY <1>1, <1>2, <1>4, <2>2 DEF Fits, Chosen
  <2>5. Looked(new, rows', overlapped)
    BY <1>3, <1>4 DEF Looked
  <2>6. Deleting(new, rows', nextId + 1)
    BY <1>1, <1>2, <1>4 DEF Busy, Deleting, BuildSteps
  <2>7. Fits(new, rows', nextId', overlapped)
    BY <1>5, <2>1, <2>3, <2>4, <2>5, <2>6 DEF Fits
  <2>8. DOMAIN rows' \subseteq 1..(nextId' - 1) /\ nextId' \in Nat \ {0}
    BY <1>2, <2>1, <2>2
  <2>9. \A s \in Requests : s # r => Fits(req[s], rows', nextId', overlapped)
    BY <2>1, <2>2
  <2>10. RowsInv' /\ req'[r] = new
    BY <1>1, <1>4, <2>2, <2>7, <2>8, <2>9, RowsChanged
  <2>11. /\ \A n \in Names : n # req[r].name => Named(rows', n) = Named(rows, n)
         /\ Named(rows', req[r].name) # {}
    BY <2>2 DEF Named
  <2> QED
    BY <1>1, <1>6, <2>2, <2>10, <2>11 DEF new, to
<1>7. CASE req[r].row # 0
  <2>1. UNCHANGED <<rows, nextId>>
    BY <1>7 DEF StoreRow
  <2>2. Fits(new, rows, nextId, overlapped)
    <3>1. Wanted(new, rows, nextId) /\ Chosen(new, rows, overlapped)
      BY <1>1, <1>2, <1>4 DEF Fits, Wanted, Chosen
    <3>2. Looked(new, rows, overlapped)
      BY <1>3, <1>4 DEF Looked
    <3>3. Deleting(new, rows, nextId)
      BY <1>2, <1>4 DEF Fits, Deleting
    <3> QED
      BY <1>5, <3>1, <3>2, <3>3 DEF Fits
  <2>3. RowsInv' /\ req'[r] = new
    BY <1>1, <1>2, <1>4, <2>1, <2>2, GoKept
  <2> QED
    BY <1>1, <1>7, <2>1, <2>3 DEF new, to
<1> QED
  BY <1>2, <1>6, <1>7 DEF Request

\* The bytes are written and the upload is over.
LEMMA WriteFileRows ==
  ASSUME RowsInv, NEW r \in Requests, WriteFile(r)
  PROVE  /\ RowsInv' /\ UNCHANGED <<rows, nextId, disk, links, overlapped>>
         /\ req[r].step = "write" /\ req'[r] = Idle
<1>1. /\ req[r].step = "write" /\ Go(r, Idle)
      /\ UNCHANGED <<rows, nextId, disk, links, overlapped>>
      /\ data' = [data EXCEPT ![req[r].ino] = IF req[r].ino \in RangeOf(disk) THEN @ \cup {r} ELSE @]
  BY Zenon DEF WriteFile, At, Finish, Go
<1>2. /\ disk' \in [Names -> Inodes \cup {0}]
      /\ data' \in [Inodes -> SUBSET (Requests \cup {Admin})]
  BY <1>1, OfRequest
<1> QED
  BY <1>1, <1>2, IdleFits, GoKept

\* The record a delete starts with.
Removing(i, n) == [Idle EXCEPT !.op = "delete", !.step = "remove", !.id = i, !.claims = {n},
                               !.name = n]

\* The record a deletion starts with.
LEMMA DeleteRecord ==
  ASSUME NEW n \in Names, NEW i \in Nat
  PROVE  /\ Removing(i, n) \in Request /\ Removing(i, n).op = "delete"
         /\ Removing(i, n).step = "remove" /\ Removing(i, n).claims = {n}
         /\ Removing(i, n).name = n /\ Removing(i, n).id = i /\ Removing(i, n).ino = 0
         /\ \A f, k, o : i < k /\ f[i] = n => Fits(Removing(i, n), f, k, o)
<1> DEFINE q == Removing(i, n)
<1>1. q.op = "delete" /\ q.step = "remove" /\ q.claims = {n}
  BY DEF Idle, Removing
<1>2. q.name = n /\ q.id = i /\ q.ino = 0 /\ q.todo = {}
  BY DEF Idle, Removing
<1>3. q \in Request
  <2>1. "delete" \in Ops /\ "remove" \in Steps
    BY DEF Ops, Steps
  <2> QED
    BY <2>1, IdleFits DEF Removing, Request
<1> HIDE DEF q
<1>4. Busy(q)
  BY <1>1, <1>2 DEF Busy
<1>5. \A f, k, o : i < k /\ f[i] = n => Fits(q, f, k, o)
  BY <1>1, <1>2, <1>4 DEF Fits, Wanted, Chosen, Looked, Deleting
<1> QED
  BY <1>1, <1>2, <1>3, <1>5 DEF q

\* A deletion works on the name its row has now.
LEMMA DeleteLookupRows ==
  ASSUME RowsInv, NEW r \in Requests, NEW i \in DOMAIN rows, DeleteLookup(r, i)
  PROVE  /\ RowsInv' /\ UNCHANGED <<rows, nextId, disk, data, links>>
         /\ overlapped \subseteq overlapped'
         /\ rows[i] \in Names /\ req'[r].op = "delete" /\ req'[r].step = "remove"
         /\ req'[r].name = rows[i] /\ req'[r].id = i /\ req'[r].ino = 0
         /\ req'[r].claims = {rows[i]}
<1> DEFINE init == Removing(i, rows[i])
<1>1. Start(r, init) /\ UNCHANGED <<rows, nextId, disk, data, links>>
  BY DEF DeleteLookup, Removing
<1>2. rows[i] \in Names /\ i \in Nat /\ i < nextId
  BY OfRequest
<1> HIDE DEF init
<1>3. /\ init \in Request /\ init.op = "delete" /\ init.step = "remove"
      /\ init.claims = {rows[i]} /\ init.name = rows[i] /\ init.id = i /\ init.ino = 0
  BY <1>2, DeleteRecord DEF init
<1>4. Fits(init, rows, nextId, overlapped')
  BY <1>2, DeleteRecord DEF init
<1>5. RowsInv' /\ req'[r] = init /\ overlapped \subseteq overlapped'
  BY <1>1, <1>3, <1>4, OfRequest, StartKept
<1> QED
  BY <1>1, <1>2, <1>3, <1>5

\* A request that goes on to a step without a look-up or a link still fits.
LEMMA ToFits ==
  ASSUME NEW q \in Request, NEW s \in Steps, NEW f, NEW k, NEW o, Fits(q, f, k, o),
         Busy(To(q, s)), s \notin {"find", "store", "link"}
  PROVE  Fits(To(q, s), f, k, o)
<1>1. /\ To(q, s).step = s /\ To(q, s).op = q.op /\ To(q, s).claims = q.claims
      /\ To(q, s).name = q.name /\ To(q, s).id = q.id /\ To(q, s).todo = q.todo
  BY ToIs
<1> QED
  BY <1>1 DEF Fits, Wanted, Chosen, Looked, Deleting

\* os.remove.
LEMMA RemoveFileRows ==
  ASSUME RowsInv, NEW r \in Requests, RemoveFile(r)
  PROVE  /\ RowsInv' /\ UNCHANGED <<rows, nextId, links, overlapped>>
         /\ req[r].step = "remove" /\ req'[r] = To(req[r], "droprow")
         /\ disk' = [disk EXCEPT ![req[r].name] = 0]
         /\ data' = [i \in Inodes |-> IF i = disk[req[r].name] THEN {} ELSE data[i]]
<1> DEFINE new == To(req[r], "droprow")
<1>1. /\ req[r].step = "remove" /\ Go(r, new)
      /\ UNCHANGED <<rows, nextId, links, overlapped>>
      /\ disk' = [disk EXCEPT ![req[r].name] = 0]
      /\ data' = [i \in Inodes |-> IF i = disk[req[r].name] THEN {} ELSE data[i]]
  BY Zenon DEF RemoveFile, At, Go, To
<1>2. /\ disk' \in [Names -> Inodes \cup {0}]
      /\ data' \in [Inodes -> SUBSET (Requests \cup {Admin})]
  BY <1>1, OfRequest
<1>3. "droprow" \in Steps /\ req[r] \in Request /\ Busy(req[r])
      /\ Fits(req[r], rows, nextId, overlapped)
  BY OfRequest DEF Steps, Fits
<1>4. /\ new \in Request /\ new.step = "droprow" /\ new.op = req[r].op
      /\ new.claims = req[r].claims /\ new.name = req[r].name /\ new.ino = req[r].ino
  BY <1>3, ToIs
<1>5. Busy(new)
  <2> HIDE DEF new
  <2> QED
    BY <1>1, <1>3, <1>4 DEF Busy, BuildSteps
<1>6. Fits(new, rows, nextId, overlapped)
  BY <1>3, <1>5, ToFits
<1> HIDE DEF new
<1> QED
  BY <1>1, <1>2, <1>4, <1>6, GoKept DEF new

\* The row is deleted.  Nobody else relies on it, unless the name is raced on.
LEMMA DropRowRows ==
  ASSUME RowsInv, NEW r \in Requests, DropRow(r)
  PROVE  /\ RowsInv' /\ UNCHANGED <<nextId, disk, data, links, overlapped>>
         /\ req[r].step = "droprow" /\ req[r].op = "delete"
         /\ req'[r] = To(req[r], "unlink")
         /\ DOMAIN rows' = DOMAIN rows \ {req[r].id}
         /\ \A i \in DOMAIN rows' : rows'[i] = rows[i]
         /\ req[r].id \in DOMAIN rows => rows[req[r].id] = req[r].name
<1> DEFINE new == To(req[r], "unlink")
           gone == req[r].id
<1>1. /\ req[r].step = "droprow" /\ Go(r, new)
      /\ UNCHANGED <<nextId, disk, data, links, overlapped>>
      /\ rows' = [i \in DOMAIN rows \ {gone} |-> rows[i]]
  BY Zenon DEF DropRow, At, Go, To, Restrict
<1>2. /\ req[r] \in Request /\ Fits(req[r], rows, nextId, overlapped) /\ Busy(req[r])
      /\ nextId \in Nat \ {0} /\ rows \in [DOMAIN rows -> Names]
      /\ DOMAIN rows \subseteq 1..(nextId - 1)
  BY OfRequest DEF Fits
<1>3. "unlink" \in Steps
  BY DEF Steps
<1>4. /\ new \in Request /\ new.step = "unlink" /\ new.op = req[r].op
      /\ new.claims = req[r].claims /\ new.name = req[r].name /\ new.ino = req[r].ino
      /\ new.id = gone /\ new.todo = req[r].todo
  BY <1>2, <1>3, ToIs
<1> HIDE DEF new
<1>5. Busy(new) /\ req[r].op = "delete"
  BY <1>1, <1>2, <1>4 DEF Busy, BuildSteps
<1>6. gone \in DOMAIN rows => rows[gone] = req[r].name
  BY <1>2, <1>5 DEF Fits, Deleting
<1>7. req[r].name \in req[r].claims
  BY <1>1, <1>2, NameClaimed
<1>8. /\ DOMAIN rows' = DOMAIN rows \ {gone} /\ rows' \in [DOMAIN rows' -> Names]
      /\ \A i \in DOMAIN rows' : i \in DOMAIN rows /\ rows'[i] = rows[i]
  BY <1>1, <1>2
<1> HIDE DEF gone
<1>9. ASSUME NEW q, Wanted(q, rows, nextId) PROVE Wanted(q, rows', nextId)
  BY <1>8, <1>9 DEF Wanted
<1>10. ASSUME NEW s \in Requests, s # r PROVE Fits(req[s], rows', nextId, overlapped)
  <2>1. req[s] \in Request /\ Fits(req[s], rows, nextId, overlapped) /\ Busy(req[s])
    BY OfRequest DEF Fits
  <2>2. Wanted(req[s], rows', nextId)
    BY <1>9, <2>1 DEF Fits
  <2>3. Chosen(req[s], rows', overlapped)
    <3>1. SUFFICES ASSUME req[s].op = "save", req[s].step \in {"find", "store", "link"},
                          req[s].user, req[s].name \notin overlapped
                   PROVE  req[s].id \in DOMAIN rows' /\ rows'[req[s].id] = req[s].name
      BY DEF Chosen
    <3>2. req[s].id \in DOMAIN rows /\ rows[req[s].id] = req[s].name
      BY <2>1, <3>1 DEF Fits, Chosen
    <3>3. req[s].name \in req[s].claims
      BY <2>1, <3>1, NameClaimed
    <3>4. req[r].claims \cap req[s].claims \subseteq overlapped
      BY <1>10 DEF RowsInv, Apart
    <3>5. req[s].id # gone
      BY <1>6, <1>7, <3>1, <3>2, <3>3, <3>4
    <3> QED
      BY <1>8, <3>2, <3>5
  <2>4. Looked(req[s], rows', overlapped)
    BY <1>8, <2>1 DEF Fits, Looked, Named
  <2>5. Deleting(req[s], rows', nextId)
    BY <1>8, <2>1 DEF Fits, Deleting
  <2> QED
    BY <2>1, <2>2, <2>3, <2>4, <2>5 DEF Fits
<1>11. Fits(new, rows', nextId', overlapped)
  <2>1. Wanted(new, rows, nextId)
    BY <1>2, <1>4 DEF Fits, Wanted
  <2>2. Chosen(new, rows', overlapped) /\ Looked(new, rows', overlapped)
    BY <1>4 DEF Chosen, Looked
  <2>3. Deleting(new, rows', nextId)
    BY <1>2, <1>4, <1>8 DEF Fits, Deleting, gone
  <2>4. Wanted(new, rows', nextId)
    BY <1>9, <2>1
  <2> QED
    BY <1>1, <1>5, <2>2, <2>3, <2>4 DEF Fits
<1>12. \A n \in Names \ overlapped : AtMostOne(rows', n)
  BY <1>8 DEF RowsInv, One, AtMostOne
<1>13. /\ nextId' \in Nat \ {0} /\ DOMAIN rows' \subseteq 1..(nextId' - 1)
       /\ \A s \in Requests : s # r => Fits(req[s], rows', nextId', overlapped)
  BY <1>1, <1>2, <1>8, <1>10
<1>14. RowsInv' /\ req'[r] = new
  BY <1>1, <1>4, <1>8, <1>11, <1>12, <1>13, RowsChanged
<1> QED
  BY <1>1, <1>5, <1>6, <1>8, <1>14 DEF new, gone

\* The links of a deleted file.
LEMMA DropLinksRows ==
  ASSUME RowsInv, NEW r \in Requests, DropLinks(r)
  PROVE  /\ RowsInv' /\ UNCHANGED <<rows, nextId, disk, data, overlapped>>
         /\ req[r].step = "unlink" /\ req'[r] = Idle
         /\ links' = {l \in links : l.id # req[r].id}
<1>1. /\ req[r].step = "unlink" /\ Go(r, Idle)
      /\ UNCHANGED <<rows, nextId, disk, data, overlapped>>
      /\ links' = {l \in links : l.id # req[r].id}
  BY Zenon DEF DropLinks, At, Finish, Go
<1> QED
  BY <1>1, OfRequest, IdleFits, GoKept

\* The record a save starts with.
Saving(b, sel, names) == [Idle EXCEPT !.op = "save", !.step = "clear", !.build = b,
                                      !.todo = sel, !.claims = names]

\* What a form offers: numbers given before, and the suggested files.
LEMMA OfferedIs ==
  ASSUME RowsInv, NEW sel \in SUBSET Offered
  PROVE  /\ sel \in SUBSET Choice
         /\ UNION {NamesOf(c) : c \in sel} \in SUBSET Names
         /\ \A c \in sel : IF c.user
              THEN c.id < nextId /\ (c.id \in DOMAIN rows => rows[c.id] \in NamesOf(c))
              ELSE c.id \in DOMAIN Suggested /\ Suggested[c.id] \in NamesOf(c)
<1> USE StoreAssumption
<1>1. /\ nextId \in Nat \ {0} /\ rows \in [DOMAIN rows -> Names]
  BY DEF RowsInv, FileType
<1>2. ASSUME NEW c \in sel
      PROVE  /\ c \in Choice /\ NamesOf(c) \subseteq Names
             /\ IF c.user
                THEN c.id < nextId /\ (c.id \in DOMAIN rows => rows[c.id] \in NamesOf(c))
                ELSE c.id \in DOMAIN Suggested /\ Suggested[c.id] \in NamesOf(c)
  <2>1. CASE c \in [id : FirstId..(nextId - 1), user : {TRUE}]
    <3>1. c.id \in FirstId..(nextId - 1)
      BY <2>1
    <3>2. c.user = TRUE
      BY <2>1
    <3>3. c.user \in {TRUE, FALSE}
      BY <3>2, Zenon
    <3>4. c.id \in Nat /\ c.id < nextId
      BY <1>1, <3>1
    <3>5. c = [id |-> c.id, user |-> c.user]
      BY <2>1
    <3>6. c \in Choice
      BY <3>3, <3>4, <3>5, Zenon DEF Choice
    <3>7. NamesOf(c) = {rows[i] : i \in DOMAIN rows \cap {c.id}}
      BY <3>2, Zenon DEF NamesOf
    <3>8. NamesOf(c) \subseteq Names /\ (c.id \in DOMAIN rows => rows[c.id] \in NamesOf(c))
      BY <1>1, <3>7
    <3> QED
      BY <3>2, <3>4, <3>6, <3>8, Zenon
  <2>2. CASE c \in [id : DOMAIN Suggested, user : {FALSE}]
    <3>1. c.id \in DOMAIN Suggested
      BY <2>2
    <3>2. c.user = FALSE
      BY <2>2
    <3>3. c.user \in {TRUE, FALSE}
      BY <3>2, Zenon
    <3>4. c.id \in Nat
      BY <1>1, <3>1
    <3>5. c = [id |-> c.id, user |-> c.user]
      BY <2>2
    <3>6. c \in Choice
      BY <3>3, <3>4, <3>5, Zenon DEF Choice
    <3>7. NamesOf(c) = {Suggested[i] : i \in DOMAIN Suggested \cap {c.id}}
      BY <3>2, Zenon DEF NamesOf
    <3>8. NamesOf(c) \subseteq Names /\ Suggested[c.id] \in NamesOf(c)
      BY <3>1, <3>7
    <3> QED
      BY <3>1, <3>2, <3>6, <3>8, Zenon
  <2> QED
    BY <2>1, <2>2 DEF Offered
<1> QED
  BY <1>2

\* The record a save starts with.
LEMMA SavingIsRequest ==
  ASSUME NEW b \in Builds, NEW names \in SUBSET Names, NEW sel \in SUBSET Choice
  PROVE  Saving(b, sel, names) \in Request
<1>1. "save" \in Ops /\ "clear" \in Steps /\ Idle \in Request
  BY IdleFits DEF Ops, Steps
<1>2. b \in Nat
  BY PipelineAssumption
<1> QED
  BY <1>1, <1>2 DEF Saving, Request

\* That record fits the table it was chosen from.
LEMMA SaveRecord ==
  ASSUME RowsInv, NEW sel \in SUBSET Offered, NEW b \in Builds,
         NEW names, names = UNION {NamesOf(c) : c \in sel}
  PROVE  /\ Saving(b, sel, names) \in Request /\ Saving(b, sel, names).op = "save"
         /\ Saving(b, sel, names).step = "clear" /\ Saving(b, sel, names).ino = 0
         /\ Saving(b, sel, names).build = b /\ Saving(b, sel, names).todo = sel
         /\ \A o : Fits(Saving(b, sel, names), rows, nextId, o)
<1> DEFINE q == Saving(b, sel, names)
<1>1. q.op = "save" /\ q.step = "clear" /\ q.ino = 0 /\ q.build = b
  BY DEF Idle, Saving
<1>2. q.todo = sel /\ q.claims = names
  BY DEF Idle, Saving
<1>3. /\ sel \in SUBSET Choice /\ names \in SUBSET Names
  BY OfferedIs
<1>4. q \in Request
  BY <1>3, SavingIsRequest
<1> HIDE DEF q
<1>5. Busy(q)
  BY <1>1 DEF Busy
<1>6. Wanted(q, rows, nextId)
  <2>1. \A c \in sel : IF c.user
          THEN c.id < nextId /\ (c.id \in DOMAIN rows => rows[c.id] \in NamesOf(c))
          ELSE c.id \in DOMAIN Suggested /\ Suggested[c.id] \in NamesOf(c)
    BY OfferedIs
  <2> QED
    BY <1>2, <2>1, names = UNION {NamesOf(c) : c \in sel} DEF Wanted
<1>7. \A o : Fits(q, rows, nextId, o)
  BY <1>1, <1>5, <1>6 DEF Fits, Chosen, Looked, Deleting
<1> QED
  BY <1>1, <1>2, <1>4, <1>7 DEF q

\* A save claims the names its selection stands for.
LEMMA SelectFilesRows ==
  ASSUME RowsInv, NEW r \in Requests, NEW b \in Builds, NEW sel \in SUBSET Offered,
         SelectFiles(r, b, sel)
  PROVE  /\ RowsInv' /\ UNCHANGED <<rows, nextId, disk, data, links>>
         /\ overlapped \subseteq overlapped'
         /\ req'[r].op = "save" /\ req'[r].ino = 0 /\ req'[r].step = "clear"
<1> DEFINE names == UNION {NamesOf(c) : c \in sel}
           init  == Saving(b, sel, names)
<1>1. Start(r, init) /\ UNCHANGED <<rows, nextId, disk, data, links>>
  BY DEF SelectFiles, Saving
<1> HIDE DEF init
<1>2. /\ init \in Request /\ init.op = "save" /\ init.step = "clear" /\ init.ino = 0
      /\ Fits(init, rows, nextId, overlapped')
  BY SaveRecord DEF init
<1>3. RowsInv' /\ req'[r] = init /\ overlapped \subseteq overlapped'
  BY <1>1, <1>2, OfRequest, StartKept
<1> QED
  BY <1>1, <1>2, <1>3

\* The links of the build are dropped before they are made anew.
LEMMA ClearLinksRows ==
  ASSUME RowsInv, NEW r \in Requests, ClearLinks(r)
  PROVE  /\ RowsInv' /\ UNCHANGED <<rows, nextId, disk, data, overlapped>>
         /\ req[r].step = "clear" /\ req[r].op = "save" /\ req'[r] = To(req[r], "pick")
         /\ links' \subseteq links
<1> DEFINE new == To(req[r], "pick")
<1>1. /\ req[r].step = "clear" /\ Go(r, new)
      /\ UNCHANGED <<rows, nextId, disk, data, overlapped>>
      /\ links' = {l \in links : l.build # req[r].build}
  BY Zenon DEF ClearLinks, At, Go, To
<1>2. "pick" \in Steps /\ req[r] \in Request /\ Busy(req[r])
      /\ Fits(req[r], rows, nextId, overlapped)
  BY OfRequest DEF Steps, Fits
<1>3. /\ new \in Request /\ new.step = "pick" /\ new.op = req[r].op
      /\ new.claims = req[r].claims /\ new.name = req[r].name /\ new.ino = req[r].ino
  BY <1>2, ToIs
<1>4. Busy(new) /\ req[r].op = "save"
  <2> HIDE DEF new
  <2> QED
    BY <1>1, <1>2, <1>3 DEF Busy, BuildSteps
<1>5. Fits(new, rows, nextId, overlapped)
  BY <1>2, <1>4, ToFits
<1> HIDE DEF new
<1> QED
  BY <1>1, <1>3, <1>4, <1>5, OfRequest, GoKept DEF new

\* A save takes up the next file of the form.
TakingOwn(q, c, n) == [q EXCEPT !.step = "find", !.id = c.id, !.user = TRUE, !.name = n,
                          !.todo = @ \ {c}]

TookOwn(p, q, c, n) ==
  /\ p \in Request /\ p.step = "find" /\ p.op = q.op /\ p.claims = q.claims /\ p.name = n
  /\ p.id = c.id /\ p.user /\ p.ino = q.ino /\ p.todo = q.todo \ {c}

\* The fields of the record that goes on with a file of the user.
LEMMA TakingOwnIs ==
  ASSUME NEW q \in Request, NEW c \in q.todo, NEW n \in Names
  PROVE  TookOwn(TakingOwn(q, c, n), q, c, n)
<1>1. c.id \in Nat /\ "find" \in Steps
  BY DEF Request, Choice, Steps
<1>2. q.todo \ {c} \in SUBSET Choice
  BY DEF Request
<1> QED
  BY <1>1, <1>2 DEF TakingOwn, TookOwn, Request

TakingSuggested(q, c, n) == [q EXCEPT !.step = "link", !.id = c.id, !.user = FALSE, !.name = n,
                          !.todo = @ \ {c}]

TookSuggested(p, q, c, n) ==
  /\ p \in Request /\ p.step = "link" /\ p.op = q.op /\ p.claims = q.claims /\ p.name = n
  /\ p.id = c.id /\ ~p.user /\ p.ino = q.ino /\ p.todo = q.todo \ {c}

\* The fields of the record that goes on with a suggested file.
LEMMA TakingSuggestedIs ==
  ASSUME NEW q \in Request, NEW c \in q.todo, NEW n \in Names
  PROVE  TookSuggested(TakingSuggested(q, c, n), q, c, n)
<1>1. c.id \in Nat /\ "link" \in Steps
  BY DEF Request, Choice, Steps
<1>2. q.todo \ {c} \in SUBSET Choice
  BY DEF Request
<1> QED
  BY <1>1, <1>2 DEF TakingSuggested, TookSuggested, Request

\* getDirFile of a user's file.
LEMMA PickUserRows ==
  ASSUME RowsInv, NEW r \in Requests, PickUser(r)
  PROVE  /\ RowsInv' /\ UNCHANGED <<rows, nextId, disk, data, links, overlapped>>
         /\ req[r].step = "pick" /\ req[r].op = "save"
         /\ \/ req'[r] = Idle
            \/ req'[r].op = "save" /\ req'[r].step = "find" /\ req'[r].ino = 0
<1>1. /\ req[r].step = "pick"
      /\ UNCHANGED <<rows, nextId, disk, data, links>>
  BY DEF PickUser, At
<1>2. /\ req[r] \in Request /\ Fits(req[r], rows, nextId, overlapped) /\ Busy(req[r])
      /\ nextId \in Nat \ {0} /\ rows \in [DOMAIN rows -> Names]
      /\ disk \in [Names -> Inodes \cup {0}]
      /\ data \in [Inodes -> SUBSET (Requests \cup {Admin})]
  BY OfRequest DEF Fits
<1>3. req[r].op = "save" /\ req[r].ino = 0
  BY <1>1, <1>2 DEF Busy, BuildSteps
<1>4. PICK c \in req[r].todo :
        /\ c.user
        /\ IF c.id \in DOMAIN rows
           THEN Go(r, TakingOwn(req[r], c, rows[c.id])) ELSE Go(r, Idle)
  BY Zenon DEF PickUser, TakingOwn, Finish
<1>5. CASE c.id \in DOMAIN rows
  <2> DEFINE new == TakingOwn(req[r], c, rows[c.id])
  <2>1. Go(r, new) /\ rows[c.id] \in Names /\ overlapped' = overlapped
    BY <1>2, <1>4, <1>5 DEF Go
  <2>2. rows[c.id] \in req[r].claims
    BY <1>2, <1>4, <1>5 DEF Fits, Wanted
  <2>3. /\ new \in Request /\ new.step = "find" /\ new.op = req[r].op
        /\ new.claims = req[r].claims /\ new.name = rows[c.id] /\ new.id = c.id
        /\ new.user /\ new.ino = req[r].ino /\ new.todo = req[r].todo \ {c}
    <3>1. TookOwn(new, req[r], c, rows[c.id])
      BY <1>2, <2>1, TakingOwnIs, Zenon
    <3> HIDE DEF new
    <3> QED
      BY <3>1 DEF TookOwn
  <2> HIDE DEF new
  <2>4. Busy(new)
    BY <1>3, <2>2, <2>3 DEF Busy
  <2>5. Wanted(new, rows, nextId)
    BY <1>2, <2>3 DEF Fits, Wanted
  <2>6. Chosen(new, rows, overlapped) /\ Looked(new, rows, overlapped)
    BY <1>5, <2>3 DEF Chosen, Looked
  <2>7. Deleting(new, rows, nextId)
    BY <1>3, <2>3 DEF Deleting
  <2>8. Fits(new, rows, nextId, overlapped)
    BY <2>4, <2>5, <2>6, <2>7 DEF Fits
  <2>9. RowsInv' /\ req'[r] = new
    BY <1>1, <1>2, <2>1, <2>3, <2>8, GoKept
  <2> QED
    BY <1>1, <1>3, <2>1, <2>3, <2>9
<1>6. CASE c.id \notin DOMAIN rows
  <2>1. Go(r, Idle) /\ overlapped' = overlapped
    BY <1>4, <1>6 DEF Go
  <2>2. RowsInv' /\ req'[r] = Idle
    BY <1>1, <1>2, <2>1, IdleFits, GoKept
  <2> QED
    BY <1>1, <1>3, <2>1, <2>2
<1> QED
  BY <1>5, <1>6

\* copyPathSuggestedFile.
LEMMA PickSuggestedRows ==
  ASSUME RowsInv, NEW r \in Requests, PickSuggested(r)
  PROVE  /\ RowsInv' /\ UNCHANGED <<rows, nextId, links, overlapped>>
         /\ req[r].step = "pick" /\ req[r].op = "save"
         /\ req'[r].op = "save" /\ req'[r].step = "link" /\ req'[r].ino = 0
         /\ \A s \in Requests : s # r => req'[s] = req[s]
         /\ \E n \in Names :
              LET ino == IF disk[n] = 0 THEN FreeInode ELSE disk[n] IN
              /\ n \in req'[r].claims /\ n \in RangeOf(Suggested)
              /\ \/ disk' = [disk EXCEPT ![n] = ino] /\ data' = [data EXCEPT ![ino] = {Admin}]
                 \/ disk[n] # 0 /\ UNCHANGED <<disk, data>>
<1> USE StoreAssumption
<1>1. /\ req[r].step = "pick" /\ UNCHANGED <<rows, nextId, links>>
  BY DEF PickSuggested, At
<1>2. /\ req[r] \in Request /\ Fits(req[r], rows, nextId, overlapped) /\ Busy(req[r])
      /\ disk \in [Names -> Inodes \cup {0}]
      /\ data \in [Inodes -> SUBSET (Requests \cup {Admin})]
  BY OfRequest DEF Fits
<1>3. req[r].op = "save" /\ req[r].ino = 0
  BY <1>1, <1>2 DEF Busy, BuildSteps
<1> DEFINE Ino(n) == IF disk[n] = 0 THEN FreeInode ELSE disk[n]
<1>4. PICK c \in req[r].todo :
        /\ ~c.user
        /\ Go(r, TakingSuggested(req[r], c, Suggested[c.id]))
        /\ \/ /\ disk' = [disk EXCEPT ![Suggested[c.id]] = Ino(Suggested[c.id])]
              /\ data' = [data EXCEPT ![Ino(Suggested[c.id])] = {Admin}]
           \/ disk[Suggested[c.id]] # 0 /\ UNCHANGED <<disk, data>>
  BY Zenon DEF PickSuggested, TakingSuggested
<1> DEFINE n   == Suggested[c.id]
           ino == Ino(n)
           new == TakingSuggested(req[r], c, n)
<1>5. n \in req[r].claims /\ n \in Names /\ n \in RangeOf(Suggested)
  BY <1>2, <1>4 DEF Fits, Wanted, RangeOf
<1>6. /\ Go(r, new) /\ overlapped' = overlapped /\ \A s \in Requests : s # r => req'[s] = req[s]
      /\ \/ disk' = [disk EXCEPT ![n] = ino] /\ data' = [data EXCEPT ![ino] = {Admin}]
         \/ disk[n] # 0 /\ UNCHANGED <<disk, data>>
  BY <1>4, OfRequest DEF Go
<1> HIDE DEF n
<1>7. ino \in Inodes /\ ino # 0
  BY <1>5, OpenedInode
<1>8. /\ disk' \in [Names -> Inodes \cup {0}]
      /\ data' \in [Inodes -> SUBSET (Requests \cup {Admin})]
  <2> HIDE DEF ino
  <2> QED
    BY <1>2, <1>5, <1>6, <1>7
<1>9. /\ new \in Request /\ new.step = "link" /\ new.op = req[r].op
      /\ new.claims = req[r].claims /\ new.name = n /\ ~new.user
      /\ new.ino = req[r].ino /\ new.todo = req[r].todo \ {c}
  <2>1. TookSuggested(new, req[r], c, n)
    BY <1>2, <1>5, TakingSuggestedIs, Zenon
  <2> HIDE DEF new
  <2> QED
    BY <2>1 DEF TookSuggested
<1> HIDE DEF new, ino
<1>10. Fits(new, rows, nextId, overlapped)
  <2>1. Busy(new)
    BY <1>3, <1>5, <1>9 DEF Busy
  <2>2. Wanted(new, rows, nextId)
    BY <1>2, <1>9 DEF Fits, Wanted
  <2>3. Chosen(new, rows, overlapped) /\ Looked(new, rows, overlapped)
    BY <1>9 DEF Chosen, Looked
  <2>4. Deleting(new, rows, nextId)
    BY <1>3, <1>9 DEF Deleting
  <2> QED
    BY <2>1, <2>2, <2>3, <2>4 DEF Fits
<1>11. RowsInv' /\ req'[r] = new
  BY <1>1, <1>6, <1>8, <1>9, <1>10, GoKept
<1> QED
  BY <1>1, <1>3, <1>5, <1>6, <1>9, <1>11 DEF ino

\* saveBuildFile.
LEMMA AddLinkRows ==
  ASSUME RowsInv, NEW r \in Requests, AddLink(r)
  PROVE  /\ RowsInv' /\ UNCHANGED <<rows, nextId, disk, data, overlapped>>
         /\ req[r].step = "link" /\ req[r].op = "save"
         /\ req'[r].op = "save" /\ req'[r].step = "pick" /\ req'[r].ino = 0
         /\ links' = links \cup {[build |-> req[r].build, id |-> req[r].id, user |-> req[r].user]}
<1> DEFINE new == [req[r] EXCEPT !.step = "pick", !.name = NoName, !.id = 0, !.row = 0]
<1>1. /\ req[r].step = "link" /\ Go(r, new)
      /\ UNCHANGED <<rows, nextId, disk, data, overlapped>>
      /\ links' = links \cup {[build |-> req[r].build, id |-> req[r].id, user |-> req[r].user]}
  BY Zenon DEF AddLink, At, Go
<1>2. /\ req[r] \in Request /\ Fits(req[r], rows, nextId, overlapped) /\ Busy(req[r])
      /\ "pick" \in Steps
  BY OfRequest DEF Fits, Steps
<1>3. req[r].op = "save" /\ req[r].ino = 0
  BY <1>1, <1>2 DEF Busy, BuildSteps
<1>4. /\ new \in Request /\ new.step = "pick" /\ new.op = req[r].op
      /\ new.claims = req[r].claims /\ new.ino = req[r].ino /\ new.todo = req[r].todo
  BY <1>2 DEF Request
<1> HIDE DEF new
<1>5. Fits(new, rows, nextId, overlapped)
  <2>1. Busy(new)
    BY <1>3, <1>4 DEF Busy
  <2>2. Wanted(new, rows, nextId)
    BY <1>2, <1>4 DEF Fits, Wanted
  <2>3. Chosen(new, rows, overlapped) /\ Looked(new, rows, overlapped)
    BY <1>4 DEF Chosen, Looked
  <2>4. Deleting(new, rows, nextId)
    BY <1>3, <1>4 DEF Deleting
  <2> QED
    BY <2>1, <2>2, <2>3, <2>4 DEF Fits
<1>6. RowsInv' /\ req'[r] = new
  BY <1>1, <1>4, <1>5, OfRequest, GoKept
<1> QED
  BY <1>1, <1>3, <1>4, <1>6

-----------------------------------------------------------------------------
(***************************************************************************)
(* Everything else: the builds                                             *)
(***************************************************************************)

\* What a step of a build does to the files: nothing, but it may drop links.
BuildEnds == {"rmtree", "droprow2", "droplinks2"}

Moved(r) ==
  /\ UNCHANGED <<rows, nextId, disk, data>> /\ links' \subseteq links
  /\ req[r].step \in {"pick"} \cup BuildSteps \cup BuildEnds
  /\ \/ UNCHANGED <<req, overlapped>>
     \/ Go(r, Idle)
     \/ \E s \in BuildSteps : /\ req[r].step \in {"pick"} \cup BuildSteps
                              /\ Go(r, To(req[r], s))
     \/ \E s \in BuildEnds  : /\ req[r].step \in BuildEnds
                              /\ Go(r, To(req[r], s))

BuildStep(r) ==
  \/ Fetch(r) \/ MakeDir(r) \/ CopyBase(r) \/ ClearRomfs(r) \/ ListFiles(r) \/ CopyFile(r)
  \/ WriteConf(r) \/ StoreConfigs(r) \/ Scons(r) \/ CheckBin(r) \/ Pack(r) \/ MoveBack(r)
  \/ RemoveTree(r) \/ DropBuildRow(r) \/ DropBuildLinks(r)

\* Every step of a build is of the form Moved allows.
LEMMA BuildStepMoves == ASSUME NEW r \in Requests, BuildStep(r) PROVE Moved(r)
<1> USE DEF At, Step, Finish, To
<1>1. /\ "mkdir" \in BuildSteps /\ "base" \in BuildSteps /\ "clearrom" \in BuildSteps
      /\ "list" \in BuildSteps /\ "copy" \in BuildSteps /\ "conf" \in BuildSteps
      /\ "scons" \in BuildSteps /\ "check" \in BuildSteps /\ "pack" \in BuildSteps
      /\ "back" \in BuildSteps
  BY DEF BuildSteps
<1>2. "rmtree" \in BuildEnds /\ "droprow2" \in BuildEnds /\ "droplinks2" \in BuildEnds
  BY DEF BuildEnds
<1>3. CASE Fetch(r)  BY <1>1, <1>3, Zenon DEF Fetch, Picked, Fail, Moved, fileVars
<1>4. CASE MakeDir(r)  BY <1>1, <1>4, Zenon DEF MakeDir, Moved, fileVars
<1>5. CASE CopyBase(r)  BY <1>1, <1>5, Zenon DEF CopyBase, Moved, fileVars
<1>6. CASE ClearRomfs(r)  BY <1>1, <1>6, Zenon DEF ClearRomfs, Moved, fileVars
<1>7. CASE ListFiles(r)  BY <1>1, <1>7, Zenon DEF ListFiles, Moved, fileVars
<1>8. CASE CopyFile(r)
  <2>1. /\ UNCHANGED <<rows, nextId, disk, data, links>> /\ req[r].step = "copy"
        /\ Go(r, Idle) \/ UNCHANGED <<req, overlapped>>
    BY <1>8, Zenon DEF CopyFile, Fail, fileVars
  <2> QED
    BY <1>1, <2>1, Zenon DEF Moved
<1>9. CASE WriteConf(r)  BY <1>1, <1>9, Zenon DEF WriteConf, Moved, fileVars
<1>10. CASE StoreConfigs(r)  BY <1>1, <1>10, Zenon DEF StoreConfigs, Moved, fileVars
<1>11. CASE Scons(r)  BY <1>1, <1>11, Zenon DEF Scons, Moved, fileVars
<1>12. CASE CheckBin(r)
  <2>1. /\ UNCHANGED <<rows, nextId, disk, data, links>> /\ req[r].step = "check"
        /\ Go(r, Idle) \/ Go(r, To(req[r], "pack"))
    BY <1>12, Zenon DEF CheckBin, Fail, fileVars
  <2> QED
    BY <1>1, <2>1, Zenon DEF Moved
<1>13. CASE Pack(r)  BY <1>1, <1>13, Zenon DEF Pack, Moved, fileVars
<1>14. CASE MoveBack(r)
  <2>1. /\ UNCHANGED <<rows, nextId, disk, data, links>> /\ req[r].step = "back" /\ Go(r, Idle)
    BY <1>14, Zenon DEF MoveBack, fileVars
  <2> QED
    BY <1>1, <2>1, Zenon DEF Moved
<1>15. CASE RemoveTree(r)  BY <1>2, <1>15, Zenon DEF RemoveTree, Moved, fileVars
<1>16. CASE DropBuildRow(r)  BY <1>2, <1>16, Zenon DEF DropBuildRow, Moved, fileVars
<1>17. CASE DropBuildLinks(r)
  <2>1. /\ UNCHANGED <<rows, nextId, disk, data>> /\ req[r].step = "droplinks2" /\ Go(r, Idle)
        /\ links' = {l \in links : l.build # req[r].build}
    BY <1>17, Zenon DEF DropBuildLinks
  <2>2. links' \subseteq links
    BY <2>1
  <2> QED
    BY <1>2, <2>1, <2>2, Zenon DEF Moved
<1> QED
  BY <1>3, <1>4, <1>5, <1>6, <1>7, <1>8, <1>9, <1>10, <1>11, <1>12, <1>13, <1>14, <1>15,
     <1>16, <1>17, Zenon DEF BuildStep

\* After such a step the table still fits every request.
LEMMA MovedRows ==
  ASSUME RowsInv, NEW r \in Requests, Moved(r)
  PROVE  /\ RowsInv' /\ UNCHANGED <<rows, nextId, disk, data, overlapped>>
         /\ req[r].op \in {"save", "deletebuild"}
         /\ \/ req'[r] = Idle
            \/ req'[r].op = req[r].op /\ req'[r].ino = 0
<1>1. /\ UNCHANGED <<rows, nextId, disk, data>>
      /\ req[r].step \in {"pick"} \cup BuildSteps \cup BuildEnds
  BY DEF Moved
<1>2. /\ req[r] \in Request /\ Fits(req[r], rows, nextId, overlapped) /\ Busy(req[r])
      /\ disk \in [Names -> Inodes \cup {0}]
      /\ data \in [Inodes -> SUBSET (Requests \cup {Admin})]
  BY OfRequest DEF Fits
<1>3. req[r].op \in {"save", "deletebuild"} /\ req[r].ino = 0
  BY <1>1, <1>2 DEF Busy, BuildSteps, BuildEnds
<1>4. CASE UNCHANGED <<req, overlapped>>
  <2>1. RowsInv'
    BY <1>1, <1>4 DEF RowsInv, FileType, Fitting, Apart, One
  <2> QED
    BY <1>1, <1>3, <1>4, <2>1
<1>5. CASE Go(r, Idle)
  <2>1. RowsInv' /\ req'[r] = Idle
    BY <1>1, <1>2, <1>5, IdleFits, GoKept
  <2> QED
    BY <1>1, <1>3, <1>5, <2>1 DEF Go
<1>6. ASSUME NEW s \in BuildSteps \cup BuildEnds, Go(r, To(req[r], s)), Busy(To(req[r], s))
      PROVE  /\ RowsInv' /\ req'[r].op = req[r].op /\ req'[r].ino = 0
             /\ overlapped' = overlapped
  <2> DEFINE new == To(req[r], s)
  <2>1. s \in Steps /\ s \notin {"find", "store", "link"}
    BY DEF Steps, BuildSteps, BuildEnds
  <2>2. new \in Request /\ new.op = req[r].op /\ new.ino = req[r].ino /\ new.claims = req[r].claims
    BY <1>2, <2>1, ToIs
  <2>3. Fits(new, rows, nextId, overlapped)
    BY <1>2, <1>6, <2>1, ToFits
  <2> HIDE DEF new
  <2>4. Go(r, new)
    BY <1>6 DEF new
  <2>5. RowsInv' /\ req'[r] = new
    BY <1>1, <1>2, <2>2, <2>3, <2>4, GoKept
  <2> QED
    BY <1>3, <2>2, <2>4, <2>5 DEF Go
<1>7. ASSUME NEW s \in BuildSteps, req[r].step \in {"pick"} \cup BuildSteps
      PROVE  Busy(To(req[r], s))
  <2>1. s \in Steps
    BY DEF Steps
  <2>2. /\ To(req[r], s).step = s /\ To(req[r], s).op = req[r].op
        /\ To(req[r], s).claims = req[r].claims /\ To(req[r], s).ino = req[r].ino
    BY <1>2, <2>1, ToIs
  <2> QED
    BY <1>2, <1>7, <2>2 DEF Busy, BuildSteps
<1>8. ASSUME NEW s \in BuildEnds, req[r].step \in BuildEnds
      PROVE  Busy(To(req[r], s))
  <2>1. s \in Steps
    BY DEF Steps, BuildEnds
  <2>2. /\ To(req[r], s).step = s /\ To(req[r], s).op = req[r].op
        /\ To(req[r], s).claims = req[r].claims /\ To(req[r], s).ino = req[r].ino
    BY <1>2, <2>1, ToIs
  <2> QED
    BY <1>2, <1>8, <2>2 DEF Busy, BuildSteps, BuildEnds
<1>9. \/ UNCHANGED <<req, overlapped>> \/ Go(r, Idle)
      \/ \E s \in BuildSteps \cup BuildEnds : Go(r, To(req[r], s)) /\ Busy(To(req[r], s))
  BY <1>7, <1>8, Zenon DEF Moved
<1> QED
  BY <1>1, <1>3, <1>4, <1>5, <1>6, <1>9

\* A killed request leaves the table as it is.
LEMMA CrashRows == ASSUME RowsInv, NEW r \in Requests, Crash(r) PROVE RowsInv'
<1>1. Go(r, Idle) /\ UNCHANGED <<rows, nextId, disk, data>>
  BY Zenon DEF Crash, Fail, Finish, fileVars
<1> QED
  BY <1>1, OfRequest, IdleFits, GoKept

\* The record a request to delete a build starts with.
DeletingBuild(b) == [Idle EXCEPT !.op = "deletebuild", !.step = "rmtree", !.build = b]

\* The deletion of a build claims no file.
LEMMA DeleteBuildRows ==
  ASSUME RowsInv, NEW r \in Requests, NEW b \in Builds, DeleteBuild(r, b)
  PROVE  /\ RowsInv' /\ UNCHANGED <<rows, nextId, disk, data, links>>
         /\ overlapped \subseteq overlapped'
         /\ req'[r].op = "deletebuild" /\ req'[r].ino = 0
<1> DEFINE init == DeletingBuild(b)
<1>1. Start(r, init) /\ UNCHANGED <<rows, nextId, disk, data, links>>
  BY Zenon DEF DeleteBuild, DeletingBuild, fileVars
<1>2. /\ init.op = "deletebuild" /\ init.step = "rmtree" /\ init.claims = {} /\ init.ino = 0
      /\ init.todo = {}
  BY DEF DeletingBuild, Idle
<1>3. init \in Request
  <2>1. "deletebuild" \in Ops /\ "rmtree" \in Steps /\ b \in Nat /\ Idle \in Request
    BY IdleFits, PipelineAssumption DEF Ops, Steps
  <2> QED
    BY <2>1 DEF DeletingBuild, Request
<1> HIDE DEF init
<1>4. Busy(init)
  BY <1>2 DEF Busy
<1>5. Fits(init, rows, nextId, overlapped')
  BY <1>2, <1>4 DEF Fits, Wanted, Chosen, Looked, Deleting
<1>6. RowsInv' /\ req'[r] = init /\ overlapped \subseteq overlapped'
  BY <1>1, <1>3, <1>5, OfRequest, StartKept
<1> QED
  BY <1>1, <1>2, <1>6

-----------------------------------------------------------------------------
(***************************************************************************)
(* RowsInv is inductive                                                    *)
(***************************************************************************)
LEMMA InitRows == PInit => RowsInv
<1> SUFFICES ASSUME PInit PROVE RowsInv
  OBVIOUS
<1> USE StoreAssumption
<1>1. /\ rows = <<>> /\ nextId = FirstId /\ disk = [n \in Names |-> 0]
      /\ data = [i \in Inodes |-> {}] /\ req = [r \in Requests |-> Idle] /\ overlapped = {}
  BY DEF PInit, Init
<1>2. DOMAIN rows = {} /\ rows \in [DOMAIN rows -> Names]
  BY <1>1
<1>3. FileType
  <2>1. req \in [Requests -> Request]
    BY <1>1, IdleFits
  <2>2. disk \in [Names -> Inodes \cup {0}] /\ data \in [Inodes -> SUBSET (Requests \cup {Admin})]
    BY <1>1
  <2> QED
    BY <1>1, <1>2, <2>1, <2>2 DEF FileType
<1>4. Fitting
  BY <1>1, IdleFits DEF Fitting
<1>5. Apart
  BY <1>1, IdleFits DEF Apart
<1>6. One
  BY <1>2 DEF One, AtMostOne
<1> QED
  BY <1>3, <1>4, <1>5, <1>6 DEF RowsInv

\* The steps of files, and the starts, as the proofs below take them one by one.
Upload(r)    == \E n \in Names : UploadOpen(r, n)
Delete(r)    == \E i \in DOMAIN rows : DeleteLookup(r, i)
Save(r)      == \E b \in Builds, sel \in SUBSET Offered : SelectFiles(r, b, sel)
DropBuild(r) == \E b \in Builds : DeleteBuild(r, b)

FileStart(r) == Upload(r) \/ Delete(r) \/ Save(r) \/ DropBuild(r)

\* Every step is a start, a step on the files, a step of a build, or a crash.
LEMMA StepsAre ==
  ASSUME PNext
  PROVE  \E r \in Requests : FileStart(r) \/ FileStep(r) \/ BuildStep(r) \/ Crash(r)
<1>1. PICK r \in Requests : PStart(r) \/ PStep(r) \/ Crash(r)
  BY Zenon DEF PNext
<1>2. CASE PStart(r)
  <2>1. CASE \E b \in Builds, t \in Targets, sel \in SUBSET Offered :
               /\ Cardinality(sel) <= MaxSelected
               /\ \E auto \in sel \cup {NoAutorun} : SaveBuild(r, b, t, sel, auto)
    <3>1. PICK b \in Builds, t \in Targets, sel \in SUBSET Offered :
                 \E auto : SaveBuild(r, b, t, sel, auto)
      BY <2>1
    <3>2. SelectFiles(r, b, sel)
      BY <3>1, Zenon DEF SaveBuild
    <3> QED
      BY <3>2, Zenon DEF Save, FileStart
  <2>2. CASE \E b \in Builds : DeleteBuild(r, b)
    BY <2>2, Zenon DEF FileStart, DropBuild
  <2>3. CASE (\E n \in Names : UploadOpen(r, n)) \/ \E i \in DOMAIN rows : DeleteLookup(r, i)
    BY <2>3, Zenon DEF FileStart, Upload, Delete
  <2> QED
    BY <1>2, <2>1, <2>2, <2>3, Zenon DEF PStart
<1>3. CASE PStep(r)
  BY <1>3, Zenon DEF PStep, BuildStep
<1> QED
  BY <1>1, <1>2, <1>3, Zenon

\* Every step keeps the invariant of the table, a killed request too.
LEMMA NextRows == RowsInv /\ [PNext]_allVars => RowsInv'
<1> SUFFICES ASSUME RowsInv, [PNext]_allVars PROVE RowsInv'
  OBVIOUS
<1>1. CASE UNCHANGED allVars
  BY <1>1 DEF allVars, vars, RowsInv, FileType, Fitting, Apart, One
<1>2. CASE PNext
  <2>1. PICK r \in Requests : FileStart(r) \/ FileStep(r) \/ BuildStep(r) \/ Crash(r)
    BY <1>2, StepsAre
  <2>2. CASE FileStart(r)
    <3>1. CASE Upload(r)  BY <3>1, UploadOpenRows, Zenon DEF Upload
    <3>2. CASE Delete(r)  BY <3>2, DeleteLookupRows, Zenon DEF Delete
    <3>3. CASE Save(r)  BY <3>3, SelectFilesRows, Zenon DEF Save
    <3>4. CASE DropBuild(r)  BY <3>4, DeleteBuildRows, Zenon DEF DropBuild
    <3> QED  BY <2>2, <3>1, <3>2, <3>3, <3>4, Zenon DEF FileStart
  <2>3. CASE FileStep(r)
    <3>1. CASE FindRow(r)  BY <3>1, FindRowRows, Zenon
    <3>2. CASE StoreRow(r)  BY <3>2, StoreRowRows, Zenon
    <3>3. CASE WriteFile(r)  BY <3>3, WriteFileRows, Zenon
    <3>4. CASE RemoveFile(r)  BY <3>4, RemoveFileRows, Zenon
    <3>5. CASE DropRow(r)  BY <3>5, DropRowRows, Zenon
    <3>6. CASE DropLinks(r)  BY <3>6, DropLinksRows, Zenon
    <3>7. CASE ClearLinks(r)  BY <3>7, ClearLinksRows, Zenon
    <3>8. CASE PickUser(r)  BY <3>8, PickUserRows, Zenon
    <3>9. CASE PickSuggested(r)  BY <3>9, PickSuggestedRows, Zenon
    <3>10. CASE AddLink(r)  BY <3>10, AddLinkRows, Zenon
    <3> QED  BY <2>3, <3>1, <3>2, <3>3, <3>4, <3>5, <3>6, <3>7, <3>8, <3>9, <3>10, Zenon
             DEF FileStep
  <2>4. CASE BuildStep(r)  BY <2>4, BuildStepMoves, MovedRows, Zenon
  <2>5. CASE Crash(r)  BY <2>5, CrashRows, Zenon
  <2> QED  BY <2>1, <2>2, <2>3, <2>4, <2>5
<1> QED
  BY <1>1, <1>2

\* The table of files, and what the requests at work on it rely on: save() looks a
\* name up and inserts it in two statements, and a request goes on with what it
\* read before others ran; all of it holds with any faults, killed requests included.
THEOREM TableInvariant == PSpec => []RowsInv
<1>1. RowsInv /\ [PNext]_allVars => RowsInv'
  BY NextRows
<1> QED
  BY InitRows, <1>1, PTL DEF PSpec

\* FileModel.save never inserts a second row of a name on which no two requests
\* have been at work at the same time.
THEOREM NoSecondRow == PSpec => []OneRowPerName
<1>1. RowsInv => OneRowPerName
  <2> SUFFICES ASSUME RowsInv, NEW n \in Names \ overlapped PROVE Cardinality(IdsNamed(n)) <= 1
    BY DEF OneRowPerName
  <2>1. \A i, j \in IdsNamed(n) : i = j
    BY DEF RowsInv, One, AtMostOne, IdsNamed
  <2>2. CASE IdsNamed(n) = {}
    BY <2>2, FS_EmptySet
  <2>3. CASE IdsNamed(n) # {}
    <3>1. PICK i : IdsNamed(n) = {i}
      BY <2>1, <2>3
    <3> QED
      BY <3>1, FS_Singleton
  <2> QED
    BY <2>2, <2>3
<1> QED
  BY <1>1, TableInvariant, PTL

-----------------------------------------------------------------------------
(***************************************************************************)
(* Without killed requests: files and links                                *)
(***************************************************************************)

\* Only the record of the request that runs changes.
LEMMA OthersStay ==
  ASSUME RowsInv, NEW r \in Requests, FileStart(r) \/ FileStep(r) \/ BuildStep(r)
  PROVE  \A s \in Requests : s # r => req'[s] = req[s]
<1>1. \/ \E q : Start(r, q) \/ Go(r, q)
      \/ req' = req
  <2>1. CASE Upload(r) \/ Delete(r)
    BY <2>1, Zenon DEF Upload, Delete, UploadOpen, DeleteLookup
  <2>2. CASE Save(r) \/ DropBuild(r)
    BY <2>2, Zenon DEF Save, DropBuild, SelectFiles, DeleteBuild
  <2>3. CASE FindRow(r) \/ StoreRow(r) \/ WriteFile(r)
    BY <2>3, Zenon DEF FindRow, StoreRow, WriteFile, Finish
  <2>4. CASE RemoveFile(r) \/ DropRow(r) \/ DropLinks(r)
    BY <2>4, Zenon DEF RemoveFile, DropRow, DropLinks, Finish
  <2>5. CASE ClearLinks(r) \/ AddLink(r)
    BY <2>5, Zenon DEF ClearLinks, AddLink
  <2>6. CASE PickUser(r) \/ PickSuggested(r)
    BY <2>6, Zenon DEF PickUser, PickSuggested, Finish
  <2>7. CASE BuildStep(r)
    BY <2>7, BuildStepMoves, Zenon DEF Moved
  <2> QED
    BY <2>1, <2>2, <2>3, <2>4, <2>5, <2>6, <2>7, Zenon DEF FileStart, FileStep
<1>2. \/ \E q : req' = [req EXCEPT ![r] = q]
      \/ req' = req
  BY <1>1, Zenon DEF Start, Go
<1> QED
  BY <1>2, OfRequest

\* A step by r that changes one request.
Alone1(r) == /\ RowsInv /\ RowsInv' /\ overlapped \subseteq overlapped'
             /\ \A s \in Requests : s # r => req'[s] = req[s]

\* A step leaves the name n as it was.
Alike(n) == /\ Named(rows', n) = Named(rows, n) /\ disk'[n] = disk[n]
            /\ disk[n] # 0 => data'[disk[n]] = data[disk[n]]

\* A name left as it was still matches.
LEMMA AlikeMatch ==
  ASSUME NEW n, Alike(n), Match(n, rows, disk, data)
  PROVE  Match(n, rows', disk', data')
BY DEF Alike, Match

\* A name that is not raced on is claimed by one request at a time.
LEMMA OneClaim ==
  ASSUME NEW r \in Requests, Alone1(r), NEW s \in Requests, s # r,
         NEW n \in Names \ overlapped', n \in req[r].claims \cup req'[r].claims
  PROVE  n \notin req[s].claims
<1>1. /\ req[r].claims \cap req[s].claims \subseteq overlapped
      /\ req'[r].claims \cap req'[s].claims \subseteq overlapped'
      /\ req'[s] = req[s] /\ overlapped \subseteq overlapped'
  BY DEF Alone1, RowsInv, Apart
<1> QED
  BY <1>1

\* What a step must show of its own names, when it leaves the others as they were.
LEMMA FilesKept ==
  ASSUME NEW r \in Requests, Alone1(r), Files,
         \A n \in Names \ overlapped' : n \notin req[r].claims \cup req'[r].claims => Alike(n),
         \A n \in Names \ overlapped' :
           /\ n \in req[r].claims \cup req'[r].claims
           /\ n \in req'[r].claims => req'[r].op = "save"
           => Match(n, rows', disk', data'),
         req'[r].name \notin overlapped' => Half(req'[r], rows', disk', data')
  PROVE  Files'
<1>1. ASSUME NEW n \in Names \ overlapped',
             \A s \in Requests : n \in req'[s].claims => req'[s].op = "save"
      PROVE  Match(n, rows', disk', data')
  <2>1. CASE n \in req[r].claims \cup req'[r].claims
    BY <1>1, <2>1
  <2>2. CASE n \notin req[r].claims \cup req'[r].claims
    <3>1. AtRest(n)
      <4>1. ASSUME NEW s \in Requests, n \in req[s].claims PROVE req[s].op = "save"
        BY <1>1, <2>2, <4>1 DEF Alone1
      <4> QED
        BY <4>1 DEF AtRest
    <3>2. n \in Names \ overlapped
      BY <1>1 DEF Alone1
    <3>3. Match(n, rows, disk, data)
      BY <3>1, <3>2 DEF Files
    <3> QED
      BY <2>2, <3>3, AlikeMatch
  <2> QED
    BY <2>1, <2>2
<1>2. ASSUME NEW s \in Requests, s # r, req'[s].name \notin overlapped'
      PROVE  Half(req'[s], rows', disk', data')
  <2>1. req'[s] = req[s] /\ req[s].name \notin overlapped
    BY <1>2 DEF Alone1
  <2>2. Half(req[s], rows, disk, data)
    BY <2>1 DEF Files
  <2>3. /\ req[s] \in Request /\ Fits(req[s], rows, nextId, overlapped)
        /\ disk \in [Names -> Inodes \cup {0}]
    BY OfRequest DEF Alone1
  <2>4. Busy(req[s]) /\ Deleting(req[s], rows, nextId)
    BY <2>3 DEF Fits
  <2>5. CASE req[s].op \in {"upload", "delete"}
    <3> DEFINE n == req[s].name
    <3>1. req[s].claims = {n} /\ n \in Names /\ (req[s].op = "upload" => req[s].ino # 0)
      BY <2>3, <2>4, <2>5 DEF Busy, Request
    <3>2. n \notin req[r].claims \cup req'[r].claims
      BY <1>2, <2>1, <3>1, OneClaim
    <3>3. Alike(n)
      BY <1>2, <2>1, <3>1, <3>2
    <3> HIDE DEF n
    <3>4. CASE req[s].op = "upload"
      <4>1. /\ disk[n] = req[s].ino /\ data[req[s].ino] = {} /\ req[s].ino # 0
            /\ req[s].step = "store" /\ req[s].row # 0 => Named(rows, n) # {}
            /\ req[s].step = "write" => Named(rows, n) # {}
        BY <2>2, <3>1, <3>4 DEF Half, n
      <4>2. /\ disk'[n] = req[s].ino /\ data'[req[s].ino] = {}
            /\ req[s].step = "store" /\ req[s].row # 0 => Named(rows', n) # {}
            /\ req[s].step = "write" => Named(rows', n) # {}
        BY <3>3, <4>1 DEF Alike
      <4> QED
        BY <2>1, <3>4, <4>2 DEF Half, n
    <3>5. CASE req[s].op = "delete"
      <4>1. /\ \/ req[s].step = "remove" /\ Match(n, rows', disk', data')
               \/ req[s].step = "droprow" /\ disk'[n] = 0
               \/ req[s].step = "unlink" /\ disk'[n] = 0 /\ Named(rows', n) = {}
        BY <2>2, <3>3, <3>5, AlikeMatch DEF Half, Alike, n
      <4>2. req[s].step # "unlink" => req[s].id \in DOMAIN rows'
        <5>1. SUFFICES ASSUME req[s].step # "unlink" PROVE req[s].id \in DOMAIN rows'
          OBVIOUS
        <5>2. req[s].id \in Named(rows, n)
          BY <2>2, <2>4, <3>5, <5>1 DEF Half, Deleting, Named, n
        <5> QED
          BY <3>3, <5>2 DEF Alike, Named
      <4> QED
        BY <2>1, <3>5, <4>1, <4>2 DEF Half, n
    <3> QED
      BY <2>5, <3>4, <3>5
  <2>6. CASE req[s].op \notin {"upload", "delete"}
    BY <2>1, <2>6 DEF Half
  <2> QED
    BY <2>5, <2>6
<1> QED
  BY <1>1, <1>2 DEF Files, AtRest

\* A step of a save, of a request on a build, or of one that ends there, that
\* leaves every name as it was.
LEMMA FilesAlike ==
  ASSUME NEW r \in Requests, Alone1(r), Files,
         \A n \in Names \ overlapped' : Alike(n),
         req[r].op \in {"none", "save", "deletebuild"},
         req'[r].op \in {"none", "save", "deletebuild"}
  PROVE  Files'
<1>1. ASSUME NEW n \in Names \ overlapped', n \in req[r].claims \cup req'[r].claims
      PROVE  Match(n, rows', disk', data')
  <2>1. Fits(req[r], rows, nextId, overlapped)
    BY OfRequest DEF Alone1
  <2>2. AtRest(n)
    <3>1. ASSUME NEW s \in Requests, n \in req[s].claims PROVE req[s].op = "save"
      <4>1. s = r
        BY <1>1, <3>1, OneClaim
      <4> QED
        BY <2>1, <3>1, <4>1 DEF Fits, Busy
    <3> QED
      BY <3>1 DEF AtRest
  <2>3. n \in Names \ overlapped
    BY <1>1 DEF Alone1
  <2> QED
    BY <1>1, <2>2, <2>3, AlikeMatch DEF Files
<1>2. Half(req'[r], rows', disk', data')
  BY DEF Half
<1> QED
  BY <1>1, <1>2, FilesKept

\* The inode that opening the name n finds or makes.
Opened(n) == IF disk[n] = 0 THEN FreeInode ELSE disk[n]

\* What opening n leaves on disk, in a state of the lemmas below.
OpenedAs(d, n) ==
  /\ Opened(n) \in Inodes /\ Opened(n) # 0 /\ OneName(d)
  /\ \A r \in Requests : Held(req[r], d)
  /\ d[n] = Opened(n)
  /\ \A m \in Names : m # n => d[m] = disk[m] /\ (disk[m] # 0 => disk[m] # Opened(n))

\* An opened inode takes a new name, or the one it has, and no other.
LEMMA OpenedDisks ==
  ASSUME RowsInv, Disks, NEW n \in Names
  PROVE  OpenedAs([disk EXCEPT ![n] = Opened(n)], n)
<1> DEFINE ino == Opened(n)
           d   == [disk EXCEPT ![n] = ino]
<1>1. /\ disk \in [Names -> Inodes \cup {0}] /\ req \in [Requests -> Request]
  BY DEF RowsInv, FileType
<1>2. /\ FreeInode \in Inodes /\ FreeInode # 0
      /\ \A m \in Names : disk[m] # FreeInode
      /\ \A r \in Requests : req[r].ino # FreeInode
  BY <1>1, FreeInodeIsFree DEF RangeOf
<1>3. ino \in Inodes /\ ino # 0
  BY <1>2, OpenedInode DEF Opened
<1>4. \A m \in Names : m # n /\ disk[m] # 0 => disk[m] # ino
  BY <1>2 DEF Disks, OneName, Opened
<1>5. d[n] = ino /\ \A m \in Names : m # n => d[m] = disk[m]
  BY <1>1
<1>6. OneName(d)
  BY <1>3, <1>4, <1>5 DEF Disks, OneName
<1>7. ASSUME NEW r \in Requests PROVE Held(req[r], d)
  <2>1. SUFFICES ASSUME req[r].ino # 0, NEW m \in Names, d[m] = req[r].ino PROVE m = req[r].name
    BY DEF Held
  <2>2. CASE m # n
    BY <1>5, <2>1, <2>2 DEF Disks, Held
  <2>3. CASE m = n
    <3>1. req[r].ino = ino
      BY <1>5, <2>1, <2>3
    <3>2. disk[n] = req[r].ino
      BY <1>2, <3>1 DEF Opened
    <3> QED
      BY <2>1, <2>3, <3>2 DEF Disks, Held
  <2> QED
    BY <2>2, <2>3
<1> QED
  BY <1>3, <1>4, <1>5, <1>6, <1>7 DEF OpenedAs

\* When r's inode stays or is given up, the names stay with their inodes.
LEMMA DisksKept ==
  ASSUME NEW r \in Requests, Alone1(r), Disks, disk' = disk,
         \/ req'[r].ino = 0
         \/ req'[r].ino = req[r].ino /\ req'[r].name = req[r].name
  PROVE  Disks'
<1>1. ASSUME NEW s \in Requests PROVE Held(req'[s], disk)
  BY DEF Alone1, Disks, Held
<1> QED
  BY <1>1 DEF Disks

\* Opening empties the file of one name and touches no other.
LEMMA UploadOpenFiles ==
  ASSUME RowsInv, Disks, Files, NEW r \in Requests, NEW n \in Names, UploadOpen(r, n),
         \A s \in Requests : s # r => req'[s] = req[s]
  PROVE  Disks' /\ Files'
<1> DEFINE ino == Opened(n)
<1>1. /\ UNCHANGED rows /\ disk' = [disk EXCEPT ![n] = ino] /\ data' = [data EXCEPT ![ino] = {}]
      /\ req[r].step = "idle"
  BY DEF UploadOpen, Start, At, Opened
<1>2. /\ RowsInv' /\ overlapped \subseteq overlapped' /\ req'[r].op = "upload"
      /\ req'[r].name = n /\ req'[r].step = "find" /\ req'[r].claims = {n} /\ req'[r].ino = ino
  BY UploadOpenRows DEF Opened
<1> HIDE DEF ino
<1>3. Alone1(r)
  BY <1>2 DEF Alone1
<1>4. /\ ino \in Inodes /\ ino # 0 /\ OneName(disk')
      /\ \A s \in Requests : Held(req[s], disk') /\ disk'[n] = ino
      /\ \A m \in Names : m # n => disk'[m] = disk[m] /\ (disk[m] # 0 => disk[m] # ino)
  <2>1. OpenedAs(disk', n)
    BY <1>1, OpenedDisks DEF ino
  <2> QED
    BY <2>1 DEF OpenedAs, ino
<1>5. Disks'
  <2>1. ASSUME NEW s \in Requests PROVE Held(req'[s], disk')
    <3>1. CASE s = r
      BY <1>2, <1>4, <3>1 DEF Held, OneName
    <3>2. CASE s # r
      BY <1>4, <3>2
    <3> QED
      BY <3>1, <3>2
  <2> QED
    BY <1>4, <2>1 DEF Disks
<1>6. data \in [Inodes -> SUBSET (Requests \cup {Admin})] /\ disk \in [Names -> Inodes \cup {0}]
      /\ Busy(req[r])
  BY OfRequest DEF Fits
<1>7. req[r].claims = {}
  BY <1>1, <1>6 DEF Busy, BuildSteps
<1>8. \A m \in Names : m # n => Alike(m)
  BY <1>1, <1>4, <1>6 DEF Alike
<1>9. Half(req'[r], rows', disk', data')
  BY <1>1, <1>2, <1>4, <1>6 DEF Half
<1>10. \A m \in Names \ overlapped' : m \notin req[r].claims \cup req'[r].claims => Alike(m)
  BY <1>2, <1>8
<1>11. \A m \in Names \ overlapped' :
         /\ m \in req[r].claims \cup req'[r].claims
         /\ m \in req'[r].claims => req'[r].op = "save"
         => Match(m, rows', disk', data')
  BY <1>2, <1>7
<1> QED
  BY <1>3, <1>5, <1>9, <1>10, <1>11, FilesKept

\* Looking up leaves the files as they are.
LEMMA FindRowFiles ==
  ASSUME RowsInv, Disks, Files, NEW r \in Requests, FindRow(r),
         \A s \in Requests : s # r => req'[s] = req[s]
  PROVE  Disks' /\ Files'
<1>1. /\ RowsInv' /\ UNCHANGED <<rows, nextId, disk, data, links, overlapped>>
      /\ req[r].step = "find" /\ req'[r].step = "store" /\ req'[r].op = req[r].op
      /\ req'[r].name = req[r].name /\ req'[r].ino = req[r].ino
      /\ req'[r].claims = req[r].claims
      /\ req'[r].row # 0 => Named(rows, req[r].name) # {}
  BY FindRowRows
<1>2. Alone1(r) /\ \A n : Alike(n)
  BY <1>1 DEF Alone1, Alike
<1>3. Disks'
  BY <1>1, <1>2, DisksKept
<1>4. Busy(req[r])
  BY OfRequest DEF Fits
<1>5. CASE req[r].op = "save"
  BY <1>1, <1>2, <1>3, <1>5, FilesAlike
<1>6. CASE req[r].op = "upload"
  <2>1. req[r].claims = {req[r].name}
    BY <1>4, <1>6 DEF Busy
  <2>2. req'[r].name \notin overlapped' => Half(req'[r], rows', disk', data')
    BY <1>1, <1>6 DEF Files, Half
  <2>3. \A n \in Names \ overlapped' :
          /\ n \in req[r].claims \cup req'[r].claims
          /\ n \in req'[r].claims => req'[r].op = "save"
          => Match(n, rows', disk', data')
    BY <1>1, <1>6
  <2> QED
    BY <1>2, <1>3, <2>2, <2>3, FilesKept
<1>7. req[r].op \in {"save", "upload"}
  BY <1>1, <1>4 DEF Busy, BuildSteps
<1> QED
  BY <1>5, <1>6, <1>7

\* The row comes after the file was opened, and before it is written.
LEMMA StoreRowFiles ==
  ASSUME RowsInv, Disks, Files, NEW r \in Requests, StoreRow(r),
         \A s \in Requests : s # r => req'[s] = req[s]
  PROVE  Disks' /\ Files'
<1> DEFINE n  == req[r].name
           to == IF req[r].op = "upload" THEN "write" ELSE "link"
<1>1. /\ RowsInv' /\ UNCHANGED <<disk, data, links, overlapped>>
      /\ req[r].step = "store" /\ req'[r] = To(req[r], to)
      /\ \A m \in Names : m # n => Named(rows', m) = Named(rows, m)
      /\ req[r].row = 0 => Named(rows', n) # {}
      /\ req[r].row # 0 => rows' = rows
  BY StoreRowRows
<1>2. /\ req[r] \in Request /\ Busy(req[r]) /\ Fits(req[r], rows, nextId, overlapped)
  BY OfRequest DEF Fits
<1>3. to \in Steps /\ (req[r].op = "upload" => to = "write")
  BY DEF Steps
<1>4. /\ req'[r].step = to /\ req'[r].op = req[r].op /\ req'[r].claims = req[r].claims
      /\ req'[r].name = n /\ req'[r].ino = req[r].ino
  BY <1>1, <1>2, <1>3, ToIs
<1>5. n \in req[r].claims /\ n \in Names /\ req[r].op \in {"upload", "save"}
  <2>1. req[r].op \in {"upload", "save"}
    BY <1>1, <1>2 DEF Busy, BuildSteps
  <2> QED
    BY <1>1, <1>2, <2>1, NameClaimed
<1> HIDE DEF to, n
<1>6. Alone1(r) /\ \A m \in Names : m # n => Alike(m)
  BY <1>1 DEF Alone1, Alike
<1>7. Disks'
  BY <1>1, <1>4, <1>6, DisksKept DEF n
<1>8. CASE req[r].op = "save"
  <2>1. n \notin overlapped => req[r].row # 0
    <3>1. SUFFICES ASSUME n \notin overlapped, req[r].row = 0 PROVE FALSE
      OBVIOUS
    <3>2. req[r].user
      BY <1>1, <1>2, <1>8 DEF Busy, BuildSteps
    <3>3. req[r].id \in Named(rows, n)
      BY <1>1, <1>2, <1>8, <3>1, <3>2 DEF Fits, Chosen, Named, n
    <3>4. Named(rows, n) = {}
      BY <1>1, <1>2, <3>1 DEF Fits, Looked, n
    <3> QED
      BY <3>3, <3>4
  <2>2. \A m \in Names \ overlapped' : Alike(m)
    BY <1>1, <1>6, <2>1 DEF Alike
  <2> QED
    BY <1>4, <1>6, <1>7, <1>8, <2>2, FilesAlike
<1>9. CASE req[r].op = "upload"
  <2>1. req[r].claims = {n}
    BY <1>2, <1>9 DEF Busy, n
  <2>2. n \notin overlapped' => Half(req'[r], rows', disk', data')
    <3>1. SUFFICES ASSUME n \notin overlapped PROVE Half(req'[r], rows', disk', data')
      BY <1>1
    <3>2. /\ disk[n] = req[r].ino /\ data[req[r].ino] = {}
          /\ req[r].row # 0 => Named(rows, n) # {}
      BY <1>1, <1>9, <3>1 DEF Files, Half, n
    <3>3. Named(rows', n) # {}
      BY <1>1, <3>2
    <3> QED
      BY <1>1, <1>4, <1>9, <3>2, <3>3 DEF Half
  <2>3. \A m \in Names \ overlapped' : m \notin req[r].claims \cup req'[r].claims => Alike(m)
    BY <1>6, <2>1
  <2>4. \A m \in Names \ overlapped' :
          /\ m \in req[r].claims \cup req'[r].claims
          /\ m \in req'[r].claims => req'[r].op = "save"
          => Match(m, rows', disk', data')
    BY <1>4, <1>9
  <2> QED
    BY <1>4, <1>6, <1>7, <2>2, <2>3, <2>4, FilesKept
<1> QED
  BY <1>5, <1>8, <1>9

\* The bytes go to the file of that name, which then matches its row.
LEMMA WriteFileFiles ==
  ASSUME RowsInv, Disks, Files, NEW r \in Requests, WriteFile(r),
         \A s \in Requests : s # r => req'[s] = req[s]
  PROVE  Disks' /\ Files'
<1> DEFINE n   == req[r].name
           ino == req[r].ino
<1>1. /\ RowsInv' /\ UNCHANGED <<rows, nextId, disk, links, overlapped>>
      /\ req[r].step = "write" /\ req'[r] = Idle
      /\ data' = [data EXCEPT ![ino] = IF ino \in RangeOf(disk) THEN @ \cup {r} ELSE @]
  BY WriteFileRows DEF WriteFile
<1>2. /\ req[r] \in Request /\ Busy(req[r])
      /\ disk \in [Names -> Inodes \cup {0}]
      /\ data \in [Inodes -> SUBSET (Requests \cup {Admin})]
  BY OfRequest DEF Fits
<1>3. /\ req[r].op = "upload" /\ req[r].claims = {n} /\ ino # 0 /\ n \in Names
      /\ ino \in Inodes
  BY <1>1, <1>2 DEF Busy, BuildSteps, Request
<1>4. req'[r].op = "none" /\ req'[r].ino = 0 /\ req'[r].claims = {}
  BY <1>1, IdleFits
<1> HIDE DEF n, ino
<1>5. Alone1(r)
  BY <1>1 DEF Alone1
<1>6. Disks'
  BY <1>1, <1>4, <1>5, DisksKept
<1>7. \A m \in Names : m # n => Alike(m)
  <2>1. ASSUME NEW m \in Names, m # n PROVE Alike(m)
    <3>1. disk[m] # ino
      BY <1>3, <2>1 DEF Disks, Held, n, ino
    <3> QED
      BY <1>1, <1>2, <3>1 DEF Alike
  <2> QED
    BY <2>1
<1>8. n \notin overlapped => Match(n, rows', disk', data')
  <2>1. SUFFICES ASSUME n \notin overlapped PROVE Match(n, rows', disk', data')
    OBVIOUS
  <2>2. disk[n] = ino /\ data[ino] = {} /\ Named(rows, n) # {}
    BY <1>1, <1>3, <2>1 DEF Files, Half, n, ino
  <2>3. data'[ino] = {r}
    BY <1>1, <1>2, <1>3, <2>2 DEF RangeOf
  <2> QED
    BY <1>1, <1>3, <2>2, <2>3 DEF Match
<1>9. \A m \in Names \ overlapped' : m \notin req[r].claims \cup req'[r].claims => Alike(m)
  BY <1>3, <1>7
<1>10. \A m \in Names \ overlapped' :
         /\ m \in req[r].claims \cup req'[r].claims
         /\ m \in req'[r].claims => req'[r].op = "save"
         => Match(m, rows', disk', data')
  BY <1>1, <1>3, <1>4, <1>8
<1>11. Half(req'[r], rows', disk', data')
  BY <1>4 DEF Half
<1> QED
  BY <1>5, <1>6, <1>9, <1>10, <1>11, FilesKept

\* A deletion begins with a name at rest.
LEMMA DeleteLookupFiles ==
  ASSUME RowsInv, Disks, Files, NEW r \in Requests, NEW i \in DOMAIN rows, DeleteLookup(r, i),
         \A s \in Requests : s # r => req'[s] = req[s]
  PROVE  Disks' /\ Files'
<1> DEFINE n == rows[i]
<1>1. /\ RowsInv' /\ UNCHANGED <<rows, nextId, disk, data, links>>
      /\ overlapped \subseteq overlapped' /\ n \in Names
      /\ req'[r].op = "delete" /\ req'[r].step = "remove"
      /\ req'[r].name = n /\ req'[r].id = i /\ req'[r].ino = 0 /\ req'[r].claims = {n}
  BY DeleteLookupRows
<1>2. req[r].claims = {}
  <2>1. Busy(req[r]) /\ req[r].step = "idle"
    BY OfRequest DEF Fits, DeleteLookup, Start, At
  <2> QED
    BY <2>1 DEF Busy, BuildSteps
<1> HIDE DEF n
<1>3. Alone1(r) /\ \A m : Alike(m)
  BY <1>1 DEF Alone1, Alike
<1>4. Disks'
  BY <1>1, <1>3, DisksKept
<1>5. n \notin overlapped' => Half(req'[r], rows', disk', data')
  <2>1. SUFFICES ASSUME n \notin overlapped' PROVE Half(req'[r], rows', disk', data')
    OBVIOUS
  <2>2. AtRest(n)
    <3>1. ASSUME NEW s \in Requests PROVE n \notin req[s].claims
      BY <1>1, <1>2, <1>3, <2>1, OneClaim
    <3> QED
      BY <3>1 DEF AtRest
  <2>3. Match(n, rows, disk, data)
    BY <1>1, <2>1, <2>2 DEF Files
  <2> QED
    BY <1>1, <2>3 DEF Half
<1>6. \A m \in Names \ overlapped' :
        /\ m \in req[r].claims \cup req'[r].claims
        /\ m \in req'[r].claims => req'[r].op = "save"
        => Match(m, rows', disk', data')
  BY <1>1, <1>2
<1> QED
  BY <1>1, <1>3, <1>4, <1>5, <1>6, FilesKept

\* The file goes first, and no other file with it.
LEMMA RemoveFileFiles ==
  ASSUME RowsInv, Disks, Files, NEW r \in Requests, RemoveFile(r),
         \A s \in Requests : s # r => req'[s] = req[s]
  PROVE  Disks' /\ Files'
<1> DEFINE n   == req[r].name
           ino == disk[req[r].name]
<1>1. /\ RowsInv' /\ UNCHANGED <<rows, nextId, links, overlapped>>
      /\ req[r].step = "remove" /\ req'[r] = To(req[r], "droprow")
      /\ disk' = [disk EXCEPT ![n] = 0]
      /\ data' = [i \in Inodes |-> IF i = ino THEN {} ELSE data[i]]
  BY RemoveFileRows
<1>2. /\ req[r] \in Request /\ Busy(req[r])
      /\ disk \in [Names -> Inodes \cup {0}] /\ "droprow" \in Steps
  BY OfRequest DEF Fits, Steps
<1>3. /\ req[r].op = "delete" /\ req[r].claims = {n} /\ req[r].ino = 0 /\ n \in Names
  BY <1>1, <1>2 DEF Busy, BuildSteps, Request
<1>4. /\ req'[r].step = "droprow" /\ req'[r].op = "delete" /\ req'[r].claims = {n}
      /\ req'[r].name = n /\ req'[r].ino = 0 /\ req'[r].id = req[r].id
  BY <1>1, <1>2, <1>3, ToIs
<1> HIDE DEF n, ino
<1>5. Alone1(r)
  BY <1>1 DEF Alone1
<1>6. disk'[n] = 0 /\ \A m \in Names : m # n => disk'[m] = disk[m]
  BY <1>1, <1>2, <1>3
<1>7. Disks'
  <2>1. OneName(disk')
    BY <1>6 DEF Disks, OneName
  <2>2. ASSUME NEW s \in Requests PROVE Held(req'[s], disk')
    BY <1>4, <1>5, <1>6 DEF Alone1, Disks, Held
  <2> QED
    BY <2>1, <2>2 DEF Disks
<1>8. \A m \in Names : m # n => Alike(m)
  <2>1. ASSUME NEW m \in Names, m # n PROVE Alike(m)
    <3>1. disk[m] # 0 => disk[m] # ino /\ disk[m] \in Inodes
      BY <1>2, <1>3, <2>1 DEF Disks, OneName, ino, n
    <3> QED
      BY <1>1, <1>6, <2>1, <3>1 DEF Alike
  <2> QED
    BY <2>1
<1>9. n \notin overlapped => Half(req'[r], rows', disk', data')
  <2>1. SUFFICES ASSUME n \notin overlapped PROVE Half(req'[r], rows', disk', data')
    OBVIOUS
  <2>2. req[r].id \in DOMAIN rows
    BY <1>1, <1>3, <2>1 DEF Files, Half, n
  <2> QED
    BY <1>1, <1>4, <1>6, <2>2 DEF Half
<1>10. \A m \in Names \ overlapped' : m \notin req[r].claims \cup req'[r].claims => Alike(m)
  BY <1>3, <1>8
<1>11. \A m \in Names \ overlapped' :
         /\ m \in req[r].claims \cup req'[r].claims
         /\ m \in req'[r].claims => req'[r].op = "save"
         => Match(m, rows', disk', data')
  BY <1>3, <1>4
<1> QED
  BY <1>1, <1>4, <1>5, <1>7, <1>9, <1>10, <1>11, FilesKept

\* The row that goes is the only one of its name.
LEMMA DropRowFiles ==
  ASSUME RowsInv, Disks, Files, NEW r \in Requests, DropRow(r),
         \A s \in Requests : s # r => req'[s] = req[s]
  PROVE  Disks' /\ Files'
<1> DEFINE n    == req[r].name
           gone == req[r].id
<1>1. /\ RowsInv' /\ UNCHANGED <<nextId, disk, data, links, overlapped>>
      /\ req[r].step = "droprow" /\ req[r].op = "delete"
      /\ req'[r] = To(req[r], "unlink")
      /\ DOMAIN rows' = DOMAIN rows \ {gone}
      /\ \A i \in DOMAIN rows' : rows'[i] = rows[i]
      /\ gone \in DOMAIN rows => rows[gone] = n
  BY DropRowRows
<1>2. /\ req[r] \in Request /\ Busy(req[r]) /\ "unlink" \in Steps
  BY OfRequest DEF Fits, Steps
<1>3. req[r].claims = {n} /\ req[r].ino = 0 /\ n \in Names
  BY <1>1, <1>2 DEF Busy, BuildSteps, Request
<1>4. /\ req'[r].step = "unlink" /\ req'[r].op = "delete" /\ req'[r].claims = {n}
      /\ req'[r].name = n /\ req'[r].ino = 0
  BY <1>1, <1>2, <1>3, ToIs
<1> HIDE DEF n, gone
<1>5. Alone1(r)
  BY <1>1 DEF Alone1
<1>6. Disks'
  BY <1>1, <1>4, <1>5, DisksKept
<1>7. \A m : m # n => Alike(m)
  <2>1. ASSUME NEW m, m # n PROVE Named(rows', m) = Named(rows, m)
    BY <1>1, <2>1 DEF Named
  <2> QED
    BY <1>1, <2>1 DEF Alike
<1>8. n \notin overlapped => Half(req'[r], rows', disk', data')
  <2>1. SUFFICES ASSUME n \notin overlapped PROVE Half(req'[r], rows', disk', data')
    OBVIOUS
  <2>2. disk[n] = 0 /\ gone \in DOMAIN rows
    BY <1>1, <2>1 DEF Files, Half, n, gone
  <2>3. AtMostOne(rows, n)
    BY <1>3, <2>1 DEF RowsInv, One
  <2>4. Named(rows', n) = {}
    BY <1>1, <2>2, <2>3 DEF AtMostOne, Named
  <2> QED
    BY <1>1, <1>4, <2>2, <2>4 DEF Half
<1>9. \A m \in Names \ overlapped' : m \notin req[r].claims \cup req'[r].claims => Alike(m)
  BY <1>3, <1>7
<1>10. \A m \in Names \ overlapped' :
         /\ m \in req[r].claims \cup req'[r].claims
         /\ m \in req'[r].claims => req'[r].op = "save"
         => Match(m, rows', disk', data')
  BY <1>3, <1>4
<1> QED
  BY <1>1, <1>4, <1>5, <1>6, <1>8, <1>9, <1>10, FilesKept

\* A deletion ends with neither file nor row.
LEMMA DropLinksFiles ==
  ASSUME RowsInv, Disks, Files, NEW r \in Requests, DropLinks(r),
         \A s \in Requests : s # r => req'[s] = req[s]
  PROVE  Disks' /\ Files'
<1> DEFINE n == req[r].name
<1>1. /\ RowsInv' /\ UNCHANGED <<rows, nextId, disk, data, overlapped>>
      /\ req[r].step = "unlink" /\ req'[r] = Idle
  BY DropLinksRows
<1>2. req[r] \in Request /\ Busy(req[r])
  BY OfRequest DEF Fits
<1>3. req[r].op = "delete" /\ req[r].claims = {n} /\ n \in Names
  BY <1>1, <1>2 DEF Busy, BuildSteps, Request
<1>4. req'[r].op = "none" /\ req'[r].ino = 0 /\ req'[r].claims = {}
  BY <1>1, IdleFits
<1> HIDE DEF n
<1>5. Alone1(r) /\ \A m : Alike(m)
  BY <1>1 DEF Alone1, Alike
<1>6. Disks'
  BY <1>1, <1>4, <1>5, DisksKept
<1>7. n \notin overlapped => Match(n, rows', disk', data')
  <2>1. SUFFICES ASSUME n \notin overlapped PROVE Match(n, rows', disk', data')
    OBVIOUS
  <2>2. disk[n] = 0 /\ Named(rows, n) = {}
    BY <1>1, <1>3, <2>1 DEF Files, Half, n
  <2> QED
    BY <1>1, <2>2 DEF Match
<1>8. Half(req'[r], rows', disk', data')
  BY <1>4 DEF Half
<1>9. \A m \in Names \ overlapped' :
        /\ m \in req[r].claims \cup req'[r].claims
        /\ m \in req'[r].claims => req'[r].op = "save"
        => Match(m, rows', disk', data')
  BY <1>1, <1>3, <1>4, <1>7
<1> QED
  BY <1>5, <1>6, <1>8, <1>9, FilesKept

\* Copying a suggested file makes a whole file of that name.
LEMMA PickSuggestedFiles ==
  ASSUME RowsInv, Disks, Files, NEW r \in Requests, PickSuggested(r),
         \A s \in Requests : s # r => req'[s] = req[s]
  PROVE  Disks' /\ Files'
<1>1. /\ RowsInv' /\ UNCHANGED <<rows, nextId, links, overlapped>>
      /\ req[r].step = "pick" /\ req[r].op = "save"
      /\ req'[r].op = "save" /\ req'[r].ino = 0
  BY PickSuggestedRows
<1>2. PICK n \in Names :
        /\ n \in req'[r].claims /\ n \in RangeOf(Suggested)
        /\ \/ disk' = [disk EXCEPT ![n] = Opened(n)] /\ data' = [data EXCEPT ![Opened(n)] = {Admin}]
           \/ disk[n] # 0 /\ UNCHANGED <<disk, data>>
  BY PickSuggestedRows DEF Opened
<1>3. Alone1(r)
  BY <1>1 DEF Alone1
<1>4. CASE UNCHANGED <<disk, data>>
  <2>1. \A m : Alike(m)
    BY <1>1, <1>4 DEF Alike
  <2>2. Disks'
    BY <1>1, <1>3, <1>4, DisksKept
  <2>3. Files'
    BY <1>1, <1>3, <2>1, FilesAlike
  <2> QED
    BY <2>2, <2>3
<1>5. CASE disk' = [disk EXCEPT ![n] = Opened(n)] /\ data' = [data EXCEPT ![Opened(n)] = {Admin}]
  <2> DEFINE ino == Opened(n)
  <2>1. OpenedAs(disk', n)
    BY <1>5, OpenedDisks
  <2>2. /\ ino \in Inodes /\ ino # 0 /\ OneName(disk')
        /\ \A s \in Requests : Held(req[s], disk') /\ disk'[n] = ino
        /\ \A m \in Names : m # n => disk'[m] = disk[m] /\ (disk[m] # 0 => disk[m] # ino)
    BY <2>1 DEF OpenedAs
  <2>3. /\ data \in [Inodes -> SUBSET (Requests \cup {Admin})]
        /\ disk \in [Names -> Inodes \cup {0}] /\ Fits(req[r], rows, nextId, overlapped)
    BY OfRequest
  <2>4. data'[ino] = {Admin} /\ \A i \in Inodes : i # ino => data'[i] = data[i]
    BY <1>5, <2>2, <2>3
  <2> HIDE DEF ino
  <2>5. Disks'
    <3>1. ASSUME NEW s \in Requests PROVE Held(req'[s], disk')
      BY <1>1, <1>3, <2>2 DEF Alone1, Held
    <3> QED
      BY <2>2, <3>1 DEF Disks
  <2>6. \A m \in Names : m # n => Alike(m)
    BY <1>1, <2>2, <2>3, <2>4 DEF Alike
  <2>7. Match(n, rows', disk', data')
    BY <1>2, <2>2, <2>4 DEF Match
  <2>8. n \in req'[r].claims
    BY <1>2
  <2>9. ASSUME NEW m \in Names \ overlapped', m \in req[r].claims \cup req'[r].claims
        PROVE  Match(m, rows', disk', data')
    <3>1. CASE m = n
      BY <2>7, <3>1
    <3>2. CASE m # n
      <4>1. AtRest(m)
        <5>1. ASSUME NEW s \in Requests, m \in req[s].claims PROVE req[s].op = "save"
          <6>1. s = r
            BY <1>3, <2>9, <5>1, OneClaim
          <6> QED
            BY <1>1, <6>1
        <5> QED
          BY <5>1 DEF AtRest
      <4>2. Match(m, rows, disk, data)
        BY <1>1, <2>9, <4>1 DEF Files
      <4> QED
        BY <2>6, <2>9, <3>2, <4>2, AlikeMatch
    <3> QED
      BY <3>1, <3>2
  <2>10. \A m \in Names \ overlapped' : m \notin req[r].claims \cup req'[r].claims => Alike(m)
    BY <2>6, <2>8
  <2>11. Half(req'[r], rows', disk', data')
    BY <1>1 DEF Half
  <2>12. Files'
    BY <1>3, <2>9, <2>10, <2>11, FilesKept
  <2> QED
    BY <2>5, <2>12
<1> QED
  BY <1>2, <1>4, <1>5

\* The steps that leave every name as it was.
LEMMA QuietFiles ==
  ASSUME RowsInv, Disks, Files, NEW r \in Requests,
         Save(r) \/ DropBuild(r) \/ ClearLinks(r) \/ PickUser(r) \/ AddLink(r) \/ BuildStep(r),
         \A s \in Requests : s # r => req'[s] = req[s]
  PROVE  Disks' /\ Files'
<1>1. ASSUME RowsInv', UNCHANGED <<rows, disk, data>>, overlapped \subseteq overlapped',
             req[r].op \in {"none", "save", "deletebuild"},
             req'[r].op \in {"none", "save", "deletebuild"}, req'[r].ino = 0
      PROVE  Disks' /\ Files'
  <2>1. Alone1(r) /\ \A n : Alike(n)
    BY <1>1 DEF Alone1, Alike
  <2>2. Disks'
    BY <1>1, <2>1, DisksKept
  <2>3. Files'
    BY <1>1, <2>1, FilesAlike
  <2> QED
    BY <2>2, <2>3
<1>2. req[r].step = "idle" => req[r].op = "none"
  <2>1. Busy(req[r])
    BY OfRequest DEF Fits
  <2> QED
    BY <2>1 DEF Busy, BuildSteps
<1>3. ASSUME NEW q, Start(r, q) PROVE req[r].op = "none"
  BY <1>2, <1>3 DEF Start, At
<1>4. CASE Save(r)
  <2>1. PICK b \in Builds, sel \in SUBSET Offered : SelectFiles(r, b, sel)
    BY <1>4, Zenon DEF Save
  <2>2. req[r].op = "none"
    BY <2>1, <1>3, Zenon DEF SelectFiles
  <2>3. /\ RowsInv' /\ UNCHANGED <<rows, nextId, disk, data, links>>
        /\ overlapped \subseteq overlapped' /\ req'[r].op = "save" /\ req'[r].ino = 0
    BY <2>1, SelectFilesRows
  <2> QED
    BY <1>1, <2>2, <2>3
<1>5. CASE DropBuild(r)
  <2>1. PICK b \in Builds : DeleteBuild(r, b)
    BY <1>5, Zenon DEF DropBuild
  <2>2. req[r].op = "none"
    BY <2>1, <1>3, Zenon DEF DeleteBuild
  <2>3. /\ RowsInv' /\ UNCHANGED <<rows, nextId, disk, data, links>>
        /\ overlapped \subseteq overlapped' /\ req'[r].op = "deletebuild" /\ req'[r].ino = 0
    BY <2>1, DeleteBuildRows
  <2> QED
    BY <1>1, <2>2, <2>3
<1>6. CASE ClearLinks(r)
  <2>1. /\ RowsInv' /\ UNCHANGED <<rows, nextId, disk, data, overlapped>>
        /\ req[r].op = "save" /\ req'[r] = To(req[r], "pick") /\ req[r].step = "clear"
    BY <1>6, ClearLinksRows
  <2>2. req[r] \in Request /\ Busy(req[r]) /\ "pick" \in Steps
    BY OfRequest DEF Fits, Steps
  <2>3. req[r].ino = 0
    BY <2>1, <2>2 DEF Busy
  <2>4. req'[r].op = "save" /\ req'[r].ino = 0
    BY <2>1, <2>2, <2>3, ToIs
  <2> QED
    BY <1>1, <2>1, <2>4
<1>7. CASE PickUser(r)
  <2>1. /\ RowsInv' /\ UNCHANGED <<rows, nextId, disk, data, links, overlapped>>
        /\ req[r].op = "save"
        /\ \/ req'[r] = Idle
           \/ req'[r].op = "save" /\ req'[r].ino = 0
    BY <1>7, PickUserRows
  <2>2. req'[r].op \in {"none", "save"} /\ req'[r].ino = 0
    BY <2>1, IdleFits
  <2> QED
    BY <1>1, <2>1, <2>2
<1>8. CASE AddLink(r)
  <2>1. /\ RowsInv' /\ UNCHANGED <<rows, nextId, disk, data, overlapped>>
        /\ req[r].op = "save" /\ req'[r].op = "save" /\ req'[r].ino = 0
    BY <1>8, AddLinkRows
  <2> QED
    BY <1>1, <2>1
<1>9. CASE BuildStep(r)
  <2>1. /\ RowsInv' /\ UNCHANGED <<rows, nextId, disk, data, overlapped>>
        /\ req[r].op \in {"save", "deletebuild"}
        /\ \/ req'[r] = Idle
           \/ req'[r].op = req[r].op /\ req'[r].ino = 0
    BY <1>9, BuildStepMoves, MovedRows, Zenon
  <2>2. req'[r].op \in {"none", "save", "deletebuild"} /\ req'[r].ino = 0
    BY <2>1, IdleFits
  <2> QED
    BY <1>1, <2>1, <2>2
<1> QED
  BY <1>4, <1>5, <1>6, <1>7, <1>8, <1>9

\* Links only go, and no request is done with the deletion of its file's links.
LEMMA LinksKept ==
  ASSUME LinksAlive, NEW r \in Requests,
         links' \subseteq links, DOMAIN rows \subseteq DOMAIN rows',
         overlapped \subseteq overlapped', req[r].step # "unlink",
         \A s \in Requests : s # r => req'[s] = req[s]
  PROVE  LinksAlive'
<1> SUFFICES ASSUME overlapped' = {}, NEW l \in links', l.user
             PROVE  \/ l.id \in DOMAIN rows'
                    \/ \E s \in Requests : req'[s].step = "unlink" /\ req'[s].id = l.id
  BY DEF LinksAlive, At
<1>1. \/ l.id \in DOMAIN rows
      \/ \E s \in Requests : req[s].step = "unlink" /\ req[s].id = l.id
  BY DEF LinksAlive, At
<1>2. ASSUME NEW s \in Requests, req[s].step = "unlink", req[s].id = l.id
      PROVE  req'[s].step = "unlink" /\ req'[s].id = l.id
  BY <1>2
<1> QED
  BY <1>1, <1>2

\* The links of the row that goes wait for this very request.
LEMMA DropRowLinks ==
  ASSUME RowsInv, LinksAlive, NEW r \in Requests, DropRow(r),
         \A s \in Requests : s # r => req'[s] = req[s]
  PROVE  LinksAlive'
<1>1. /\ UNCHANGED <<links, overlapped>> /\ req'[r] = To(req[r], "unlink")
      /\ DOMAIN rows' = DOMAIN rows \ {req[r].id} /\ req[r].step = "droprow"
  BY DropRowRows
<1>2. req'[r].step = "unlink" /\ req'[r].id = req[r].id
  <2>1. req[r] \in Request /\ "unlink" \in Steps
    BY OfRequest DEF Steps
  <2> QED
    BY <1>1, <2>1, ToIs
<1> SUFFICES ASSUME overlapped' = {}, NEW l \in links', l.user
             PROVE  \/ l.id \in DOMAIN rows'
                    \/ \E s \in Requests : req'[s].step = "unlink" /\ req'[s].id = l.id
  BY DEF LinksAlive, At
<1>3. \/ l.id \in DOMAIN rows
      \/ \E s \in Requests : req[s].step = "unlink" /\ req[s].id = l.id
  BY <1>1 DEF LinksAlive, At
<1>4. ASSUME NEW s \in Requests, req[s].step = "unlink", req[s].id = l.id
      PROVE  req'[s].step = "unlink" /\ req'[s].id = l.id
  BY <1>1, <1>4
<1> QED
  BY <1>1, <1>2, <1>3, <1>4

\* They go, and with them only links to a row that is gone.
LEMMA DropLinksLinks ==
  ASSUME RowsInv, LinksAlive, NEW r \in Requests, DropLinks(r),
         \A s \in Requests : s # r => req'[s] = req[s]
  PROVE  LinksAlive'
<1>1. /\ UNCHANGED <<rows, overlapped>> /\ links' = {l \in links : l.id # req[r].id}
  BY DropLinksRows
<1> SUFFICES ASSUME overlapped' = {}, NEW l \in links', l.user
             PROVE  \/ l.id \in DOMAIN rows'
                    \/ \E s \in Requests : req'[s].step = "unlink" /\ req'[s].id = l.id
  BY DEF LinksAlive, At
<1>2. l \in links /\ l.id # req[r].id
  BY <1>1
<1>3. \/ l.id \in DOMAIN rows
      \/ \E s \in Requests : req[s].step = "unlink" /\ req[s].id = l.id
  BY <1>1, <1>2 DEF LinksAlive, At
<1>4. ASSUME NEW s \in Requests, req[s].step = "unlink", req[s].id = l.id
      PROVE  req'[s].step = "unlink" /\ req'[s].id = l.id
  BY <1>2, <1>4
<1> QED
  BY <1>1, <1>3, <1>4

\* A file is linked while its row is there, unless somebody raced on its name.
LEMMA AddLinkLinks ==
  ASSUME RowsInv, LinksAlive, NEW r \in Requests, AddLink(r),
         \A s \in Requests : s # r => req'[s] = req[s]
  PROVE  LinksAlive'
<1> DEFINE new == [build |-> req[r].build, id |-> req[r].id, user |-> req[r].user]
<1>1. /\ UNCHANGED <<rows, overlapped>> /\ links' = links \cup {new}
      /\ req[r].step = "link" /\ req[r].op = "save"
  BY AddLinkRows
<1>2. new.id = req[r].id /\ (new.user => req[r].user)
  OBVIOUS
<1> HIDE DEF new
<1> SUFFICES ASSUME overlapped' = {}, NEW l \in links', l.user
             PROVE  \/ l.id \in DOMAIN rows'
                    \/ \E s \in Requests : req'[s].step = "unlink" /\ req'[s].id = l.id
  BY DEF LinksAlive, At
<1>3. CASE l = new
  <2>1. Chosen(req[r], rows, overlapped)
    BY OfRequest DEF Fits
  <2>2. req[r].name \notin overlapped
    BY <1>1
  <2>3. req[r].id \in DOMAIN rows
    BY <1>1, <1>2, <1>3, <2>1, <2>2 DEF Chosen
  <2> QED
    BY <1>1, <1>2, <1>3, <2>3
<1>4. CASE l \in links
  <2>1. \/ l.id \in DOMAIN rows
        \/ \E s \in Requests : req[s].step = "unlink" /\ req[s].id = l.id
    BY <1>1, <1>4 DEF LinksAlive, At
  <2>2. ASSUME NEW s \in Requests, req[s].step = "unlink", req[s].id = l.id
        PROVE  req'[s].step = "unlink" /\ req'[s].id = l.id
    BY <1>1, <2>2
  <2> QED
    BY <1>1, <2>1, <2>2
<1> QED
  BY <1>1, <1>3, <1>4

\* No step leaves a link to a file that is gone.
LEMMA NextLinks ==
  ASSUME RowsInv, LinksAlive, NEW r \in Requests, FileStart(r) \/ FileStep(r) \/ BuildStep(r),
         \A s \in Requests : s # r => req'[s] = req[s]
  PROVE  LinksAlive'
<1>1. CASE DropRow(r)  BY <1>1, DropRowLinks, Zenon
<1>2. CASE DropLinks(r)  BY <1>2, DropLinksLinks, Zenon
<1>3. CASE AddLink(r)  BY <1>3, AddLinkLinks, Zenon
<1>4. ASSUME UNCHANGED rows \/ DOMAIN rows \subseteq DOMAIN rows', links' \subseteq links,
             overlapped \subseteq overlapped', req[r].step # "unlink"
      PROVE  LinksAlive'
  BY <1>4, LinksKept
<1>5. CASE FileStart(r)
  <2>1. /\ \E q : Start(r, q)
        /\ UNCHANGED <<rows, links>>
    BY <1>5, Zenon DEF FileStart, Upload, Delete, Save, DropBuild, UploadOpen, DeleteLookup,
                       SelectFiles, DeleteBuild, fileVars
  <2> QED
    BY <1>4, <2>1 DEF Start, At
<1>6. CASE FindRow(r)
  <2>1. UNCHANGED <<rows, links, overlapped>> /\ req[r].step = "find"
    BY <1>6, FindRowRows, Zenon
  <2> QED
    BY <1>4, <2>1
<1>7. CASE StoreRow(r)
  <2>1. /\ UNCHANGED <<links, overlapped>> /\ req[r].step = "store"
        /\ DOMAIN rows \subseteq DOMAIN rows'
    BY <1>7, StoreRowRows, Zenon
  <2> QED
    BY <1>4, <2>1
<1>8. CASE WriteFile(r)
  <2>1. UNCHANGED <<rows, links, overlapped>> /\ req[r].step = "write"
    BY <1>8, WriteFileRows, Zenon
  <2> QED
    BY <1>4, <2>1
<1>9. CASE RemoveFile(r)
  <2>1. UNCHANGED <<rows, links, overlapped>> /\ req[r].step = "remove"
    BY <1>9, RemoveFileRows, Zenon
  <2> QED
    BY <1>4, <2>1
<1>10. CASE ClearLinks(r)
  <2>1. UNCHANGED <<rows, overlapped>> /\ req[r].step = "clear" /\ links' \subseteq links
    BY <1>10, ClearLinksRows, Zenon
  <2> QED
    BY <1>4, <2>1
<1>11. CASE PickUser(r)
  <2>1. UNCHANGED <<rows, links, overlapped>> /\ req[r].step = "pick"
    BY <1>11, PickUserRows, Zenon
  <2> QED
    BY <1>4, <2>1
<1>12. CASE PickSuggested(r)
  <2>1. UNCHANGED <<rows, links, overlapped>> /\ req[r].step = "pick"
    BY <1>12, PickSuggestedRows, Zenon
  <2> QED
    BY <1>4, <2>1
<1>13. CASE BuildStep(r)
  <2>1. UNCHANGED <<rows, overlapped>> /\ req[r].op \in {"save", "deletebuild"}
    BY <1>13, BuildStepMoves, MovedRows, Zenon
  <2>2. links' \subseteq links
    BY <1>13, BuildStepMoves, Zenon DEF Moved
  <2>3. req[r].step # "unlink"
    <3>1. Busy(req[r])
      BY OfRequest DEF Fits
    <3> QED
      BY <2>1, <3>1 DEF Busy, BuildSteps
  <2> QED
    BY <1>4, <2>1, <2>2, <2>3
<1> QED
  BY <1>1, <1>2, <1>3, <1>5, <1>6, <1>7, <1>8, <1>9, <1>10, <1>11, <1>12, <1>13, Zenon
     DEF FileStep

-----------------------------------------------------------------------------
(***************************************************************************)
(* FilesInv is inductive                                                   *)
(***************************************************************************)
LEMMA InitFiles == PInit => FilesInv
<1> SUFFICES ASSUME PInit PROVE FilesInv
  OBVIOUS
<1>1. /\ rows = <<>> /\ disk = [n \in Names |-> 0] /\ links = {}
      /\ req = [r \in Requests |-> Idle]
  BY DEF PInit, Init
<1>2. Disks
  BY <1>1, IdleFits DEF Disks, OneName, Held
<1>3. Files
  <2>1. ASSUME NEW n \in Names PROVE Match(n, rows, disk, data)
    BY <1>1 DEF Match, Named
  <2>2. ASSUME NEW r \in Requests PROVE Half(req[r], rows, disk, data)
    BY <1>1, IdleFits DEF Half
  <2> QED
    BY <2>1, <2>2 DEF Files
<1>4. LinksAlive
  BY <1>1 DEF LinksAlive
<1> QED
  BY <1>2, <1>3, <1>4, InitRows DEF FilesInv

\* Every step, when the server kills no request.
LEMMA NextFiles ==
  "crash" \notin Faults /\ FilesInv /\ [PNext]_allVars => FilesInv'
<1> SUFFICES ASSUME "crash" \notin Faults, FilesInv, [PNext]_allVars PROVE FilesInv'
  OBVIOUS
<1> USE DEF FilesInv
<1>1. CASE UNCHANGED allVars
  <2>1. RowsInv'
    BY <1>1, NextRows
  <2>2. UNCHANGED <<rows, nextId, disk, data, links, req, overlapped>>
    BY <1>1 DEF allVars, vars
  <2>3. Disks' /\ Files'
    BY <2>2 DEF Disks, Files, AtRest
  <2>4. LinksAlive'
    BY <2>2 DEF LinksAlive, At
  <2> QED
    BY <2>1, <2>3, <2>4
<1>2. CASE PNext
  <2>1. PICK r \in Requests : FileStart(r) \/ FileStep(r) \/ BuildStep(r) \/ Crash(r)
    BY <1>2, StepsAre
  <2>2. FileStart(r) \/ FileStep(r) \/ BuildStep(r)
    BY <2>1, Zenon DEF Crash
  <2>3. \A s \in Requests : s # r => req'[s] = req[s]
    BY <2>2, OthersStay
  <2>4. Disks' /\ Files'
    <3>1. CASE Upload(r)  BY <2>3, <3>1, UploadOpenFiles, Zenon DEF Upload
    <3>2. CASE Delete(r)  BY <2>3, <3>2, DeleteLookupFiles, Zenon DEF Delete
    <3>3. CASE FindRow(r)  BY <2>3, <3>3, FindRowFiles, Zenon
    <3>4. CASE StoreRow(r)  BY <2>3, <3>4, StoreRowFiles, Zenon
    <3>5. CASE WriteFile(r)  BY <2>3, <3>5, WriteFileFiles, Zenon
    <3>6. CASE RemoveFile(r)  BY <2>3, <3>6, RemoveFileFiles, Zenon
    <3>7. CASE DropRow(r)  BY <2>3, <3>7, DropRowFiles, Zenon
    <3>8. CASE DropLinks(r)  BY <2>3, <3>8, DropLinksFiles, Zenon
    <3>9. CASE PickSuggested(r)  BY <2>3, <3>9, PickSuggestedFiles, Zenon
    <3>10. CASE Save(r) \/ DropBuild(r) \/ ClearLinks(r) \/ PickUser(r) \/ AddLink(r)
                \/ BuildStep(r)
      BY <2>3, <3>10, QuietFiles, Zenon
    <3> QED  BY <2>2, <3>1, <3>2, <3>3, <3>4, <3>5, <3>6, <3>7, <3>8, <3>9, <3>10, Zenon
             DEF FileStart, FileStep
  <2>5. LinksAlive'
    BY <2>2, <2>3, NextLinks
  <2>6. RowsInv'
    BY <1>2, NextRows
  <2> QED
    BY <2>4, <2>5, <2>6
<1> QED
  BY <1>1, <1>2

\* Uploads, deletions and saves of one user's files, as long as the server kills no
\* request: what the directory rom_fs, the table and the links hold at every step,
\* the steps in the middle of a request included.
THEOREM FilesInvariant == "crash" \notin Faults => (PSpec => []FilesInv)
<1> SUFFICES ASSUME "crash" \notin Faults PROVE PSpec => []FilesInv
  OBVIOUS
<1>1. FilesInv /\ [PNext]_allVars => FilesInv'
  BY NextFiles
<1> QED
  BY InitFiles, <1>1, PTL DEF PSpec

\* When upload, delete or the copy of a suggested file is through with a name nobody
\* raced on, the table and the directory agree on it: a row has its file, whole and of
\* one writer, and a file that was not suggested has its row.
THEOREM NamesMatch == "crash" \notin Faults => (PSpec => []RowsMatchDisk)
<1>1. FilesInv => RowsMatchDisk
  <2> SUFFICES ASSUME FilesInv, NEW n \in Names, Quiet(n)
               PROVE  /\ IdsNamed(n) # {} => disk[n] # 0 /\ Cardinality(data[disk[n]]) = 1
                      /\ disk[n] # 0 => IdsNamed(n) # {} \/ n \in RangeOf(Suggested)
    BY DEF RowsMatchDisk
  <2>1. AtRest(n)
    <3>1. ASSUME NEW r \in Requests, n \in req[r].claims PROVE FALSE
      <4>1. req[r].step = "idle"
        BY <3>1 DEF Quiet, ClaimedBy, Active, At
      <4>2. Busy(req[r])
        BY OfRequest DEF FilesInv, Fits
      <4> QED
        BY <3>1, <4>1, <4>2 DEF Busy, BuildSteps
    <3> QED
      BY <3>1 DEF AtRest
  <2>2. Match(n, rows, disk, data)
    BY <2>1 DEF FilesInv, Files, Quiet
  <2>3. Named(rows, n) = IdsNamed(n)
    BY DEF Named, IdsNamed
  <2>4. \A x : Cardinality({x}) = 1
    BY FS_Singleton
  <2> QED
    BY <2>2, <2>3, <2>4 DEF Match
<1> QED
  BY <1>1, FilesInvariant, PTL

\* A build is never left with a link to a file that was deleted, unless two requests
\* were at work on one name, or the request that deletes it still has its links to drop.
THEOREM NoDanglingLink == "crash" \notin Faults => (PSpec => []LinksAlive)
<1>1. FilesInv => LinksAlive
  BY DEF FilesInv
<1> QED
  BY <1>1, FilesInvariant, PTL

-----------------------------------------------------------------------------
(***************************************************************************)
(* II. Generations                                                         *)
(***************************************************************************)

(***************************************************************************)
(* When it holds                                                           *)
(***************************************************************************)
Single == \A r, s \in Requests : r = s

NoRetarget == "retarget" \notin Faults

\* All builds of a user park their binary in one directory, under a name the
\* CPU of the target gives: requests do not share a build or a CPU, and a
\* directory with binaries of two CPUs has nobody beside it.
Separate == "overlap" \notin Faults /\ (NoRetarget \/ Single)

-----------------------------------------------------------------------------
(***************************************************************************)
(* The invariant                                                           *)
(***************************************************************************)
DirFields    == {"there", "romfs", "listed", "bins", "log"}
JobFields    == {"no", "of", "row", "list", "listed", "found", "bin", "told", "got"}
ParentFields == {"bins", "log"}

IsDir(d)    == DOMAIN d = DirFields /\ d.bins \in [Targets -> Nat] /\ d.log \in Nat
IsParent(p) == DOMAIN p = ParentFields /\ p.bins \in [Targets -> Nat] /\ p.log \in Nat
IsJob(j)    == /\ DOMAIN j = JobFields /\ j.no \in Nat
               /\ j.told \in {"nothing", "image", "log"} /\ j.found \in {"nothing", "bin", "log"}

PipeType ==
  /\ nextBuild \in Nat \ {0} /\ nextGen \in Nat \ {0}
  /\ DOMAIN builds \subseteq Builds
  /\ \A b \in DOMAIN builds : b < nextBuild /\ builds[b].target \in Targets
  /\ DOMAIN dir = Builds /\ \A b \in Builds : IsDir(dir[b])
  /\ IsParent(parent)
  /\ DOMAIN job = Requests /\ \A r \in Requests : IsJob(job[r])
  /\ DOMAIN made = 1..MaxGen

\* Every save that has not begun its generation has a number left for it.
SaveSteps  == {"clear", "pick", "find", "store", "link"}
Pending(f) == {r \in Requests : f[r].op = "save" /\ f[r].step \in SaveSteps}
Bounded    == nextGen + Cardinality(Pending(req)) <= MaxGen + 1

\* Every generation has a number of its own, and made nothing before it began.
Numbers ==
  /\ \A r \in Requests : job[r].no < nextGen
  /\ \A r, s \in Requests : r # s /\ job[r].no = job[s].no => job[r].no = 0
  /\ \A g \in 1..MaxGen : g >= nextGen => made[g].build = 0

\* Requests at work at the same time are on different builds and targets.
TargetIn(f, b) == IF b \in DOMAIN f THEN {f[b].target} ELSE {}
Exclusive ==
  \A r, s \in Requests : r # s /\ req[r].step # "idle" /\ req[s].step # "idle" =>
    /\ req[r].build = req[s].build => req[r].build = 0
    /\ TargetIn(builds, req[r].build) \cap TargetIn(builds, req[s].build) = {}

\* Generation g made an image for the build b; for none when b is 0.
MadeFor(m, g, b) == g \in 1..MaxGen /\ m[g].build = b

\* The binaries in the directory of a build were made for that build, and as
\* long as targets do not change, for its target.
DirOf(b, d, f, m) ==
  /\ ~d[b].there => d[b].bins = NoBins
  /\ \A t \in Targets : d[b].bins[t] # 0 =>
       /\ MadeFor(m, d[b].bins[t], b)
       /\ NoRetarget => b \in DOMAIN f /\ f[b].target = t
Dirs == \A b \in Builds : DirOf(b, dir, builds, made)

\* The build a request works on.
OnBuild(q, k) ==
  /\ q.op \in {"save", "deletebuild"} => q.build \in Builds /\ q.build < k
  /\ q.op \in {"none", "upload", "delete"} => q.build = 0

\* What the user was told of the last generation.
Answer(j, m) ==
  /\ j.told = "image" /\ j.got # 0 => j.of # 0 /\ MadeFor(m, j.got, j.of)
  /\ j.told = "image" /\ NoRetarget /\ "scons" \notin Faults => j.got = j.no
  /\ j.told = "log" => MadeFor(m, j.no, 0) /\ (Single => j.got = j.no)

\* A generation that has not compiled yet, that just has, and that has parked
\* its binary or its log.
Compiling == {"mkdir", "base", "clearrom", "list", "copy", "conf", "scons"}
Compiled(b, j, d, m) ==
  /\ d[b].log = j.no
  /\ \/ MadeFor(m, j.no, b) /\ d[b].bins[j.row.target] = j.no
     \/ MadeFor(m, j.no, 0) /\ "scons" \in Faults
Parked(b, j, p, m) ==
  \/ /\ j.found = "bin" /\ j.bin \in Targets
     /\ MadeFor(m, p.bins[j.bin], b)
     /\ NoRetarget => j.bin = j.row.target
     /\ NoRetarget /\ "scons" \notin Faults => p.bins[j.bin] = j.no
  \/ /\ j.found = "log" /\ MadeFor(m, j.no, 0) /\ "scons" \in Faults
     /\ Single => p.log = j.no

Generating(s, b, j, f, d, p, m) ==
  /\ b \in DOMAIN f /\ j.row.target = f[b].target /\ j.no \in 1..MaxGen
  /\ s # "mkdir" => d[b].there
  /\ s \in Compiling => MadeFor(m, j.no, 0)
  /\ s = "check" => Compiled(b, j, d, m)
  /\ s \in {"pack", "back"} => Parked(b, j, p, m)

Phase(q, j, f, d, p, m) ==
  /\ q.step # "idle" => j.told = "nothing"
  /\ j.found # "nothing" => q.step \in {"pack", "back"}
  /\ q.step \in BuildSteps => Generating(q.step, q.build, j, f, d, p, m)

Phases == \A r \in Requests : /\ OnBuild(req[r], nextBuild) /\ Answer(job[r], made)
                              /\ Phase(req[r], job[r], builds, dir, parent, made)

\* The parent directory holds nothing of a request that is gone, unless one was killed.
Clean == "crash" \notin Faults => ParentClean

PipeInv == PipeType /\ Bounded /\ Numbers /\ Exclusive /\ Dirs /\ Phases /\ Clean

-----------------------------------------------------------------------------
(***************************************************************************)
(* What a step leaves alone                                                *)
(***************************************************************************)

\* A step by r for the build b, on which no other request works.
Framed(r, b) ==
  /\ \A s \in Requests : s # r => req'[s] = req[s] /\ job'[s] = job[s]
  /\ \A s \in Requests : s # r /\ req[s].step # "idle" /\ req[s].build \in Builds =>
       req[s].build # b
  /\ \A c \in Builds : c # b =>
       /\ dir'[c] = dir[c] /\ (c \in DOMAIN builds' <=> c \in DOMAIN builds)
       /\ c \in DOMAIN builds => builds'[c] = builds[c]
  /\ \A s \in Requests : s # r /\ job[s].found = "bin" =>
       parent'.bins[job[s].bin] = parent.bins[job[s].bin]
  /\ \A g \in 1..MaxGen : made'[g].build # made[g].build =>
       g = job[r].no /\ made[g].build = 0
  /\ nextBuild \in Nat /\ nextBuild' \in Nat /\ nextBuild <= nextBuild'

\* The facts about one request that the lemmas below start from.
LEMMA OfPhase ==
  ASSUME RowsInv, PipeInv, NEW r \in Requests
  PROVE  /\ req[r] \in Request /\ Busy(req[r]) /\ IsJob(job[r])
         /\ OnBuild(req[r], nextBuild) /\ Answer(job[r], made)
         /\ Phase(req[r], job[r], builds, dir, parent, made)
<1>1. req[r] \in Request /\ Busy(req[r])
  BY OfRequest DEF Fits
<1> QED
  BY <1>1 DEF PipeInv, PipeType, Phases

\* A generation runs in a request that saves.
LEMMA GeneratingSaves ==
  ASSUME NEW q, Busy(q), q.step \in BuildSteps
  PROVE  q.op = "save" /\ q.step # "idle"
BY DEF Busy, BuildSteps

\* Whatever was made stays made, and other requests' numbers are not touched.
LEMMA MadeStays ==
  ASSUME PipeInv, NEW r \in Requests, NEW b, Framed(r, b)
  PROVE  /\ \A g, c : c # 0 /\ MadeFor(made, g, c) => MadeFor(made', g, c)
         /\ \A s \in Requests : \A c : s # r /\ MadeFor(made, job[s].no, c) =>
              MadeFor(made', job[s].no, c)
<1>1. \A g, c : c # 0 /\ MadeFor(made, g, c) => MadeFor(made', g, c)
  BY DEF Framed, MadeFor
<1>2. ASSUME NEW s \in Requests, NEW c, s # r, MadeFor(made, job[s].no, c)
      PROVE  MadeFor(made', job[s].no, c)
  <2>1. job[s].no \in 1..MaxGen /\ job[s].no # job[r].no
    BY <1>2 DEF PipeInv, Numbers, MadeFor
  <2> QED
    BY <1>2, <2>1 DEF Framed, MadeFor
<1> QED
  BY <1>1, <1>2

\* A step by r changes nothing that another request relies on.
LEMMA OtherPhase ==
  ASSUME RowsInv, PipeInv, NEW r \in Requests, NEW b, Framed(r, b),
         NEW s \in Requests, s # r
  PROVE  /\ OnBuild(req'[s], nextBuild') /\ Answer(job'[s], made')
         /\ Phase(req'[s], job'[s], builds', dir', parent', made')
<1> DEFINE q == req[s]
           j == job[s]
           c == req[s].build
<1>1. req'[s] = q /\ job'[s] = j
  BY DEF Framed
<1>2. /\ Busy(q) /\ OnBuild(q, nextBuild) /\ Answer(j, made)
      /\ Phase(q, j, builds, dir, parent, made)
  BY OfPhase
<1>3. OnBuild(q, nextBuild')
  <2>1. nextBuild \in Nat /\ nextBuild' \in Nat /\ nextBuild <= nextBuild'
    BY DEF Framed
  <2>2. \A i \in Builds : i < nextBuild => i < nextBuild'
    BY <2>1, PipelineAssumption
  <2> QED
    BY <1>2, <2>2 DEF OnBuild
<1>4. Answer(j, made')
  BY <1>2, MadeStays DEF Answer
<1>5. ASSUME q.step \in BuildSteps
      PROVE  Generating(q.step, c, j, builds', dir', parent', made')
  <2>1. q.op = "save" /\ q.step # "idle"
    BY <1>2, <1>5, GeneratingSaves
  <2>2. c \in Builds /\ c # b
    BY <1>2, <2>1 DEF OnBuild, Framed
  <2>3. c # 0
    BY <2>2, PipelineAssumption
  <2>4. Generating(q.step, c, j, builds, dir, parent, made)
    BY <1>2, <1>5 DEF Phase
  <2>5. dir'[c] = dir[c] /\ c \in DOMAIN builds' /\ builds'[c] = builds[c]
    BY <2>2, <2>4 DEF Framed, Generating
  <2>6. \A x : MadeFor(made, j.no, x) => MadeFor(made', j.no, x)
    BY MadeStays
  <2>7. Compiled(c, j, dir, made) => Compiled(c, j, dir', made')
    BY <2>5, <2>6 DEF Compiled
  <2>8. ~Single
    BY DEF Single
  <2>9. j.found = "bin" => parent'.bins[j.bin] = parent.bins[j.bin]
    BY DEF Framed
  <2>10. Parked(c, j, parent, made) => Parked(c, j, parent', made')
    <3>1. ASSUME j.found = "bin", MadeFor(made, parent.bins[j.bin], c)
          PROVE  MadeFor(made', parent'.bins[j.bin], c)
      BY <2>3, <2>9, <3>1, MadeStays
    <3> QED
      BY <2>6, <2>8, <2>9, <3>1 DEF Parked
  <2> HIDE DEF q, j, c
  <2> QED
    BY <2>4, <2>5, <2>6, <2>7, <2>10 DEF Generating
<1>6. Phase(q, j, builds', dir', parent', made')
  BY <1>2, <1>5 DEF Phase
<1> QED
  BY <1>1, <1>3, <1>4, <1>6

\* So what a step must show is about its own request and build.
LEMMA Framing ==
  ASSUME RowsInv, PipeInv, NEW r \in Requests, NEW b, Framed(r, b),
         b \in Builds => DirOf(b, dir', builds', made'),
         OnBuild(req'[r], nextBuild'), Answer(job'[r], made'),
         Phase(req'[r], job'[r], builds', dir', parent', made')
  PROVE  Dirs' /\ Phases'
<1>1. ASSUME NEW c \in Builds, c # b PROVE DirOf(c, dir', builds', made')
  <2>1. DirOf(c, dir, builds, made) /\ c # 0
    BY PipelineAssumption DEF PipeInv, Dirs
  <2>2. /\ dir'[c] = dir[c] /\ (c \in DOMAIN builds' <=> c \in DOMAIN builds)
        /\ c \in DOMAIN builds => builds'[c] = builds[c]
    BY <1>1 DEF Framed
  <2>3. \A g : MadeFor(made, g, c) => MadeFor(made', g, c)
    BY <2>1, MadeStays
  <2> QED
    BY <2>1, <2>2, <2>3 DEF DirOf
<1>2. Dirs'
  BY <1>1 DEF Dirs
<1>3. Phases'
  BY OtherPhase DEF Phases
<1> QED
  BY <1>2, <1>3

\* Nor the target of another request's build.
LEMMA OtherTarget ==
  ASSUME RowsInv, PipeInv, NEW r \in Requests, NEW b, Framed(r, b),
         DOMAIN builds' \subseteq Builds, NEW s \in Requests, s # r, req[s].step # "idle"
  PROVE  TargetIn(builds', req[s].build) = TargetIn(builds, req[s].build)
<1> DEFINE c == req[s].build
<1>1. DOMAIN builds \subseteq Builds
  BY DEF PipeInv, PipeType
<1>2. CASE c \in Builds
  <2>1. c # b
    BY <1>2 DEF Framed
  <2>2. /\ c \in DOMAIN builds' <=> c \in DOMAIN builds
        /\ c \in DOMAIN builds => builds'[c] = builds[c]
    BY <1>2, <2>1 DEF Framed
  <2> QED
    BY <2>2 DEF TargetIn
<1>3. CASE c \notin Builds
  BY <1>1, <1>3 DEF TargetIn
<1> QED
  BY <1>2, <1>3

\* A request that goes on, or ends, stays apart from the others.
LEMMA ExclusiveKept ==
  ASSUME RowsInv, PipeInv, NEW r \in Requests, NEW b, Framed(r, b),
         DOMAIN builds' \subseteq Builds,
         req'[r].step # "idle" =>
           /\ req[r].step # "idle" /\ req'[r].build = req[r].build
           /\ TargetIn(builds', req[r].build) \subseteq TargetIn(builds, req[r].build)
  PROVE  Exclusive'
<1>1. ASSUME NEW s \in Requests, req'[s].step # "idle"
      PROVE  /\ req[s].step # "idle" /\ req'[s].build = req[s].build
             /\ TargetIn(builds', req'[s].build) \subseteq TargetIn(builds, req[s].build)
  <2>1. CASE s = r
    BY <1>1, <2>1
  <2>2. CASE s # r
    <3>1. req'[s] = req[s]
      BY <2>2 DEF Framed
    <3> QED
      BY <1>1, <2>2, <3>1, OtherTarget
  <2> QED
    BY <2>1, <2>2
<1>2. ASSUME NEW s \in Requests, NEW t \in Requests, s # t,
             req'[s].step # "idle", req'[t].step # "idle"
      PROVE  /\ req'[s].build = req'[t].build => req'[s].build = 0
             /\ TargetIn(builds', req'[s].build) \cap TargetIn(builds', req'[t].build) = {}
  <2>1. /\ req[s].build = req[t].build => req[s].build = 0
        /\ TargetIn(builds, req[s].build) \cap TargetIn(builds, req[t].build) = {}
    BY <1>1, <1>2 DEF PipeInv, Exclusive
  <2> QED
    BY <1>1, <1>2, <2>1
<1> QED
  BY <1>2 DEF Exclusive

\* A step that gives no number, to a request or to the next generation.
LEMMA NumbersKept ==
  ASSUME PipeInv, NEW r \in Requests, NEW b, Framed(r, b),
         nextGen' = nextGen, job'[r].no \in {0, job[r].no}
  PROVE  Numbers'
<1>1. nextGen \in Nat \ {0} /\ \A s \in Requests : job[s].no \in Nat /\ job[s].no < nextGen
  BY DEF PipeInv, PipeType, IsJob, Numbers
<1>2. \A s \in Requests : job'[s].no = job[s].no \/ (s = r /\ job'[s].no = 0)
  BY DEF Framed
<1>3. \A s \in Requests : job'[s].no < nextGen'
  BY <1>1, <1>2
<1>4. \A s, t \in Requests : s # t /\ job'[s].no = job'[t].no => job'[s].no = 0
  BY <1>2 DEF PipeInv, Numbers
<1>5. ASSUME NEW g \in 1..MaxGen, g >= nextGen PROVE made'[g].build = 0
  <2>1. made[g].build = 0
    BY <1>5 DEF PipeInv, Numbers
  <2>2. g # job[r].no
    BY <1>1, <1>5
  <2> QED
    BY <2>1, <2>2 DEF Framed
<1> QED
  BY <1>1, <1>3, <1>4, <1>5 DEF Numbers

\* There are finitely many saves at work.
LEMMA PendingFinite ==
  ASSUME NEW f, NEW h, Pending(f) \subseteq Pending(h)
  PROVE  /\ Cardinality(Pending(f)) \in Nat /\ Cardinality(Pending(h)) \in Nat
         /\ Cardinality(Pending(f)) <= Cardinality(Pending(h))
<1>1. IsFiniteSet(Requests) /\ Pending(h) \subseteq Requests
  BY StoreAssumption DEF Pending
<1>2. IsFiniteSet(Pending(h)) /\ IsFiniteSet(Pending(f))
  BY <1>1, FS_Subset
<1> QED
  BY <1>2, FS_Subset, FS_CardinalityType

\* A step that gives no number and starts no save.
LEMMA BoundedKept ==
  ASSUME PipeInv, NEW r \in Requests, NEW b, Framed(r, b), nextGen' = nextGen,
         r \in Pending(req') => r \in Pending(req)
  PROVE  Bounded'
<1>1. Pending(req') \subseteq Pending(req)
  BY DEF Pending, Framed
<1>2. /\ Cardinality(Pending(req')) \in Nat /\ Cardinality(Pending(req)) \in Nat
      /\ Cardinality(Pending(req')) <= Cardinality(Pending(req))
  BY <1>1, PendingFinite
<1>3. nextGen + Cardinality(Pending(req)) <= MaxGen + 1 /\ nextGen \in Nat /\ MaxGen \in Nat
  BY PipelineAssumption DEF PipeInv, Bounded, PipeType
<1>4. nextGen + Cardinality(Pending(req')) <= MaxGen + 1
  BY <1>2, <1>3
<1> QED
  BY <1>4 DEF Bounded

\* A step that leaves the parent directory alone, by a request with nothing there
\* or one that stays at work.
LEMMA CleanKept ==
  ASSUME PipeInv, NEW r \in Requests, NEW b, Framed(r, b), parent' = parent,
         job[r].found # "nothing" => req'[r].step # "idle" /\ job'[r] = job[r]
  PROVE  Clean'
<1> SUFFICES ASSUME "crash" \notin Faults PROVE ParentClean'
  BY DEF Clean
<1>1. ASSUME NEW s \in Active, job[s].found # "nothing"
      PROVE  s \in Active' /\ job'[s] = job[s]
  BY <1>1 DEF Active, At, Framed
<1>2. ParentClean
  BY DEF PipeInv, Clean
<1>3. ASSUME NEW t \in Targets, parent'.bins[t] # 0
      PROVE  \E s \in Active' : job'[s].found = "bin" /\ job'[s].bin = t
  <2>1. PICK s \in Active : job[s].found = "bin" /\ job[s].bin = t
    BY <1>2, <1>3 DEF ParentClean
  <2> QED
    BY <1>1, <2>1
<1>4. ASSUME parent'.log # 0
      PROVE  \E s \in Active' : job'[s].found = "log"
  <2>1. PICK s \in Active : job[s].found = "log"
    BY <1>2, <1>4 DEF ParentClean
  <2> QED
    BY <1>1, <2>1
<1> QED
  BY <1>3, <1>4 DEF ParentClean

\* All a step of a running request must show.
LEMMA StepKept ==
  ASSUME RowsInv, PipeInv, NEW r \in Requests, NEW b, Framed(r, b), PipeType', Clean',
         nextGen' = nextGen, job'[r].no \in {0, job[r].no},
         r \in Pending(req') => r \in Pending(req),
         req'[r].step # "idle" =>
           /\ req[r].step # "idle" /\ req'[r].build = req[r].build
           /\ TargetIn(builds', req[r].build) \subseteq TargetIn(builds, req[r].build),
         b \in Builds => DirOf(b, dir', builds', made'),
         OnBuild(req'[r], nextBuild'), Answer(job'[r], made'),
         Phase(req'[r], job'[r], builds', dir', parent', made')
  PROVE  PipeInv'
<1>1. Dirs' /\ Phases'
  BY Framing
<1>2. Exclusive'
  BY ExclusiveKept DEF PipeType
<1>3. Numbers' /\ Bounded'
  BY NumbersKept, BoundedKept
<1> QED
  BY <1>1, <1>2, <1>3 DEF PipeInv

-----------------------------------------------------------------------------
(***************************************************************************)
(* generate(), up to the compiler                                          *)
(***************************************************************************)

\* A request that goes on to a step, and one that ends.
WentTo(r, s) == /\ req'[r].step = s /\ req'[r].op = req[r].op /\ req'[r].build = req[r].build
                /\ \A t \in Requests : t # r => req'[t] = req[t]
Ended(r)     == /\ req'[r].step = "idle" /\ req'[r].op = "none" /\ req'[r].build = 0
                /\ \A t \in Requests : t # r => req'[t] = req[t]

\* Step is a move to that step.
LEMMA StepIs ==
  ASSUME RowsInv, NEW r \in Requests, NEW s \in Steps, Step(r, s)
  PROVE  WentTo(r, s)
<1>1. req' = [req EXCEPT ![r] = To(req[r], s)]
  BY Zenon DEF Step, Go, To
<1>2. req[r] \in Request /\ req \in [Requests -> Request]
  BY OfRequest
<1>3. To(req[r], s).step = s /\ To(req[r], s).op = req[r].op /\ To(req[r], s).build = req[r].build
  BY <1>2, ToIs
<1> QED
  BY <1>1, <1>2, <1>3 DEF WentTo

\* Finish ends the request.
LEMMA FinishIs ==
  ASSUME RowsInv, NEW r \in Requests, Finish(r)
  PROVE  Ended(r)
<1>1. req' = [req EXCEPT ![r] = Idle]
  BY Zenon DEF Finish, Go
<1>2. req \in [Requests -> Request]
  BY OfRequest
<1>3. Idle.step = "idle" /\ Idle.op = "none" /\ Idle.build = 0
  BY DEF Idle
<1> HIDE DEF Idle
<1> QED
  BY <1>1, <1>2, <1>3 DEF Ended

\* What is known of a running generation.
LEMMA OfGeneration ==
  ASSUME RowsInv, PipeInv, NEW r \in Requests, req[r].step \in BuildSteps
  PROVE  /\ req[r].op = "save" /\ req[r].step # "idle" /\ req[r].build \in DOMAIN builds
         /\ req[r].build \in Builds /\ req[r].build < nextBuild /\ req[r].build # 0
         /\ IsDir(dir[req[r].build]) /\ DirOf(req[r].build, dir, builds, made)
         /\ job[r].told = "nothing" /\ job[r].no # 0 /\ IsJob(job[r])
         /\ Generating(req[r].step, req[r].build, job[r], builds, dir, parent, made)
         /\ \A s \in Requests : s # r /\ req[s].step # "idle" => req[s].build # req[r].build
<1>1. req[r].op = "save" /\ req[r].step # "idle"
  BY OfPhase, GeneratingSaves
<1>2. req[r].build \in Builds /\ req[r].build < nextBuild
  BY <1>1, OfPhase DEF OnBuild
<1>3. req[r].build # 0
  BY <1>2, PipelineAssumption
<1>4. IsDir(dir[req[r].build]) /\ DirOf(req[r].build, dir, builds, made)
  BY <1>2 DEF PipeInv, PipeType, Dirs
<1>5. /\ Generating(req[r].step, req[r].build, job[r], builds, dir, parent, made)
      /\ job[r].told = "nothing" /\ IsJob(job[r])
  BY <1>1, OfPhase DEF Phase
<1>6. job[r].no # 0 /\ req[r].build \in DOMAIN builds
  BY <1>5 DEF Generating
<1>7. \A s \in Requests : s # r /\ req[s].step # "idle" => req[s].build # req[r].build
  BY <1>1, <1>3 DEF PipeInv, Exclusive
<1> QED
  BY <1>1, <1>2, <1>3, <1>4, <1>5, <1>6, <1>7

\* What a step before the compiler may do with the directory and the variables.
SameBins(d, e) == IsDir(e) /\ e.bins = d.bins /\ (d.there => e.there)
SameJob(i, j)  == /\ IsJob(i) /\ i.no = j.no /\ i.row = j.row
                  /\ i.told = j.told /\ i.found = j.found

\* The row of the build may be written again, as long as its target stays.
SameRows(f, g, b) == /\ DOMAIN g = DOMAIN f
                     /\ \A c \in DOMAIN f : /\ g[c].target = f[c].target
                                            /\ c # b => g[c] = f[c]

\* A step before the compiler, which may write the row of the build again: the
\* binaries stay, so the directory, the answers and the others are as they were.
LEMMA CompileStepOn ==
  ASSUME RowsInv, PipeInv, NEW r \in Requests, NEW s \in Compiling, WentTo(r, s),
         req[r].step \in Compiling, UNCHANGED <<nextBuild, parent, made, nextGen>>,
         SameRows(builds, builds', req[r].build),
         DOMAIN dir' = Builds, \A c \in Builds : c # req[r].build => dir'[c] = dir[c],
         SameBins(dir[req[r].build], dir'[req[r].build]),
         s # "mkdir" => dir'[req[r].build].there,
         DOMAIN job' = Requests, \A t \in Requests : t # r => job'[t] = job[t],
         SameJob(job'[r], job[r])
  PROVE  PipeInv'
<1> DEFINE b == req[r].build
<1>1. req[r].step \in BuildSteps /\ s \in BuildSteps /\ s # "idle" /\ s \notin {"pack", "back", "check"}
  BY DEF Compiling, BuildSteps
<1>2. /\ req[r].op = "save" /\ req[r].step # "idle" /\ b \in DOMAIN builds
      /\ b \in Builds /\ b < nextBuild /\ DirOf(b, dir, builds, made)
      /\ job[r].told = "nothing" /\ IsJob(job[r])
      /\ Generating(req[r].step, b, job[r], builds, dir, parent, made)
      /\ \A t \in Requests : t # r /\ req[t].step # "idle" => req[t].build # b
  BY <1>1, OfGeneration
<1>3. req'[r].step = s /\ req'[r].op = "save" /\ req'[r].build = b
      /\ \A t \in Requests : t # r => req'[t] = req[t]
  BY <1>2 DEF WentTo
<1>4. /\ job'[r].told = "nothing" /\ job'[r].no = job[r].no /\ job'[r].row = job[r].row
      /\ IsJob(job'[r]) /\ job'[r].found = job[r].found
  BY <1>2 DEF SameJob
<1>5. job[r].found = "nothing"
  <2>1. Phase(req[r], job[r], builds, dir, parent, made)
    BY OfPhase
  <2> QED
    BY <2>1 DEF Phase, Compiling
<1>6. Framed(r, b)
  BY <1>2, <1>3 DEF Framed, PipeInv, PipeType, SameRows
<1>7. PipeType'
  <2>1. \A c \in Builds : IsDir(dir'[c])
    BY <1>2 DEF SameBins, PipeInv, PipeType
  <2>2. \A t \in Requests : IsJob(job'[t])
    BY <1>4 DEF PipeInv, PipeType
  <2>3. /\ DOMAIN builds' \subseteq Builds
        /\ \A c \in DOMAIN builds' : c < nextBuild /\ builds'[c].target \in Targets
    BY DEF PipeInv, PipeType, SameRows
  <2> QED
    BY <2>1, <2>2, <2>3 DEF PipeInv, PipeType
<1>8. Clean'
  BY <1>5, <1>6, CleanKept
<1>9. DirOf(b, dir', builds', made')
  <2>1. dir'[b].bins = dir[b].bins /\ (dir[b].there => dir'[b].there)
    BY DEF SameBins
  <2>2. /\ DOMAIN builds' = DOMAIN builds
        /\ \A c \in DOMAIN builds : builds'[c].target = builds[c].target
    BY DEF SameRows
  <2>3. DirOf(b, dir, builds, made) /\ made' = made
    BY <1>2
  <2> HIDE DEF b
  <2>4. /\ ~dir'[b].there => dir'[b].bins = NoBins
        /\ dir'[b].bins = dir[b].bins
    BY <2>1, <2>3 DEF DirOf
  <2>5. \A t : NoRetarget /\ b \in DOMAIN builds /\ builds[b].target = t =>
               b \in DOMAIN builds' /\ builds'[b].target = t
    BY <2>2
  <2> QED
    BY <2>3, <2>4, <2>5 DEF DirOf
<1>10. Generating(s, b, job'[r], builds', dir', parent', made')
  BY <1>1, <1>2, <1>4 DEF Generating, SameRows
<1>11. Phase(req'[r], job'[r], builds', dir', parent', made')
  BY <1>3, <1>4, <1>5, <1>10 DEF Phase
<1>12. OnBuild(req'[r], nextBuild') /\ Answer(job'[r], made')
  BY <1>2, <1>3, <1>4 DEF OnBuild, Answer
<1>13. r \notin Pending(req')
  BY <1>1, <1>3 DEF Pending, SaveSteps, BuildSteps
<1>14. TargetIn(builds', b) = TargetIn(builds, b)
  BY <1>2 DEF TargetIn, SameRows
<1> HIDE DEF b
<1> QED
  BY <1>2, <1>3, <1>4, <1>6, <1>7, <1>8, <1>9, <1>11, <1>12, <1>13, <1>14, StepKept DEF b

\* The same for a step that leaves the rows alone.
LEMMA CompileStep ==
  ASSUME RowsInv, PipeInv, NEW r \in Requests, NEW s \in Compiling, WentTo(r, s),
         req[r].step \in Compiling, UNCHANGED <<builds, nextBuild, parent, made, nextGen>>,
         DOMAIN dir' = Builds, \A c \in Builds : c # req[r].build => dir'[c] = dir[c],
         SameBins(dir[req[r].build], dir'[req[r].build]),
         s # "mkdir" => dir'[req[r].build].there,
         DOMAIN job' = Requests, \A t \in Requests : t # r => job'[t] = job[t],
         SameJob(job'[r], job[r])
  PROVE  PipeInv'
<1>1. SameRows(builds, builds', req[r].build)
  BY DEF SameRows
<1>2. UNCHANGED <<nextBuild, parent, made, nextGen>>
  OBVIOUS
<1> QED
  BY <1>1, <1>2, CompileStepOn

\* The fields of the empty directory, and of none.
LEMMA EmptyDirIs ==
  /\ IsDir(EmptyDir) /\ EmptyDir.there /\ EmptyDir.bins = NoBins
  /\ IsDir(Missing) /\ ~Missing.there /\ Missing.bins = NoBins
BY DEF IsDir, DirFields, EmptyDir, Missing, NoBins

\* A directory with other files for the image, or another list of them.
WithRomfs(d, x)  == [d EXCEPT !.romfs = x]
WithFile(d, n, x) == [d EXCEPT !.romfs[n] = x]
WithListed(d, y) == [d EXCEPT !.listed = y]
WithBoth(d, x, y) == [d EXCEPT !.listed = y, !.romfs = x]

\* Changing the files of a directory leaves its binaries.
LEMMA NewRomfs ==
  ASSUME NEW d, IsDir(d), d.there, NEW x, NEW y
  PROVE  /\ SameBins(d, WithRomfs(d, x)) /\ WithRomfs(d, x).there
         /\ SameBins(d, WithFile(d, y, x)) /\ WithFile(d, y, x).there
         /\ SameBins(d, WithListed(d, y)) /\ WithListed(d, y).there
         /\ SameBins(d, WithBoth(d, x, y)) /\ WithBoth(d, x, y).there
BY DEF SameBins, IsDir, DirFields, WithRomfs, WithFile, WithListed, WithBoth

\* The directory as it is, and the variables as they are.
LEMMA SameAgain == /\ \A d : IsDir(d) => SameBins(d, d)
                   /\ \A j : IsJob(j) => SameJob(j, j)
BY DEF SameBins, SameJob

\* What is known of a generation before the compiler runs.
LEMMA OfCompiling ==
  ASSUME RowsInv, PipeInv, NEW r \in Requests, req[r].step \in Compiling
  PROVE  /\ req[r].build \in Builds /\ IsDir(dir[req[r].build]) /\ IsJob(job[r])
         /\ DirOf(req[r].build, dir, builds, made)
         /\ req[r].step # "mkdir" => dir[req[r].build].there
         /\ DOMAIN dir = Builds /\ DOMAIN job = Requests
<1>1. req[r].step \in BuildSteps
  BY DEF Compiling, BuildSteps
<1> QED
  BY <1>1, OfGeneration DEF Generating, PipeInv, PipeType

\* checkDir: a directory made anew holds no binary.
LEMMA MakeDirKeeps ==
  ASSUME RowsInv, PipeInv, NEW r \in Requests, MakeDir(r)
  PROVE  PipeInv'
<1> DEFINE b == req[r].build
<1>1. /\ Step(r, "base") /\ UNCHANGED <<builds, nextBuild, parent, job, made, nextGen>>
  BY Zenon DEF MakeDir
<1>2. req[r].step \in Compiling
  BY DEF MakeDir, At, Compiling
<1>3. WentTo(r, "base") /\ "base" \in Compiling
  BY <1>1, StepIs DEF Compiling, Steps, BuildSteps
<1>4. /\ b \in Builds /\ IsDir(dir[b]) /\ IsJob(job[r]) /\ DirOf(b, dir, builds, made)
      /\ DOMAIN dir = Builds /\ DOMAIN job = Requests
  BY <1>2, OfCompiling
<1>5. dir' = IF dir[b].there THEN dir ELSE [dir EXCEPT ![b] = EmptyDir]
  BY Zenon DEF MakeDir, OwnDir
<1>6. DOMAIN dir' = Builds /\ \A c \in Builds : c # b => dir'[c] = dir[c]
  BY <1>4, <1>5
<1>7. SameBins(dir[b], dir'[b]) /\ dir'[b].there
  <2>1. CASE dir[b].there
    BY <1>4, <1>5, <2>1, SameAgain
  <2>2. CASE ~dir[b].there
    <3>1. dir'[b] = EmptyDir /\ dir[b].bins = NoBins
      BY <1>4, <1>5, <2>2 DEF DirOf
    <3> QED
      BY <2>2, <3>1, EmptyDirIs DEF SameBins
  <2> QED
    BY <2>1, <2>2
<1>8. SameJob(job'[r], job[r])
  BY <1>1, <1>4, SameAgain
<1> HIDE DEF b
<1> QED
  BY <1>1, <1>2, <1>3, <1>4, <1>6, <1>7, <1>8, CompileStep DEF b

\* cp -r of the eLua tree brings no binary.
LEMMA CopyBaseKeeps ==
  ASSUME RowsInv, PipeInv, NEW r \in Requests, CopyBase(r)
  PROVE  PipeInv'
<1> DEFINE b   == req[r].build
           rom == [n \in Names |-> IF n \in RangeOf(Suggested) THEN [NoFile EXCEPT !.whole = TRUE]
                                                               ELSE dir[b].romfs[n]]
<1>1. Step(r, "clearrom") /\ UNCHANGED <<builds, nextBuild, parent, job, made, nextGen>>
  BY Zenon DEF CopyBase
<1>2. req[r].step \in Compiling /\ req[r].step = "base"
  BY DEF CopyBase, At, Compiling
<1>3. WentTo(r, "clearrom") /\ "clearrom" \in Compiling
  BY <1>1, StepIs DEF Compiling, Steps, BuildSteps
<1>4. /\ b \in Builds /\ IsDir(dir[b]) /\ IsJob(job[r]) /\ dir[b].there
      /\ DOMAIN dir = Builds /\ DOMAIN job = Requests
  BY <1>2, OfCompiling
<1>5. dir' = [dir EXCEPT ![b].listed = {}, ![b].romfs =
                [n \in Names |-> IF n \in RangeOf(Suggested)
                                 THEN [NoFile EXCEPT !.whole = TRUE] ELSE @[n]]]
  BY <1>4, Zenon DEF CopyBase, OwnDir
<1>6. DOMAIN dir' = Builds /\ \A c \in Builds : c # b => dir'[c] = dir[c]
  BY <1>4, <1>5
<1>7. SameBins(dir[b], dir'[b]) /\ dir'[b].there
  <2>1. dir'[b] = WithBoth(dir[b], rom, {})
    BY <1>4, <1>5 DEF IsDir, DirFields, WithBoth
  <2> HIDE DEF rom
  <2> QED
    BY <1>4, <2>1, NewRomfs
<1>8. SameJob(job'[r], job[r])
  BY <1>1, <1>4, SameAgain
<1> HIDE DEF b, rom
<1> QED
  BY <1>1, <1>2, <1>3, <1>4, <1>6, <1>7, <1>8, CompileStep DEF b

\* Clearing the copied romfs leaves the binaries.
LEMMA ClearRomfsKeeps ==
  ASSUME RowsInv, PipeInv, NEW r \in Requests, ClearRomfs(r)
  PROVE  PipeInv'
<1> DEFINE b == req[r].build
<1>1. Step(r, "list") /\ UNCHANGED <<builds, nextBuild, parent, job, made, nextGen>>
  BY Zenon DEF ClearRomfs
<1>2. req[r].step \in Compiling /\ req[r].step = "clearrom"
  BY DEF ClearRomfs, At, Compiling
<1>3. WentTo(r, "list") /\ "list" \in Compiling
  BY <1>1, StepIs DEF Compiling, Steps, BuildSteps
<1>4. /\ b \in Builds /\ IsDir(dir[b]) /\ IsJob(job[r]) /\ dir[b].there
      /\ DOMAIN dir = Builds /\ DOMAIN job = Requests
  BY <1>2, OfCompiling
<1>5. dir' = [dir EXCEPT ![b].romfs = NoRomfs]
  BY Zenon DEF ClearRomfs
<1>6. DOMAIN dir' = Builds /\ \A c \in Builds : c # b => dir'[c] = dir[c]
  BY <1>4, <1>5
<1>7. SameBins(dir[b], dir'[b]) /\ dir'[b].there
  <2>1. dir'[b] = WithRomfs(dir[b], NoRomfs)
    BY <1>4, <1>5 DEF WithRomfs
  <2> QED
    BY <1>4, <2>1, NewRomfs
<1>8. SameJob(job'[r], job[r])
  BY <1>1, <1>4, SameAgain
<1> HIDE DEF b
<1> QED
  BY <1>1, <1>2, <1>3, <1>4, <1>6, <1>7, <1>8, CompileStep DEF b

\* The variables of generate() with other files to copy.
WithList(j, x, y) == [j EXCEPT !.list = x, !.listed = y]

\* Another list of files to copy changes nothing else in the variables.
LEMMA NewList ==
  ASSUME NEW j, IsJob(j), NEW x, NEW y
  PROVE  SameJob(WithList(j, x, y), j)
BY DEF SameJob, IsJob, JobFields, WithList

\* getFilesByBuild only reads.
LEMMA ListFilesKeeps ==
  ASSUME RowsInv, PipeInv, NEW r \in Requests, ListFiles(r)
  PROVE  PipeInv'
<1> DEFINE b == req[r].build
           l == {[id |-> k.id, user |-> k.user, names |-> NamesOf(k)]
                    : k \in {h \in links : h.build = req[r].build}}
<1>1. Step(r, "copy") /\ UNCHANGED <<builds, nextBuild, dir, parent, made, nextGen>>
  BY Zenon DEF ListFiles
<1>2. req[r].step \in Compiling /\ req[r].step = "list"
  BY DEF ListFiles, At, Compiling
<1>3. WentTo(r, "copy") /\ "copy" \in Compiling
  BY <1>1, StepIs DEF Compiling, Steps, BuildSteps
<1>4. /\ b \in Builds /\ IsDir(dir[b]) /\ IsJob(job[r]) /\ dir[b].there
      /\ DOMAIN dir = Builds /\ DOMAIN job = Requests
  BY <1>2, OfCompiling
<1>5. job' = [job EXCEPT ![r].list = l, ![r].listed = {}]
  BY DEF ListFiles
<1> HIDE DEF l
<1>6. SameBins(dir[b], dir'[b]) /\ dir'[b].there
  BY <1>1, <1>4, SameAgain
<1>7. DOMAIN job' = Requests /\ \A t \in Requests : t # r => job'[t] = job[t]
  BY <1>4, <1>5
<1>8. SameJob(job'[r], job[r])
  <2>1. job'[r] = WithList(job[r], l, {})
    BY <1>4, <1>5 DEF WithList
  <2> QED
    BY <1>4, <2>1, NewList
<1> HIDE DEF b
<1> QED
  BY <1>1, <1>2, <1>3, <1>4, <1>6, <1>7, <1>8, CompileStep DEF b

\* A round of copy_romfs that is no error.
LEMMA CopyFileKeeps ==
  ASSUME RowsInv, PipeInv, NEW r \in Requests, CopyFile(r), ~Fail(r)
  PROVE  PipeInv'
<1> DEFINE b == req[r].build
<1>1. UNCHANGED <<req, builds, nextBuild, parent, made, nextGen>>
  BY Zenon DEF CopyFile
<1>2. req[r].step \in Compiling /\ req[r].step = "copy"
  BY DEF CopyFile, At, Compiling
<1>3. WentTo(r, "copy") /\ "copy" \in Compiling
  BY <1>1, <1>2 DEF WentTo
<1>4. /\ b \in Builds /\ IsDir(dir[b]) /\ IsJob(job[r]) /\ dir[b].there
      /\ DOMAIN dir = Builds /\ DOMAIN job = Requests
  BY <1>2, OfCompiling
<1>5. /\ dir' = dir \/ \E n, x : dir' = [dir EXCEPT ![b].romfs[n] = x]
      /\ \E x, y : job' = [job EXCEPT ![r].list = x, ![r].listed = y]
  BY Zenon DEF CopyFile
<1>6. DOMAIN dir' = Builds /\ \A c \in Builds : c # b => dir'[c] = dir[c]
  BY <1>4, <1>5
<1>7. SameBins(dir[b], dir'[b]) /\ dir'[b].there
  <2>1. CASE dir' = dir
    BY <1>4, <2>1, SameAgain
  <2>2. CASE \E n, x : dir' = [dir EXCEPT ![b].romfs[n] = x]
    <3>1. PICK n, x : dir' = [dir EXCEPT ![b].romfs[n] = x]
      BY <2>2
    <3>2. dir'[b] = WithFile(dir[b], n, x)
      BY <1>4, <3>1 DEF WithFile
    <3> QED
      BY <1>4, <3>2, NewRomfs
  <2> QED
    BY <1>5, <2>1, <2>2
<1>8. PICK x, y : job' = [job EXCEPT ![r].list = x, ![r].listed = y]
  BY <1>5
<1>9. DOMAIN job' = Requests /\ \A t \in Requests : t # r => job'[t] = job[t]
  BY <1>4, <1>8
<1>10. SameJob(job'[r], job[r])
  <2>1. job'[r] = WithList(job[r], x, y)
    BY <1>4, <1>8 DEF WithList
  <2> QED
    BY <1>4, <2>1, NewList
<1> HIDE DEF b
<1> QED
  BY <1>1, <1>2, <1>3, <1>6, <1>7, <1>9, <1>10, CompileStep DEF b

\* SConstruct and platform_conf.h from their templates.
LEMMA WriteConfKeeps ==
  ASSUME RowsInv, PipeInv, NEW r \in Requests, WriteConf(r)
  PROVE  PipeInv'
<1> DEFINE b == req[r].build
<1>1. Step(r, "conf") /\ UNCHANGED <<builds, nextBuild, parent, job, made, nextGen>>
  BY Zenon DEF WriteConf
<1>2. req[r].step \in Compiling /\ req[r].step = "copy"
  BY DEF WriteConf, At, Compiling
<1>3. WentTo(r, "conf") /\ "conf" \in Compiling
  BY <1>1, StepIs DEF Compiling, Steps, BuildSteps
<1>4. /\ b \in Builds /\ IsDir(dir[b]) /\ IsJob(job[r]) /\ dir[b].there
      /\ DOMAIN dir = Builds /\ DOMAIN job = Requests
  BY <1>2, OfCompiling
<1>5. dir' = [dir EXCEPT ![b].listed = job[r].listed]
  BY <1>4, Zenon DEF WriteConf, OwnDir
<1>6. DOMAIN dir' = Builds /\ \A c \in Builds : c # b => dir'[c] = dir[c]
  BY <1>4, <1>5
<1>7. SameBins(dir[b], dir'[b]) /\ dir'[b].there
  <2>1. dir'[b] = WithListed(dir[b], job[r].listed)
    BY <1>4, <1>5 DEF WithListed
  <2> QED
    BY <1>4, <2>1, NewRomfs
<1>8. SameJob(job'[r], job[r])
  BY <1>1, <1>4, SameAgain
<1> HIDE DEF b
<1> QED
  BY <1>1, <1>2, <1>3, <1>4, <1>6, <1>7, <1>8, CompileStep DEF b

\* The row is written back with the target it was read with.
LEMMA StoreConfigsKeeps ==
  ASSUME RowsInv, PipeInv, NEW r \in Requests, StoreConfigs(r)
  PROVE  PipeInv'
<1> DEFINE b == req[r].build
<1>1. Step(r, "scons") /\ UNCHANGED <<nextBuild, dir, parent, job, made, nextGen>>
  BY Zenon DEF StoreConfigs
<1>2. req[r].step \in Compiling /\ req[r].step = "conf"
  BY DEF StoreConfigs, At, Compiling
<1>3. WentTo(r, "scons") /\ "scons" \in Compiling
  BY <1>1, StepIs DEF Compiling, Steps, BuildSteps
<1>4. /\ b \in Builds /\ IsDir(dir[b]) /\ IsJob(job[r]) /\ dir[b].there
      /\ DOMAIN dir = Builds /\ DOMAIN job = Requests
  BY <1>2, OfCompiling
<1>5. b \in DOMAIN builds /\ job[r].row.target = builds[b].target
  <2>1. req[r].step \in BuildSteps
    BY <1>2 DEF BuildSteps
  <2> QED
    BY <2>1, OfGeneration DEF Generating
<1>6. builds' = [builds EXCEPT ![b] = job[r].row]
  BY <1>5, Zenon DEF StoreConfigs
<1>7. SameRows(builds, builds', b)
  BY <1>5, <1>6 DEF SameRows
<1>8. SameBins(dir[b], dir'[b]) /\ dir'[b].there
  BY <1>1, <1>4, SameAgain
<1>9. SameJob(job'[r], job[r])
  BY <1>1, <1>4, SameAgain
<1> HIDE DEF b
<1> QED
  BY <1>1, <1>2, <1>3, <1>4, <1>7, <1>8, <1>9, CompileStepOn DEF b

-----------------------------------------------------------------------------
(***************************************************************************)
(* generate(): the compiler, and what happens with its binary              *)
(***************************************************************************)

\* What such a step must show.
LEMMA GenerateStep ==
  ASSUME RowsInv, PipeInv, NEW r \in Requests, NEW s \in BuildSteps \ {"mkdir"}, WentTo(r, s),
         req[r].step \in BuildSteps, Framed(r, req[r].build), PipeType', Clean',
         UNCHANGED <<builds, nextBuild, nextGen>>,
         job'[r].told = "nothing", job'[r].no = job[r].no,
         job'[r].found # "nothing" => s \in {"pack", "back"},
         DirOf(req[r].build, dir', builds', made'),
         Generating(s, req[r].build, job'[r], builds', dir', parent', made')
  PROVE  PipeInv'
<1> DEFINE b == req[r].build
<1>1. /\ req[r].op = "save" /\ req[r].step # "idle" /\ b \in Builds /\ b < nextBuild
  BY OfGeneration
<1>2. /\ req'[r].step = s /\ req'[r].op = "save" /\ req'[r].build = b
      /\ \A t \in Requests : t # r => req'[t] = req[t]
  BY <1>1 DEF WentTo
<1>3. r \notin Pending(req')
  BY <1>2 DEF Pending, SaveSteps, BuildSteps
<1>4. OnBuild(req'[r], nextBuild') /\ Answer(job'[r], made')
  BY <1>1, <1>2 DEF OnBuild, Answer
<1>5. Phase(req'[r], job'[r], builds', dir', parent', made')
  BY <1>2 DEF Phase
<1>6. TargetIn(builds', b) \subseteq TargetIn(builds, b)
  OBVIOUS
<1>7. DirOf(b, dir', builds', made') /\ Framed(r, b)
  OBVIOUS
<1> HIDE DEF b
<1> QED
  BY <1>1, <1>2, <1>3, <1>4, <1>5, <1>6, <1>7, StepKept DEF b

\* A directory with the binary of the target t and a log, or with a log.
WithImage(d, t, g) == [d EXCEPT !.bins[t] = g, !.log = g]
WithLog(d, g)      == [d EXCEPT !.log = g]
WithBin(d, t, g)   == [d EXCEPT !.bins[t] = g]

\* A directory after the compiler has written a binary, or mv has brought one.
LEMMA NewImage ==
  ASSUME NEW d, IsDir(d), NEW t \in Targets, NEW g \in Nat
  PROVE  /\ IsDir(WithImage(d, t, g)) /\ WithImage(d, t, g).log = g
         /\ WithImage(d, t, g).bins = [d.bins EXCEPT ![t] = g]
         /\ IsDir(WithBin(d, t, g)) /\ WithBin(d, t, g).bins = [d.bins EXCEPT ![t] = g]
         /\ d.there => WithImage(d, t, g).there /\ WithBin(d, t, g).there
BY DEF IsDir, DirFields, WithImage, WithBin

\* A directory with another log.
LEMMA NewLog ==
  ASSUME NEW d, IsDir(d), NEW g \in Nat
  PROVE  /\ IsDir(WithLog(d, g)) /\ WithLog(d, g).log = g /\ WithLog(d, g).bins = d.bins
         /\ d.there => WithLog(d, g).there
BY DEF IsDir, DirFields, WithLog

\* The compiler: what it writes has the number of this generation, and what it
\* leaves when it fails was made for this build before.
LEMMA SconsKeeps ==
  ASSUME RowsInv, PipeInv, NEW r \in Requests, Scons(r)
  PROVE  PipeInv'
<1> DEFINE b == req[r].build
           t == job[r].row.target
           g == job[r].no
<1>1. Step(r, "check") /\ UNCHANGED <<builds, nextBuild, parent, job, nextGen>>
  BY Zenon DEF Scons
<1>2. req[r].step = "scons"
  BY DEF Scons, At
<1>3. WentTo(r, "check") /\ "check" \in BuildSteps
  BY <1>1, StepIs DEF Steps, BuildSteps
<1>4. req[r].step \in BuildSteps /\ req[r].step \in Compiling
  BY <1>2 DEF BuildSteps, Compiling
<1>5. /\ b \in Builds /\ b # 0 /\ IsDir(dir[b]) /\ DirOf(b, dir, builds, made)
      /\ job[r].told = "nothing" /\ IsJob(job[r]) /\ g \in 1..MaxGen /\ dir[b].there
      /\ MadeFor(made, g, 0) /\ b \in DOMAIN builds /\ t = builds[b].target
      /\ \A s \in Requests : s # r /\ req[s].step # "idle" => req[s].build # b
  BY <1>2, <1>4, OfGeneration DEF Generating
<1>6. /\ DOMAIN dir = Builds /\ DOMAIN made = 1..MaxGen /\ t \in Targets /\ g \in Nat /\ g # 0
      /\ dir[b].bins \in [Targets -> Nat]
  BY <1>5 DEF PipeInv, PipeType, IsJob, IsDir
<1>7. job[r].found = "nothing"
  <2>1. Phase(req[r], job[r], builds, dir, parent, made)
    BY OfPhase
  <2> QED
    BY <1>2, <2>1 DEF Phase
<1>8. \/ \E x : /\ dir' = [dir EXCEPT ![b].bins[t] = g, ![b].log = g]
                /\ made' = [made EXCEPT ![g] = [romfs |-> x, build |-> b]]
      \/ "scons" \in Faults /\ dir' = [dir EXCEPT ![b].log = g] /\ UNCHANGED made
  BY <1>5, Zenon DEF Scons, OwnDir
<1> HIDE DEF b, t, g
\* what is made, and where it is
<1>9. /\ DOMAIN dir' = Builds /\ \A c \in Builds : c # b => dir'[c] = dir[c]
      /\ DOMAIN made' = 1..MaxGen /\ \A h \in 1..MaxGen : h # g => made'[h] = made[h]
      /\ IsDir(dir'[b]) /\ dir'[b].there /\ dir'[b].log = g
      /\ \/ dir'[b].bins = [dir[b].bins EXCEPT ![t] = g] /\ MadeFor(made', g, b)
         \/ "scons" \in Faults /\ dir'[b].bins = dir[b].bins /\ MadeFor(made', g, 0)
  <2>1. CASE \E x : /\ dir' = [dir EXCEPT ![b].bins[t] = g, ![b].log = g]
                    /\ made' = [made EXCEPT ![g] = [romfs |-> x, build |-> b]]
    <3>1. dir'[b] = WithImage(dir[b], t, g)
      BY <1>5, <1>6, <2>1 DEF WithImage, IsDir, DirFields
    <3>2. MadeFor(made', g, b)
      BY <1>5, <1>6, <2>1 DEF MadeFor
    <3>3. /\ IsDir(dir'[b]) /\ dir'[b].there /\ dir'[b].log = g
          /\ dir'[b].bins = [dir[b].bins EXCEPT ![t] = g]
      <4>1. IsDir(dir[b]) /\ dir[b].there /\ t \in Targets /\ g \in Nat
        BY <1>5, <1>6
      <4> QED
        BY <3>1, <4>1, NewImage
    <3> QED
      BY <1>5, <1>6, <2>1, <3>2, <3>3
  <2>2. CASE "scons" \in Faults /\ dir' = [dir EXCEPT ![b].log = g] /\ UNCHANGED made
    <3>1. dir'[b] = WithLog(dir[b], g)
      BY <1>5, <1>6, <2>2 DEF WithLog
    <3>2. /\ IsDir(dir'[b]) /\ dir'[b].there /\ dir'[b].log = g
          /\ dir'[b].bins = dir[b].bins
      <4>1. IsDir(dir[b]) /\ dir[b].there /\ g \in Nat
        BY <1>5, <1>6
      <4> QED
        BY <3>1, <4>1, NewLog
    <3> QED
      BY <1>5, <1>6, <2>2, <3>2
  <2> QED
    BY <1>8, <2>1, <2>2
<1>10. Framed(r, b)
  <2>1. nextBuild \in Nat
    BY DEF PipeInv, PipeType
  <2>2. \A s \in Requests : s # r => req'[s] = req[s]
    BY <1>3 DEF WentTo
  <2>3. made[g].build = 0
    BY <1>5 DEF MadeFor
  <2> QED
    BY <1>1, <1>5, <1>9, <2>1, <2>2, <2>3 DEF Framed, g
<1>11. PipeType'
  <2>1. \A c \in Builds : IsDir(dir'[c])
    BY <1>9 DEF PipeInv, PipeType
  <2> QED
    BY <1>1, <1>9, <2>1 DEF PipeInv, PipeType
<1>12. Clean'
  BY <1>1, <1>7, <1>10, CleanKept
<1>13. DirOf(b, dir', builds', made')
  <2>1. ASSUME NEW u \in Targets, dir'[b].bins[u] # 0
        PROVE  /\ MadeFor(made', dir'[b].bins[u], b)
               /\ NoRetarget => b \in DOMAIN builds' /\ builds'[b].target = u
    <3>1. CASE dir'[b].bins[u] = dir[b].bins[u]
      <4>1. MadeFor(made, dir[b].bins[u], b) /\ (NoRetarget => builds[b].target = u)
        BY <1>5, <2>1, <3>1 DEF DirOf
      <4>2. MadeFor(made', dir[b].bins[u], b)
        BY <1>5, <1>10, <4>1, MadeStays
      <4> QED
        BY <1>1, <1>5, <3>1, <4>1, <4>2
    <3>2. CASE dir'[b].bins[u] # dir[b].bins[u]
      <4>1. u = t /\ dir'[b].bins[u] = g /\ MadeFor(made', g, b)
        BY <1>6, <1>9, <3>2
      <4> QED
        BY <1>1, <1>5, <4>1
    <3> QED
      BY <3>1, <3>2
  <2> QED
    BY <1>9, <2>1 DEF DirOf
<1>14. Compiled(b, job'[r], dir', made')
  <2>1. job'[r].no = g /\ job'[r].row.target = t
    BY <1>1 DEF g, t
  <2>2. dir'[b].bins = [dir[b].bins EXCEPT ![t] = g] => dir'[b].bins[t] = g
    BY <1>6
  <2> QED
    BY <1>9, <2>1, <2>2 DEF Compiled
<1>15. Generating("check", b, job'[r], builds', dir', parent', made')
  <2>1. job'[r].no = g /\ job'[r].row.target = t
    BY <1>1 DEF g, t
  <2> QED
    BY <1>1, <1>5, <1>9, <1>14, <2>1 DEF Generating, Compiling
<1>16. job'[r].told = "nothing" /\ job'[r].no = job[r].no /\ job'[r].found = "nothing"
  BY <1>1, <1>5, <1>7
<1>17. "check" \in BuildSteps \ {"mkdir"}
  BY <1>3
<1> QED
  BY <1>1, <1>3, <1>4, <1>10, <1>11, <1>12, <1>13, <1>15, <1>16, <1>17, GenerateStep DEF b

\* The variables of generate() before it begins.
LEMMA NoJobIs ==
  /\ IsJob(NoJob) /\ NoJob.no = 0 /\ NoJob.told = "nothing" /\ NoJob.found = "nothing"
BY DEF IsJob, JobFields, NoJob

\* An error page: the request ends and its variables are gone.
LEMMA FailKept ==
  ASSUME RowsInv, PipeInv, NEW r \in Requests, Fail(r),
         UNCHANGED <<builds, nextBuild, dir, parent, made, nextGen>>,
         "crash" \in Faults \/ job[r].found = "nothing"
  PROVE  PipeInv'
<1>1. Ended(r)
  BY FinishIs DEF Fail
<1>2. DOMAIN job = Requests /\ DOMAIN dir = Builds /\ nextBuild \in Nat
  BY DEF PipeInv, PipeType
<1>3. job' = [job EXCEPT ![r] = NoJob]
  BY Zenon DEF Fail
<1> HIDE DEF NoJob
<1>4. DOMAIN job' = Requests /\ job'[r] = NoJob /\ \A s \in Requests : s # r => job'[s] = job[s]
  BY <1>2, <1>3
<1>5. Framed(r, 0)
  BY <1>1, <1>2, <1>4, PipelineAssumption DEF Ended, Framed
<1>6. PipeType'
  BY <1>4, NoJobIs DEF PipeInv, PipeType
<1>7. Clean'
  <2>1. CASE "crash" \in Faults
    BY <2>1 DEF Clean
  <2>2. CASE job[r].found = "nothing"
    BY <1>5, <2>2, CleanKept
  <2> QED
    BY <2>1, <2>2
<1>8. r \notin Pending(req') /\ req'[r].step = "idle"
  BY <1>1 DEF Ended, Pending
<1>9. OnBuild(req'[r], nextBuild') /\ Answer(job'[r], made')
  BY <1>1, <1>4, NoJobIs DEF Ended, OnBuild, Answer
<1>10. Phase(req'[r], job'[r], builds', dir', parent', made')
  BY <1>1, <1>4, NoJobIs DEF Ended, Phase, BuildSteps
<1>11. 0 \notin Builds /\ job'[r].no \in {0, job[r].no} /\ nextGen' = nextGen
  BY <1>4, NoJobIs, PipelineAssumption
<1> QED
  BY <1>5, <1>6, <1>7, <1>8, <1>9, <1>10, <1>11, StepKept

\* The variables of generate() when it begins.
Begun(j, row, g) == [j EXCEPT !.row = row, !.no = g]

\* A generation begins with the row it has read and a number of its own.
LEMMA BegunIs ==
  ASSUME NEW j, IsJob(j), NEW row, NEW g \in Nat
  PROVE  /\ IsJob(Begun(j, row, g)) /\ Begun(j, row, g).no = g /\ Begun(j, row, g).row = row
         /\ Begun(j, row, g).told = j.told /\ Begun(j, row, g).found = j.found
BY DEF IsJob, JobFields, Begun

\* A save that begins its generation takes the number it kept in reserve.
LEMMA BoundedTaken ==
  ASSUME PipeInv, NEW r \in Requests, \A s \in Requests : s # r => req'[s] = req[s],
         r \in Pending(req), r \notin Pending(req'), nextGen' = nextGen + 1
  PROVE  Bounded' /\ nextGen <= MaxGen
<1>1. Pending(req') = Pending(req) \ {r}
  BY DEF Pending
<1>2. IsFiniteSet(Pending(req))
  <2>1. IsFiniteSet(Requests) /\ Pending(req) \subseteq Requests
    BY StoreAssumption DEF Pending
  <2> QED
    BY <2>1, FS_Subset
<1>3. /\ Cardinality(Pending(req)) \in Nat
      /\ Cardinality(Pending(req) \ {r}) = Cardinality(Pending(req)) - 1
      /\ Cardinality(Pending(req) \ {r}) \in Nat
  BY <1>2, FS_CardinalityType, FS_RemoveElement
<1>4. nextGen + Cardinality(Pending(req)) <= MaxGen + 1 /\ nextGen \in Nat /\ MaxGen \in Nat
  BY PipelineAssumption DEF PipeInv, Bounded, PipeType
<1>5. nextGen + 1 + Cardinality(Pending(req) \ {r}) <= MaxGen + 1 /\ nextGen <= MaxGen
  BY <1>3, <1>4
<1> QED
  BY <1>1, <1>5 DEF Bounded

\* getBuild: the number taken is new, so nothing was made under it yet.
LEMMA FetchKeeps ==
  ASSUME RowsInv, PipeInv, NEW r \in Requests, Fetch(r)
  PROVE  PipeInv'
<1> DEFINE b == req[r].build
<1>1. req[r].step = "pick" /\ UNCHANGED <<builds, nextBuild, dir, parent, made>>
  BY Zenon DEF Fetch, Picked, At
<1>2. /\ Busy(req[r]) /\ IsJob(job[r]) /\ OnBuild(req[r], nextBuild)
      /\ Phase(req[r], job[r], builds, dir, parent, made)
  BY OfPhase
<1>3. req[r].op = "save" /\ job[r].told = "nothing" /\ job[r].found = "nothing"
  BY <1>1, <1>2 DEF Busy, Phase
<1>4. /\ b \in Builds /\ b < nextBuild /\ nextBuild \in Nat /\ DOMAIN job = Requests
      /\ nextGen \in Nat \ {0} /\ MaxGen \in Nat
  BY <1>2, <1>3, PipelineAssumption DEF OnBuild, PipeInv, PipeType
<1>5. CASE b \notin DOMAIN builds
  <2>1. Fail(r) /\ UNCHANGED nextGen
    BY <1>5, Zenon DEF Fetch
  <2> QED
    BY <1>1, <1>3, <2>1, FailKept
<1>6. CASE b \in DOMAIN builds
  <2> DEFINE row == builds[b]
             g   == nextGen
  <2>1. /\ Step(r, "mkdir") /\ nextGen' = g + 1
        /\ job' = [job EXCEPT ![r].row = row, ![r].no = g]
    BY <1>6, Zenon DEF Fetch
  <2>2. WentTo(r, "mkdir")
    BY <2>1, StepIs DEF Steps, BuildSteps
  <2>3. /\ DOMAIN job' = Requests /\ \A s \in Requests : s # r => job'[s] = job[s]
        /\ job'[r] = Begun(job[r], row, g)
    BY <1>4, <2>1 DEF Begun
  <2>4. /\ IsJob(job'[r]) /\ job'[r].no = g /\ job'[r].row = row
        /\ job'[r].told = "nothing" /\ job'[r].found = "nothing"
    BY <1>2, <1>3, <1>4, <2>3, BegunIs
  <2>5. Framed(r, b)
    <3>1. \A s \in Requests : s # r => req'[s] = req[s]
      BY <2>2 DEF WentTo
    <3>2. \A s \in Requests : s # r /\ req[s].step # "idle" => req[s].build # b
      BY <1>1, <1>4, PipelineAssumption DEF PipeInv, Exclusive
    <3> HIDE DEF b
    <3> QED
      BY <1>1, <1>4, <2>3, <3>1, <3>2 DEF Framed
  <2>6. PipeType'
    <3>1. g + 1 \in Nat \ {0}
      BY <1>4
    <3>2. \A s \in Requests : IsJob(job'[s])
      BY <2>3, <2>4 DEF PipeInv, PipeType
    <3> QED
      BY <1>1, <2>1, <2>3, <3>1, <3>2 DEF PipeInv, PipeType
  <2>7. Clean'
    BY <1>1, <1>3, <2>5, CleanKept
  <2>8. Bounded' /\ g <= MaxGen
    <3>1. r \in Pending(req)
      BY <1>1, <1>3 DEF Pending, SaveSteps
    <3>2. r \notin Pending(req') /\ \A s \in Requests : s # r => req'[s] = req[s]
      BY <2>2 DEF WentTo, Pending, SaveSteps
    <3> QED
      BY <2>1, <3>1, <3>2, BoundedTaken
  <2>9. g \in 1..MaxGen /\ MadeFor(made', g, 0)
    <3>1. g \in 1..MaxGen
      BY <1>4, <2>8
    <3>2. made[g].build = 0
      BY <1>4, <3>1 DEF PipeInv, Numbers
    <3> QED
      BY <1>1, <3>1, <3>2 DEF MadeFor
  <2>10. Numbers'
    <3>1. \A s \in Requests : job[s].no \in Nat /\ job[s].no < g
      BY DEF PipeInv, PipeType, Numbers, IsJob
    <3>2. \A s \in Requests : job'[s].no < g + 1
      BY <1>4, <2>3, <2>4, <3>1
    <3>3. ASSUME NEW s \in Requests, NEW t \in Requests, s # t, job'[s].no = job'[t].no
          PROVE  job'[s].no = 0
      <4>1. s # r /\ t # r
        BY <1>4, <2>3, <2>4, <3>1, <3>3
      <4> QED
        BY <2>3, <3>3, <4>1 DEF PipeInv, Numbers
    <3>4. \A h \in 1..MaxGen : h >= g + 1 => made'[h].build = 0
      BY <1>1, <1>4 DEF PipeInv, Numbers
    <3> QED
      BY <2>1, <3>2, <3>3, <3>4 DEF Numbers
  <2>11. Exclusive'
    <3>1. DOMAIN builds' \subseteq Builds /\ req[r].step # "idle" /\ req'[r].build = b
      BY <1>1, <2>2 DEF PipeInv, PipeType, WentTo
    <3>2. TargetIn(builds', b) = TargetIn(builds, b)
      BY <1>1
    <3> QED
      BY <2>5, <3>1, <3>2, ExclusiveKept
  <2>12. DirOf(b, dir', builds', made')
    BY <1>1, <1>4 DEF PipeInv, Dirs
  <2>13. OnBuild(req'[r], nextBuild') /\ Answer(job'[r], made')
    BY <1>1, <1>3, <1>4, <2>2, <2>4 DEF OnBuild, WentTo, Answer
  <2>14. Generating("mkdir", b, job'[r], builds', dir', parent', made')
    BY <1>1, <1>6, <2>4, <2>9 DEF Generating
  <2>15. Phase(req'[r], job'[r], builds', dir', parent', made')
    BY <2>2, <2>4, <2>14 DEF Phase, WentTo
  <2>16. Dirs' /\ Phases'
    <3> HIDE DEF b
    <3> QED
      BY <2>5, <2>12, <2>13, <2>15, Framing
  <2> QED
    BY <2>6, <2>7, <2>8, <2>10, <2>11, <2>16 DEF PipeInv
<1> QED
  BY <1>5, <1>6

\* The parent directory with the binary of one target changed, or its log.
ParentBin(p, t, g) == [p EXCEPT !.bins[t] = g]
ParentLog(p, g)    == [p EXCEPT !.log = g]

\* The parent directory with the binary of one target changed.
LEMMA ParentIs ==
  ASSUME NEW p, IsParent(p), NEW t \in Targets, NEW g \in Nat
  PROVE  /\ IsParent(ParentBin(p, t, g)) /\ ParentBin(p, t, g).bins = [p.bins EXCEPT ![t] = g]
         /\ ParentBin(p, t, g).log = p.log
BY DEF IsParent, ParentFields, ParentBin

\* The parent directory with another log.
LEMMA ParentLogIs ==
  ASSUME NEW p, IsParent(p), NEW g \in Nat
  PROVE  /\ IsParent(ParentLog(p, g)) /\ ParentLog(p, g).bins = p.bins
         /\ ParentLog(p, g).log = g
BY DEF IsParent, ParentFields, ParentLog

\* Another request's binary is parked under another target.
LEMMA OtherBin ==
  ASSUME Separate, RowsInv, PipeInv, NEW r \in Requests, NEW s \in Requests, s # r,
         req[r].step \in BuildSteps, job[s].found = "bin"
  PROVE  NoRetarget /\ job[s].bin # builds[req[r].build].target
<1>1. NoRetarget
  BY DEF Separate, Single
<1>2. Phase(req[s], job[s], builds, dir, parent, made)
  BY OfPhase
<1>3. req[s].step \in {"pack", "back"} /\ req[s].step \in BuildSteps /\ req[s].step # "idle"
  BY <1>2 DEF Phase, BuildSteps
<1>4. Generating(req[s].step, req[s].build, job[s], builds, dir, parent, made)
  BY <1>2, <1>3 DEF Phase
<1>5. Parked(req[s].build, job[s], parent, made)
  BY <1>3, <1>4 DEF Generating
<1>6. /\ job[s].bin = builds[req[s].build].target /\ req[s].build \in DOMAIN builds
  BY <1>1, <1>4, <1>5 DEF Generating, Parked
<1>7. req[r].build \in DOMAIN builds /\ req[r].step # "idle"
  BY OfGeneration
<1>8. TargetIn(builds, req[r].build) \cap TargetIn(builds, req[s].build) = {}
  BY <1>3, <1>7 DEF PipeInv, Exclusive
<1> QED
  BY <1>1, <1>6, <1>7, <1>8 DEF TargetIn

\* A step that changes what is parked: what is there belongs to a request at work.
LEMMA CleanAfter ==
  ASSUME PipeInv, NEW r \in Requests,
         \A s \in Requests : s # r => req'[s] = req[s] /\ job'[s] = job[s],
         \A t \in Targets : parent'.bins[t] # 0 =>
           \/ parent.bins[t] # 0 /\ ~(job[r].found = "bin" /\ job[r].bin = t)
           \/ req'[r].step # "idle" /\ job'[r].found = "bin" /\ job'[r].bin = t,
         parent'.log # 0 => \/ parent.log # 0 /\ job[r].found # "log"
                            \/ req'[r].step # "idle" /\ job'[r].found = "log"
  PROVE  Clean'
<1> SUFFICES ASSUME "crash" \notin Faults PROVE ParentClean'
  BY DEF Clean
<1>1. ParentClean
  BY DEF PipeInv, Clean
<1>2. \A s \in Active : s # r => s \in Active' /\ job'[s] = job[s]
  BY DEF Active, At
<1>3. req'[r].step # "idle" => r \in Active'
  BY DEF Active, At
<1>4. ASSUME NEW t \in Targets, parent'.bins[t] # 0
      PROVE  \E s \in Active' : job'[s].found = "bin" /\ job'[s].bin = t
  <2>1. CASE parent.bins[t] # 0 /\ ~(job[r].found = "bin" /\ job[r].bin = t)
    <3>1. PICK s \in Active : job[s].found = "bin" /\ job[s].bin = t
      BY <1>1, <2>1 DEF ParentClean
    <3> QED
      BY <1>2, <2>1, <3>1
  <2> QED
    BY <1>3, <1>4, <2>1
<1>5. ASSUME parent'.log # 0
      PROVE  \E s \in Active' : job'[s].found = "log"
  <2>1. CASE parent.log # 0 /\ job[r].found # "log"
    <3>1. PICK s \in Active : job[s].found = "log"
      BY <1>1, <2>1 DEF ParentClean
    <3> QED
      BY <1>2, <2>1, <3>1
  <2> QED
    BY <1>3, <1>5, <2>1
<1> QED
  BY <1>4, <1>5 DEF ParentClean

\* The variables of generate() once the binary, or the log, is parked.
FoundBin(j, t) == [j EXCEPT !.found = "bin", !.bin = t]
FoundLog(j)    == [j EXCEPT !.found = "log"]

\* The variables after a binary was found.
LEMMA FoundBinIs ==
  ASSUME NEW j, IsJob(j), NEW t
  PROVE  /\ IsJob(FoundBin(j, t)) /\ FoundBin(j, t).found = "bin" /\ FoundBin(j, t).bin = t
         /\ FoundBin(j, t).no = j.no /\ FoundBin(j, t).row = j.row
         /\ FoundBin(j, t).told = j.told
BY DEF IsJob, JobFields, FoundBin

\* The variables after none was found.
LEMMA FoundLogIs ==
  ASSUME NEW j, IsJob(j)
  PROVE  /\ IsJob(FoundLog(j)) /\ FoundLog(j).found = "log"
         /\ FoundLog(j).no = j.no /\ FoundLog(j).row = j.row
         /\ FoundLog(j).told = j.told
BY DEF IsJob, JobFields, FoundLog

\* checksAndCopyBin: the binary goes where no other request has parked one.
LEMMA CheckBinKeeps ==
  ASSUME Separate, RowsInv, PipeInv, NEW r \in Requests, CheckBin(r)
  PROVE  PipeInv'
<1> DEFINE b == req[r].build
           d == dir[b]
           g == job[r].no
           u == job[r].row.target
<1>1. req[r].step = "check" /\ UNCHANGED <<builds, nextBuild, dir, made, nextGen>>
  BY Zenon DEF CheckBin, At
<1>2. req[r].step \in BuildSteps /\ "pack" \in BuildSteps \ {"mkdir"} /\ "pack" \in Steps
  BY <1>1 DEF BuildSteps, Steps
<1>3. /\ b \in Builds /\ b # 0 /\ IsDir(d) /\ DirOf(b, dir, builds, made) /\ d.there
      /\ job[r].told = "nothing" /\ IsJob(job[r]) /\ g \in 1..MaxGen
      /\ b \in DOMAIN builds /\ u = builds[b].target /\ Compiled(b, job[r], dir, made)
      /\ \A s \in Requests : s # r /\ req[s].step # "idle" => req[s].build # b
  BY <1>1, <1>2, OfGeneration DEF Generating
<1>4. /\ DOMAIN job = Requests /\ u \in Targets /\ g \in Nat /\ g # 0 /\ IsParent(parent)
      /\ nextBuild \in Nat
  BY <1>3 DEF PipeInv, PipeType, IsJob
<1>5. job[r].found = "nothing"
  <2>1. Phase(req[r], job[r], builds, dir, parent, made)
    BY OfPhase
  <2> QED
    BY <1>1, <2>1 DEF Phase
<1>6. /\ Step(r, "pack")
      /\ \/ \E t \in Binaries(d) :
              /\ parent' = [parent EXCEPT !.bins[t] = Copied(d.bins[t], @)]
              /\ job' = [job EXCEPT ![r].found = "bin", ![r].bin = t]
         \/ /\ Binaries(d) = {}
            /\ parent' = [parent EXCEPT !.log = Copied(d.log, @)]
            /\ job' = [job EXCEPT ![r].found = "log"]
  BY <1>3, Zenon DEF CheckBin, OwnDir
<1> HIDE DEF b, d, g, u
<1>7. WentTo(r, "pack") /\ req'[r].step # "idle" /\ \A s \in Requests : s # r => req'[s] = req[s]
  BY <1>2, <1>6, StepIs DEF WentTo
\* what a branch must show
<1>8. ASSUME IsParent(parent'), DOMAIN job' = Requests,
             \A s \in Requests : s # r => job'[s] = job[s],
             IsJob(job'[r]), job'[r].no = job[r].no, job'[r].row = job[r].row,
             job'[r].told = "nothing", Parked(b, job'[r], parent', made'), Clean',
             \A s \in Requests : s # r /\ job[s].found = "bin" =>
               parent'.bins[job[s].bin] = parent.bins[job[s].bin]
      PROVE  PipeInv'
  <2>1. Framed(r, b)
    BY <1>1, <1>3, <1>4, <1>7, <1>8 DEF Framed
  <2>2. PipeType'
    <3>1. \A s \in Requests : IsJob(job'[s])
      BY <1>8 DEF PipeInv, PipeType
    <3> QED
      BY <1>1, <1>8, <3>1 DEF PipeInv, PipeType
  <2>3. Generating("pack", b, job'[r], builds', dir', parent', made')
    <3>1. job'[r].no = g /\ job'[r].row.target = u /\ dir'[b].there
      BY <1>1, <1>3, <1>8 DEF g, u, d
    <3> QED
      BY <1>1, <1>3, <1>8, <3>1 DEF Generating, Compiling
  <2>4. DirOf(b, dir', builds', made')
    BY <1>1, <1>3
  <2>5. UNCHANGED <<builds, nextBuild, nextGen>>
    BY <1>1
  <2> QED
    BY <1>2, <1>7, <1>8, <2>1, <2>2, <2>3, <2>4, <2>5, GenerateStep DEF b
<1>9. ASSUME NEW t \in Binaries(d),
             parent' = [parent EXCEPT !.bins[t] = Copied(d.bins[t], @)],
             job' = [job EXCEPT ![r].found = "bin", ![r].bin = t]
      PROVE  PipeInv'
  <2> DEFINE x == d.bins[t]
  <2>1. t \in Targets /\ x # 0 /\ x \in Nat
    BY <1>3, <1>9 DEF Binaries, IsDir
  <2>2. parent' = ParentBin(parent, t, x)
    BY <1>9, <2>1 DEF Copied, ParentBin
  <2>3. /\ IsParent(parent') /\ parent'.bins = [parent.bins EXCEPT ![t] = x]
        /\ parent'.log = parent.log
    <3> HIDE DEF x
    <3> QED
      BY <1>4, <2>1, <2>2, ParentIs
  <2>4. /\ DOMAIN job' = Requests /\ \A s \in Requests : s # r => job'[s] = job[s]
        /\ job'[r] = FoundBin(job[r], t)
    BY <1>4, <1>9 DEF FoundBin
  <2>5. /\ IsJob(job'[r]) /\ job'[r].found = "bin" /\ job'[r].bin = t
        /\ job'[r].no = job[r].no /\ job'[r].row = job[r].row /\ job'[r].told = "nothing"
    BY <1>3, <2>4, FoundBinIs
  <2>6. MadeFor(made, x, b) /\ (NoRetarget => t = u)
    BY <1>3, <2>1 DEF DirOf, d
  <2>7. parent.bins \in [Targets -> Nat]
    BY <1>4 DEF IsParent
  <2>8. parent'.bins[t] = x /\ \A v \in Targets : v # t => parent'.bins[v] = parent.bins[v]
    BY <2>1, <2>3, <2>7
  <2>9. \A v : v # t => parent'.bins[v] = parent.bins[v]
    BY <2>1, <2>3, <2>7
  <2>10. \A s \in Requests : s # r /\ job[s].found = "bin" =>
           parent'.bins[job[s].bin] = parent.bins[job[s].bin]
    <3>1. \A s \in Requests : s # r /\ job[s].found = "bin" => NoRetarget /\ job[s].bin # u
      BY <1>2, <1>3, OtherBin DEF b
    <3> QED
      BY <2>6, <2>9, <3>1
  <2>11. Parked(b, job'[r], parent', made')
    <3>1. NoRetarget /\ "scons" \notin Faults => x = g
      BY <1>3, <2>6 DEF Compiled, d, g, u
    <3>2. job'[r].no = g /\ job'[r].row.target = u
      BY <2>5 DEF g, u
    <3> HIDE DEF x
    <3> QED
      BY <1>1, <2>1, <2>5, <2>6, <2>8, <3>1, <3>2 DEF Parked
  <2>12. Clean'
    BY <1>5, <1>7, <2>3, <2>4, <2>5, <2>8, CleanAfter
  <2> QED
    BY <1>8, <2>3, <2>4, <2>5, <2>10, <2>11, <2>12
<1>10. ASSUME Binaries(d) = {}, parent' = [parent EXCEPT !.log = Copied(d.log, @)],
              job' = [job EXCEPT ![r].found = "log"]
       PROVE  PipeInv'
  <2>1. d.bins[u] = 0
    BY <1>4, <1>10 DEF Binaries
  <2>2. d.log = g /\ MadeFor(made, g, 0) /\ "scons" \in Faults
    BY <1>3, <1>4, <2>1 DEF Compiled, d, g, u
  <2>3. parent' = ParentLog(parent, g)
    BY <1>4, <1>10, <2>2 DEF Copied, ParentLog
  <2>4. IsParent(parent') /\ parent'.bins = parent.bins /\ parent'.log = g
    BY <1>4, <2>3, ParentLogIs
  <2>5. /\ DOMAIN job' = Requests /\ \A s \in Requests : s # r => job'[s] = job[s]
        /\ job'[r] = FoundLog(job[r])
    BY <1>4, <1>10 DEF FoundLog
  <2>6. /\ IsJob(job'[r]) /\ job'[r].found = "log" /\ job'[r].no = job[r].no
        /\ job'[r].row = job[r].row /\ job'[r].told = "nothing"
    BY <1>3, <2>5, FoundLogIs
  <2>7. Parked(b, job'[r], parent', made')
    BY <1>1, <2>2, <2>4, <2>6 DEF Parked, g
  <2>8. Clean'
    BY <1>5, <1>7, <2>4, <2>5, <2>6, CleanAfter
  <2> QED
    BY <1>8, <2>4, <2>5, <2>6, <2>7, <2>8
<1> QED
  BY <1>6, <1>9, <1>10

\* zip and rm: the directory is emptied while the binary is parked.
LEMMA PackKeeps ==
  ASSUME RowsInv, PipeInv, NEW r \in Requests, Pack(r)
  PROVE  PipeInv'
<1> DEFINE b == req[r].build
<1>1. /\ req[r].step = "pack" /\ Step(r, "back")
      /\ UNCHANGED <<builds, nextBuild, parent, job, made, nextGen>>
  BY Zenon DEF Pack, At
<1>2. req[r].step \in BuildSteps /\ "back" \in BuildSteps \ {"mkdir"} /\ "back" \in Steps
  BY <1>1 DEF BuildSteps, Steps
<1>3. /\ b \in Builds /\ b # 0 /\ DirOf(b, dir, builds, made) /\ dir[b].there
      /\ job[r].told = "nothing" /\ job[r].no \in 1..MaxGen
      /\ b \in DOMAIN builds /\ job[r].row.target = builds[b].target
      /\ Parked(b, job[r], parent, made)
      /\ \A s \in Requests : s # r /\ req[s].step # "idle" => req[s].build # b
  BY <1>1, <1>2, OfGeneration DEF Generating
<1>4. dir' = [dir EXCEPT ![b] = EmptyDir]
  BY <1>3, Zenon DEF Pack, OwnDir
<1>5. WentTo(r, "back") /\ req'[r].step # "idle" /\ \A s \in Requests : s # r => req'[s] = req[s]
  BY <1>1, <1>2, StepIs DEF WentTo
<1>6. DOMAIN dir = Builds /\ nextBuild \in Nat
  BY DEF PipeInv, PipeType
<1> HIDE DEF b, EmptyDir
<1>7. DOMAIN dir' = Builds /\ dir'[b] = EmptyDir /\ \A c \in Builds : c # b => dir'[c] = dir[c]
  BY <1>3, <1>4, <1>6
<1>8. Framed(r, b)
  BY <1>1, <1>3, <1>5, <1>6, <1>7 DEF Framed
<1>9. PipeType'
  <2>1. \A c \in Builds : IsDir(dir'[c])
    BY <1>7, EmptyDirIs DEF PipeInv, PipeType
  <2> QED
    BY <1>1, <1>7, <2>1 DEF PipeInv, PipeType
<1>10. Clean'
  BY <1>1, <1>5, <1>8, CleanKept
<1>11. DirOf(b, dir', builds', made')
  BY <1>7, EmptyDirIs DEF DirOf, NoBins
<1>12. Generating("back", b, job'[r], builds', dir', parent', made')
  BY <1>1, <1>3, <1>7, EmptyDirIs DEF Generating, Compiling
<1>13. /\ job'[r].told = "nothing" /\ job'[r].no = job[r].no
       /\ UNCHANGED <<builds, nextBuild, nextGen>>
  BY <1>1, <1>3
<1> QED
  BY <1>2, <1>5, <1>8, <1>9, <1>10, <1>11, <1>12, <1>13, GenerateStep DEF b

\* What is left of a generation when the user has his answer.
Told(no, b, what, got) == [[NoJob EXCEPT !.no = no, !.of = b] EXCEPT !.told = what, !.got = got]

\* The variables after the answer.
LEMMA ToldIs ==
  ASSUME NEW no \in Nat, NEW b, NEW what \in {"image", "log"}, NEW got
  PROVE  /\ IsJob(Told(no, b, what, got)) /\ Told(no, b, what, got).no = no
         /\ Told(no, b, what, got).of = b /\ Told(no, b, what, got).told = what
         /\ Told(no, b, what, got).got = got /\ Told(no, b, what, got).found = "nothing"
BY DEF IsJob, JobFields, NoJob, Told

\* mv_binary: what comes back is what this request parked.
LEMMA MoveBackKeeps ==
  ASSUME Separate, RowsInv, PipeInv, NEW r \in Requests, MoveBack(r)
  PROVE  PipeInv'
<1> DEFINE b == req[r].build
           d == dir[b]
           g == job[r].no
           t == job[r].bin
           u == job[r].row.target
<1>1. /\ req[r].step = "back" /\ Finish(r)
      /\ UNCHANGED <<builds, nextBuild, made, nextGen>>
  BY Zenon DEF MoveBack, At
<1>2. req[r].step \in BuildSteps
  BY <1>1 DEF BuildSteps
<1>3. /\ b \in Builds /\ b # 0 /\ IsDir(d) /\ DirOf(b, dir, builds, made) /\ d.there
      /\ job[r].told = "nothing" /\ IsJob(job[r]) /\ g \in 1..MaxGen
      /\ b \in DOMAIN builds /\ u = builds[b].target /\ Parked(b, job[r], parent, made)
      /\ \A s \in Requests : s # r /\ req[s].step # "idle" => req[s].build # b
  BY <1>1, <1>2, OfGeneration DEF Generating
<1>4. /\ DOMAIN job = Requests /\ DOMAIN dir = Builds /\ g \in Nat /\ g # 0 /\ IsParent(parent)
      /\ nextBuild \in Nat /\ parent.bins \in [Targets -> Nat]
  BY <1>3 DEF PipeInv, PipeType, IsJob, IsParent
<1>5. Ended(r) /\ \A s \in Requests : s # r => req'[s] = req[s]
  BY <1>1, FinishIs DEF Ended
<1>6. IF job[r].found = "bin"
      THEN /\ dir' = [dir EXCEPT ![b].bins[t] = Copied(parent.bins[t], @)]
           /\ parent' = [parent EXCEPT !.bins[t] = LeftByMove(@)]
           /\ job' = [job EXCEPT ![r] = Told(g, b, "image", dir'[b].bins[t])]
      ELSE /\ dir' = [dir EXCEPT ![b].log = Copied(parent.log, @)]
           /\ parent' = [parent EXCEPT !.log = LeftByMove(@)]
           /\ job' = [job EXCEPT ![r] = Told(g, b, "log", dir'[b].log)]
  <2>1. CASE job[r].found = "bin"
    BY <1>3, <2>1, Zenon DEF MoveBack, OwnDir, Told
  <2>2. CASE job[r].found # "bin"
    BY <1>3, <2>2, Zenon DEF MoveBack, OwnDir, Told
  <2> QED
    BY <2>1, <2>2
<1> HIDE DEF b, d, g, t, u
\* what a branch must show
<1>7. ASSUME IsParent(parent'), DOMAIN job' = Requests,
             \A s \in Requests : s # r => job'[s] = job[s],
             IsJob(job'[r]), job'[r].no = job[r].no, job'[r].found = "nothing",
             Answer(job'[r], made'), Clean',
             DOMAIN dir' = Builds, \A c \in Builds : c # b => dir'[c] = dir[c],
             IsDir(dir'[b]), DirOf(b, dir', builds', made'),
             \A s \in Requests : s # r /\ job[s].found = "bin" =>
               parent'.bins[job[s].bin] = parent.bins[job[s].bin]
      PROVE  PipeInv'
  <2>1. Framed(r, b)
    BY <1>1, <1>3, <1>4, <1>5, <1>7 DEF Framed
  <2>2. PipeType'
    <3>1. \A s \in Requests : IsJob(job'[s])
      BY <1>7 DEF PipeInv, PipeType
    <3>2. \A c \in Builds : IsDir(dir'[c])
      BY <1>7 DEF PipeInv, PipeType
    <3> QED
      BY <1>1, <1>7, <3>1, <3>2 DEF PipeInv, PipeType
  <2>3. r \notin Pending(req') /\ req'[r].step = "idle"
    BY <1>5 DEF Ended, Pending
  <2>4. OnBuild(req'[r], nextBuild') /\ Phase(req'[r], job'[r], builds', dir', parent', made')
    BY <1>5, <1>7 DEF Ended, OnBuild, Phase, BuildSteps
  <2>5. nextGen' = nextGen
    BY <1>1
  <2> QED
    BY <1>7, <2>1, <2>2, <2>3, <2>4, <2>5, StepKept
<1>8. CASE job[r].found = "bin"
  <2> DEFINE x == parent.bins[t]
  <2>1. /\ t \in Targets /\ MadeFor(made, x, b) /\ (NoRetarget => t = u)
        /\ NoRetarget /\ "scons" \notin Faults => x = g
    BY <1>3, <1>8 DEF Parked, t, u, g
  <2>2. x \in Nat /\ x # 0
    BY <2>1 DEF MadeFor
  <2>3. dir' = [dir EXCEPT ![b].bins[t] = x]
    BY <1>6, <1>8, <2>2 DEF Copied
  <2>4. parent' = ParentBin(parent, t, 0)
    BY <1>6, <1>8 DEF LeftByMove, ParentBin
  <2>5. job' = [job EXCEPT ![r] = Told(g, b, "image", dir'[b].bins[t])]
    BY <1>6, <1>8
  <2> HIDE DEF x
  <2>6. IsDir(dir'[b]) /\ dir'[b].bins = [d.bins EXCEPT ![t] = x] /\ dir'[b].there
        /\ DOMAIN dir' = Builds /\ \A c \in Builds : c # b => dir'[c] = dir[c]
    <3>1. dir'[b] = WithBin(d, t, x) /\ DOMAIN dir' = Builds
          /\ \A c \in Builds : c # b => dir'[c] = dir[c]
      BY <1>3, <1>4, <2>3 DEF WithBin, d
    <3> QED
      BY <1>3, <2>1, <2>2, <3>1, NewImage
  <2>7. dir'[b].bins[t] = x /\ \A v \in Targets : v # t => dir'[b].bins[v] = d.bins[v]
    BY <1>3, <2>1, <2>6 DEF IsDir
  <2>8. /\ IsParent(parent') /\ parent'.bins = [parent.bins EXCEPT ![t] = 0]
        /\ parent'.log = parent.log
    BY <1>4, <2>1, <2>4, ParentIs
  <2>9. parent'.bins[t] = 0 /\ \A v : v # t => parent'.bins[v] = parent.bins[v]
    BY <1>4, <2>1, <2>8
  <2>10. /\ DOMAIN job' = Requests /\ \A s \in Requests : s # r => job'[s] = job[s]
         /\ job'[r] = Told(g, b, "image", x)
    BY <1>4, <2>5, <2>7
  <2>11. /\ IsJob(job'[r]) /\ job'[r].no = g /\ job'[r].of = b /\ job'[r].told = "image"
         /\ job'[r].got = x /\ job'[r].found = "nothing"
    BY <1>4, <2>10, ToldIs
  <2>12. Answer(job'[r], made')
    BY <1>1, <1>3, <2>1, <2>11 DEF Answer
  <2>13. Clean'
    <3>1. job[r].bin = t
      BY DEF t
    <3> QED
      BY <1>5, <1>8, <2>8, <2>9, <2>10, <3>1, CleanAfter
  <2>14. DirOf(b, dir', builds', made')
    <3>1. ASSUME NEW v \in Targets, dir'[b].bins[v] # 0
          PROVE  /\ MadeFor(made', dir'[b].bins[v], b)
                 /\ NoRetarget => b \in DOMAIN builds' /\ builds'[b].target = v
      <4>1. CASE v = t
        BY <1>1, <1>3, <2>1, <2>7, <4>1
      <4>2. CASE v # t
        BY <1>1, <1>3, <2>7, <3>1, <4>2 DEF DirOf, d
      <4> QED
        BY <4>1, <4>2
    <3> QED
      BY <2>6, <3>1 DEF DirOf
  <2>15. \A s \in Requests : s # r /\ job[s].found = "bin" =>
           parent'.bins[job[s].bin] = parent.bins[job[s].bin]
    <3>1. \A s \in Requests : s # r /\ job[s].found = "bin" => NoRetarget /\ job[s].bin # u
      BY <1>2, <1>3, OtherBin DEF b
    <3> QED
      BY <2>1, <2>9, <3>1
  <2>16. job'[r].no = job[r].no
    BY <2>11 DEF g
  <2> QED
    BY <1>7, <2>6, <2>8, <2>10, <2>11, <2>12, <2>13, <2>14, <2>15, <2>16
<1>9. CASE job[r].found = "log"
  <2> DEFINE x == Copied(parent.log, d.log)
  <2>1. MadeFor(made, g, 0) /\ (Single => parent.log = g)
    BY <1>3, <1>9 DEF Parked, g
  <2>2. x \in Nat /\ (Single => x = g)
    BY <1>3, <1>4, <2>1 DEF Copied, IsDir, IsParent
  <2>3. dir' = [dir EXCEPT ![b].log = x]
    BY <1>6, <1>9 DEF d
  <2>4. parent' = ParentLog(parent, 0)
    BY <1>6, <1>9 DEF LeftByMove, ParentLog
  <2>5. job' = [job EXCEPT ![r] = Told(g, b, "log", dir'[b].log)]
    BY <1>6, <1>9
  <2> HIDE DEF x
  <2>6. IsDir(dir'[b]) /\ dir'[b].bins = d.bins /\ dir'[b].there /\ dir'[b].log = x
        /\ DOMAIN dir' = Builds /\ \A c \in Builds : c # b => dir'[c] = dir[c]
    <3>1. dir'[b] = WithLog(d, x) /\ DOMAIN dir' = Builds
          /\ \A c \in Builds : c # b => dir'[c] = dir[c]
      BY <1>3, <1>4, <2>3 DEF WithLog, d
    <3> QED
      BY <1>3, <2>2, <3>1, NewLog
  <2>7. IsParent(parent') /\ parent'.bins = parent.bins /\ parent'.log = 0
    BY <1>4, <2>4, ParentLogIs
  <2>8. /\ DOMAIN job' = Requests /\ \A s \in Requests : s # r => job'[s] = job[s]
        /\ job'[r] = Told(g, b, "log", x)
    BY <1>4, <2>5, <2>6
  <2>9. /\ IsJob(job'[r]) /\ job'[r].no = g /\ job'[r].of = b /\ job'[r].told = "log"
        /\ job'[r].got = x /\ job'[r].found = "nothing"
    BY <1>4, <2>8, ToldIs
  <2>10. Answer(job'[r], made')
    BY <1>1, <2>1, <2>2, <2>9 DEF Answer
  <2>11. Clean'
    BY <1>5, <1>9, <2>7, <2>8, CleanAfter
  <2>12. DirOf(b, dir', builds', made')
    BY <1>1, <1>3, <2>6 DEF DirOf, d
  <2>13. job'[r].no = job[r].no
    BY <2>9 DEF g
  <2> QED
    BY <1>7, <2>6, <2>7, <2>8, <2>9, <2>10, <2>11, <2>12, <2>13
<1>10. job[r].found \in {"bin", "log"}
  BY <1>3 DEF Parked
<1> QED
  BY <1>8, <1>9, <1>10

-----------------------------------------------------------------------------
(***************************************************************************)
(* Steps on files, and the deletion of a build                             *)
(***************************************************************************)

\* A step of a request that generates nothing: it goes on with its build, or ends.
Plain(r) ==
  /\ req[r].step # "idle" /\ req[r].step \notin BuildSteps
  /\ \A s \in Requests : s # r => req'[s] = req[s]
  /\ \/ /\ req'[r].op = req[r].op /\ req'[r].build = req[r].build
        /\ req'[r].step # "idle" /\ req'[r].step \notin BuildSteps
        /\ r \in Pending(req') => r \in Pending(req)
     \/ Ended(r)

\* A step of a request that generates nothing keeps the invariant.
LEMMA PlainKept ==
  ASSUME RowsInv, PipeInv, NEW r \in Requests, Plain(r), NEW b, Framed(r, b), PipeType',
         UNCHANGED <<nextBuild, parent, job, made, nextGen>>,
         TargetIn(builds', req[r].build) \subseteq TargetIn(builds, req[r].build),
         b \in Builds => DirOf(b, dir', builds', made')
  PROVE  PipeInv'
<1>1. /\ IsJob(job[r]) /\ OnBuild(req[r], nextBuild)
      /\ Phase(req[r], job[r], builds, dir, parent, made)
  BY OfPhase
<1>2. job[r].told = "nothing" /\ job[r].found = "nothing" /\ req[r].step # "idle"
  BY <1>1 DEF Phase, Plain, BuildSteps
<1>3. Clean'
  BY <1>2, CleanKept
<1>4. Answer(job'[r], made')
  BY <1>2 DEF Answer
<1>5. req'[r].step \notin BuildSteps
  BY DEF Plain, Ended, BuildSteps
<1>6. Phase(req'[r], job'[r], builds', dir', parent', made')
  BY <1>2, <1>5 DEF Phase
<1>7. OnBuild(req'[r], nextBuild')
  BY <1>1 DEF OnBuild, Plain, Ended
<1>8. r \in Pending(req') => r \in Pending(req)
  BY DEF Plain, Ended, Pending
<1>9. req'[r].step # "idle" => req'[r].build = req[r].build
  BY DEF Plain, Ended
<1>10. job'[r].no \in {0, job[r].no} /\ nextGen' = nextGen
  OBVIOUS
<1> QED
  BY <1>2, <1>3, <1>4, <1>6, <1>7, <1>8, <1>9, <1>10, StepKept

\* Such a step leaves every build alone.
LEMMA PlainAlone ==
  ASSUME RowsInv, PipeInv, NEW r \in Requests, Plain(r), UNCHANGED pipeVars
  PROVE  PipeInv'
<1>1. UNCHANGED <<builds, nextBuild, dir, parent, job, made, nextGen>>
  BY Zenon DEF pipeVars
<1>2. Framed(r, 0)
  <2>1. nextBuild \in Nat /\ \A s \in Requests : s # r => req'[s] = req[s]
    BY DEF PipeInv, PipeType, Plain
  <2> QED
    BY <1>1, <2>1, PipelineAssumption DEF Framed
<1>3. PipeType'
  BY <1>1 DEF PipeInv, PipeType
<1>4. 0 \notin Builds
  BY PipelineAssumption
<1> QED
  BY <1>1, <1>2, <1>3, <1>4, PlainKept

\* A deletion of a build.
LEMMA OfDropping ==
  ASSUME RowsInv, PipeInv, NEW r \in Requests, req[r].step \in BuildEnds
  PROVE  /\ req[r].op = "deletebuild" /\ req[r].build \in Builds /\ req[r].build # 0
         /\ req[r].step # "idle" /\ req[r].step \notin BuildSteps
         /\ \A s \in Requests : s # r /\ req[s].step # "idle" => req[s].build # req[r].build
<1>1. Busy(req[r]) /\ OnBuild(req[r], nextBuild)
  BY OfPhase
<1>2. /\ req[r].op = "deletebuild" /\ req[r].step # "idle" /\ req[r].step \notin BuildSteps
  BY <1>1 DEF Busy, BuildEnds, BuildSteps
<1>3. req[r].build \in Builds /\ req[r].build # 0
  BY <1>1, <1>2, PipelineAssumption DEF OnBuild
<1> QED
  BY <1>2, <1>3 DEF PipeInv, Exclusive

\* rm -r of the directory of a build nobody else works on.
LEMMA RemoveTreeKeeps ==
  ASSUME RowsInv, PipeInv, NEW r \in Requests, RemoveTree(r)
  PROVE  PipeInv'
<1> DEFINE b == req[r].build
<1>1. /\ req[r].step = "rmtree" /\ Step(r, "droprow2")
      /\ UNCHANGED <<builds, nextBuild, parent, job, made, nextGen>>
      /\ dir' = [dir EXCEPT ![b] = Missing]
  BY Zenon DEF RemoveTree, At
<1>2. WentTo(r, "droprow2") /\ req[r].step \in BuildEnds
  BY <1>1, StepIs DEF Steps, BuildEnds
<1>3. /\ req[r].op = "deletebuild" /\ b \in Builds /\ b # 0
      /\ req[r].step # "idle" /\ req[r].step \notin BuildSteps
      /\ \A s \in Requests : s # r /\ req[s].step # "idle" => req[s].build # b
  BY <1>2, OfDropping
<1>4. Plain(r)
  BY <1>2, <1>3 DEF Plain, WentTo, BuildSteps, Pending
<1>5. DOMAIN dir = Builds /\ nextBuild \in Nat
  BY DEF PipeInv, PipeType
<1> HIDE DEF b, Missing
<1>6. DOMAIN dir' = Builds /\ dir'[b] = Missing /\ \A c \in Builds : c # b => dir'[c] = dir[c]
  BY <1>1, <1>3, <1>5
<1>7. Framed(r, b)
  BY <1>1, <1>3, <1>4, <1>5, <1>6 DEF Framed, Plain
<1>8. PipeType'
  <2>1. \A c \in Builds : IsDir(dir'[c])
    BY <1>6, EmptyDirIs DEF PipeInv, PipeType
  <2> QED
    BY <1>1, <1>6, <2>1 DEF PipeInv, PipeType
<1>9. DirOf(b, dir', builds', made')
  BY <1>6, EmptyDirIs DEF DirOf, NoBins
<1> QED
  BY <1>1, <1>4, <1>7, <1>8, <1>9, PlainKept

\* The row goes only when the directory, and with it every binary, is gone.
LEMMA DropBuildRowKeeps ==
  ASSUME RowsInv, PipeInv, NEW r \in Requests, DropBuildRow(r)
  PROVE  PipeInv'
<1> DEFINE b == req[r].build
<1>1. req[r].step = "droprow2" /\ UNCHANGED <<nextBuild, dir, parent, cwd, job, made, nextGen>>
  BY Zenon DEF DropBuildRow, At
<1>2. req[r].step \in BuildEnds
  BY <1>1 DEF BuildEnds
<1>3. /\ req[r].op = "deletebuild" /\ b \in Builds /\ b # 0
      /\ req[r].step # "idle" /\ req[r].step \notin BuildSteps
      /\ \A s \in Requests : s # r /\ req[s].step # "idle" => req[s].build # b
  BY <1>2, OfDropping
<1>4. CASE dir[b].there
  <2>1. Finish(r) /\ UNCHANGED builds
    BY <1>4, Zenon DEF DropBuildRow, OwnDir
  <2>2. Plain(r)
    BY <1>3, <2>1, FinishIs DEF Plain, Ended
  <2>3. UNCHANGED pipeVars
    BY <1>1, <2>1 DEF pipeVars
  <2> QED
    BY <2>2, <2>3, PlainAlone
<1>5. CASE ~dir[b].there
  <2>1. Step(r, "droplinks2") /\ builds' = Restrict(builds, DOMAIN builds \ {b})
    BY <1>5, Zenon DEF DropBuildRow, OwnDir
  <2>2. WentTo(r, "droplinks2")
    BY <2>1, StepIs DEF Steps
  <2>3. Plain(r)
    BY <1>3, <2>2 DEF Plain, WentTo, BuildSteps, Pending
  <2> HIDE DEF b
  <2>4. DOMAIN builds' = DOMAIN builds \ {b} /\ \A c \in DOMAIN builds' : builds'[c] = builds[c]
    BY <2>1 DEF Restrict
  <2>5. Framed(r, b)
    <3>1. nextBuild \in Nat
      BY DEF PipeInv, PipeType
    <3> QED
      BY <1>1, <1>3, <2>3, <2>4, <3>1 DEF Framed, Plain
  <2>6. PipeType'
    BY <1>1, <2>4 DEF PipeInv, PipeType
  <2>7. TargetIn(builds', req[r].build) \subseteq TargetIn(builds, req[r].build)
    BY <2>4 DEF TargetIn, b
  <2>8. DirOf(b, dir', builds', made')
    <3>1. DirOf(b, dir, builds, made)
      BY <1>3 DEF PipeInv, Dirs
    <3> QED
      BY <1>1, <1>5, <3>1 DEF DirOf, NoBins
  <2> QED
    BY <1>1, <2>3, <2>5, <2>6, <2>7, <2>8, PlainKept
<1> QED
  BY <1>4, <1>5

\* Dropping links does not concern the builds.
LEMMA DropBuildLinksKeeps ==
  ASSUME RowsInv, PipeInv, NEW r \in Requests, DropBuildLinks(r)
  PROVE  PipeInv'
<1>1. req[r].step = "droplinks2" /\ Finish(r) /\ UNCHANGED pipeVars
  BY Zenon DEF DropBuildLinks, At
<1>2. req[r].step \in BuildEnds
  BY <1>1 DEF BuildEnds
<1>3. Plain(r)
  BY <1>1, <1>2, OfDropping, FinishIs DEF Plain, Ended
<1> QED
  BY <1>1, <1>3, PlainAlone

\* The record of a request that has linked a file.
Linked(q) == [q EXCEPT !.step = "pick", !.name = NoName, !.id = 0, !.row = 0]

\* A record that goes on in the same request, on the same build.
GoesOn(p, q, s) == p.op = q.op /\ p.build = q.build /\ p.step = s

\* The records of the steps on files stay in their request and on its build.
LEMMA GoingOn ==
  ASSUME NEW q \in Request
  PROVE  /\ \A i : GoesOn(Found(q, i), q, "store")
         /\ \A s : GoesOn(To(q, s), q, s)
         /\ \A c, n : GoesOn(TakingOwn(q, c, n), q, "find")
         /\ \A c, n : GoesOn(TakingSuggested(q, c, n), q, "link")
         /\ GoesOn(Linked(q), q, "pick")
<1>1. \A i : GoesOn(Found(q, i), q, "store")
  BY DEF Found, GoesOn, Request
<1>2. \A s : GoesOn(To(q, s), q, s)
  BY DEF To, GoesOn, Request
<1>3. \A c, n : GoesOn(TakingOwn(q, c, n), q, "find")
  BY DEF TakingOwn, GoesOn, Request
<1>4. \A c, n : GoesOn(TakingSuggested(q, c, n), q, "link")
  BY DEF TakingSuggested, GoesOn, Request
<1>5. GoesOn(Linked(q), q, "pick")
  BY DEF Linked, GoesOn, Request
<1> QED
  BY <1>1, <1>2, <1>3, <1>4, <1>5

\* Where a step on files leads, in a request at work on files.
LEMMA FilePlain ==
  ASSUME RowsInv, NEW r \in Requests, FileStep(r)
  PROVE  Plain(r)
<1> DEFINE q == req[r]
<1>1. q \in Request /\ Busy(q) /\ req \in [Requests -> Request]
  BY OfRequest DEF Fits
<1>2. ASSUME NEW new, Go(r, new)
      PROVE  /\ req'[r] = new /\ \A s \in Requests : s # r => req'[s] = req[s]
  BY <1>1, <1>2 DEF Go
\* the steps a request goes on to
<1>3. ASSUME NEW new, NEW s, Go(r, new), GoesOn(new, q, s),
             s \in {"write", "droprow", "unlink"} \cup SaveSteps,
             q.step \in {"write", "remove", "droprow", "unlink"} \cup SaveSteps,
             s \in SaveSteps => q.step \in SaveSteps
      PROVE  Plain(r)
  <2>1. req'[r] = new /\ \A t \in Requests : t # r => req'[t] = req[t]
    BY <1>2, <1>3
  <2>2. q.step # "idle" /\ q.step \notin BuildSteps /\ s # "idle" /\ s \notin BuildSteps
    BY <1>3 DEF SaveSteps, BuildSteps
  <2>3. new.op = q.op /\ new.build = q.build /\ new.step = s
    BY <1>3 DEF GoesOn
  <2>4. r \in Pending(req') => r \in Pending(req)
    BY <1>3, <2>1, <2>3 DEF Pending
  <2> QED
    BY <2>1, <2>2, <2>3, <2>4 DEF Plain
<1>4. ASSUME Finish(r), q.step \in {"write", "unlink", "pick"}
      PROVE  Plain(r)
  BY <1>4, FinishIs DEF Plain, Ended, BuildSteps
<1>5. CASE FindRow(r)
  <2>1. PICK i : Go(r, Found(q, i)) /\ q.step = "find"
    BY <1>5, Zenon DEF FindRow, Found, At
  <2>2. GoesOn(Found(q, i), q, "store")
    BY <1>1, GoingOn
  <2> QED
    BY <1>3, <2>1, <2>2 DEF SaveSteps
<1>6. CASE StoreRow(r)
  <2> DEFINE s == IF q.op = "upload" THEN "write" ELSE "link"
  <2>1. Go(r, To(q, s)) /\ q.step = "store"
    BY <1>6, Zenon DEF StoreRow, To, At
  <2>2. GoesOn(To(q, s), q, s)
    BY <1>1, GoingOn
  <2>3. s \in {"write", "link"}
    OBVIOUS
  <2> HIDE DEF s
  <2> QED
    BY <1>3, <2>1, <2>2, <2>3 DEF SaveSteps
<1>7. CASE RemoveFile(r) \/ DropRow(r) \/ ClearLinks(r)
  <2>1. \/ Go(r, To(q, "droprow")) /\ q.step = "remove"
        \/ Go(r, To(q, "unlink")) /\ q.step = "droprow"
        \/ Go(r, To(q, "pick")) /\ q.step = "clear"
    BY <1>7, Zenon DEF RemoveFile, DropRow, ClearLinks, To, At
  <2>2. /\ GoesOn(To(q, "droprow"), q, "droprow") /\ GoesOn(To(q, "unlink"), q, "unlink")
        /\ GoesOn(To(q, "pick"), q, "pick")
    BY <1>1, GoingOn
  <2> QED
    BY <1>3, <2>1, <2>2 DEF SaveSteps
<1>8. CASE PickUser(r)
  <2>1. PICK c : Go(r, TakingOwn(q, c, rows[c.id])) \/ Finish(r)
    BY <1>8, Zenon DEF PickUser, TakingOwn
  <2>2. q.step = "pick" /\ GoesOn(TakingOwn(q, c, rows[c.id]), q, "find")
    BY <1>1, <1>8, GoingOn DEF PickUser, At
  <2> QED
    BY <1>3, <1>4, <2>1, <2>2 DEF SaveSteps
<1>9. CASE PickSuggested(r)
  <2>1. PICK c : Go(r, TakingSuggested(q, c, Suggested[c.id])) /\ q.step = "pick"
    BY <1>9, Zenon DEF PickSuggested, TakingSuggested, At
  <2>2. GoesOn(TakingSuggested(q, c, Suggested[c.id]), q, "link")
    BY <1>1, GoingOn
  <2> QED
    BY <1>3, <2>1, <2>2 DEF SaveSteps
<1>10. CASE AddLink(r)
  <2>1. Go(r, Linked(q)) /\ q.step = "link"
    BY <1>10, Zenon DEF AddLink, Linked, At
  <2>2. GoesOn(Linked(q), q, "pick")
    BY <1>1, GoingOn
  <2> QED
    BY <1>3, <2>1, <2>2 DEF SaveSteps
<1>11. CASE WriteFile(r) \/ DropLinks(r)
  BY <1>4, <1>11, Zenon DEF WriteFile, DropLinks, At
<1> QED
  BY <1>5, <1>6, <1>7, <1>8, <1>9, <1>10, <1>11, Zenon DEF FileStep

-----------------------------------------------------------------------------
(***************************************************************************)
(* Requests that start                                                     *)
(***************************************************************************)

\* A request that starts is apart from those at work.
LEMMA StartExclusive ==
  ASSUME RowsInv, PipeInv, NEW r \in Requests, NEW b, Framed(r, b),
         DOMAIN builds' \subseteq Builds, NEW c, req'[r].build = c,
         \A s \in Requests : s # r /\ req[s].step # "idle" =>
           /\ req[s].build = c => c = 0
           /\ TargetIn(builds, req[s].build) \cap TargetIn(builds', c) = {}
  PROVE  Exclusive'
<1>1. ASSUME NEW s \in Requests, s # r, req'[s].step # "idle"
      PROVE  /\ req'[s] = req[s] /\ req[s].step # "idle"
             /\ TargetIn(builds', req'[s].build) = TargetIn(builds, req[s].build)
  <2>1. req'[s] = req[s]
    BY <1>1 DEF Framed
  <2> QED
    BY <1>1, <2>1, OtherTarget
<1>2. ASSUME NEW s \in Requests, NEW t \in Requests, s # t,
             req'[s].step # "idle", req'[t].step # "idle"
      PROVE  /\ req'[s].build = req'[t].build => req'[s].build = 0
             /\ TargetIn(builds', req'[s].build) \cap TargetIn(builds', req'[t].build) = {}
  <2>1. CASE s # r /\ t # r
    BY <1>1, <1>2, <2>1 DEF PipeInv, Exclusive
  <2>2. CASE s = r
    BY <1>1, <1>2, <2>2
  <2>3. CASE t = r
    BY <1>1, <1>2, <2>3
  <2> QED
    BY <2>1, <2>2, <2>3
<1> QED
  BY <1>2 DEF Exclusive

\* All a start must show.
LEMMA Started ==
  ASSUME RowsInv, PipeInv, NEW r \in Requests, NEW b, Framed(r, b), PipeType', Bounded',
         req[r].step = "idle", job'[r] = NoJob, UNCHANGED <<parent, nextGen>>, Exclusive',
         b \in Builds => DirOf(b, dir', builds', made'),
         OnBuild(req'[r], nextBuild'), req'[r].step \notin BuildSteps
  PROVE  PipeInv'
<1>1. Phase(req[r], job[r], builds, dir, parent, made)
  BY OfPhase
<1>2. job[r].found = "nothing"
  BY <1>1 DEF Phase
<1>3. Clean'
  BY <1>2, CleanKept
<1> HIDE DEF NoJob
<1>4. Numbers'
  BY NoJobIs, NumbersKept
<1>5. Answer(job'[r], made') /\ Phase(req'[r], job'[r], builds', dir', parent', made')
  BY NoJobIs DEF Answer, Phase
<1>6. Dirs' /\ Phases'
  BY <1>5, Framing
<1> QED
  BY <1>3, <1>4, <1>6 DEF PipeInv

\* The variables of a request that starts are empty.
LEMMA NoJobYet ==
  ASSUME PipeInv, NEW r \in Requests, job' = [job EXCEPT ![r] = NoJob]
  PROVE  /\ DOMAIN job' = Requests /\ job'[r] = NoJob
         /\ \A s \in Requests : s # r => job'[s] = job[s]
         /\ \A s \in Requests : IsJob(job'[s])
<1> HIDE DEF NoJob
<1>1. DOMAIN job = Requests
  BY DEF PipeInv, PipeType
<1>2. /\ DOMAIN job' = Requests /\ job'[r] = NoJob
      /\ \A s \in Requests : s # r => job'[s] = job[s]
  BY <1>1
<1> QED
  BY <1>2, NoJobIs DEF PipeInv, PipeType

\* The record a request starts with is its own, the others' stay.
LEMMA StartIs ==
  ASSUME RowsInv, NEW r \in Requests, NEW q, Start(r, q)
  PROVE  req[r].step = "idle" /\ req'[r] = q /\ \A s \in Requests : s # r => req'[s] = req[s]
<1>1. req \in [Requests -> Request]
  BY OfRequest
<1>2. req[r].step = "idle" /\ req' = [req EXCEPT ![r] = q]
  BY Zenon DEF Start, At
<1> QED
  BY <1>1, <1>2

\* A start that leaves the builds as they are.
LEMMA StartedBeside ==
  ASSUME "overlap" \notin Faults, RowsInv, PipeInv, NEW r \in Requests, NEW q, Start(r, q),
         UNCHANGED <<builds, nextBuild, dir, parent, made, nextGen>>,
         job' = [job EXCEPT ![r] = NoJob], OnBuild(q, nextBuild), q.op # "save",
         q.step \notin BuildSteps, NEW names,
         Alone(q.build, TargetIn(builds, q.build), names)
  PROVE  PipeInv'
<1>1. req[r].step = "idle" /\ req'[r] = q /\ \A s \in Requests : s # r => req'[s] = req[s]
  BY StartIs
<1>2. /\ DOMAIN job' = Requests /\ job'[r] = NoJob
      /\ \A s \in Requests : s # r => job'[s] = job[s]
      /\ \A s \in Requests : IsJob(job'[s])
  BY NoJobYet
<1> HIDE DEF NoJob
<1>3. nextBuild \in Nat /\ DOMAIN builds \subseteq Builds
  BY DEF PipeInv, PipeType
<1>4. Framed(r, 0)
  BY <1>1, <1>2, <1>3, PipelineAssumption DEF Framed
<1>5. PipeType'
  BY <1>2 DEF PipeInv, PipeType
<1>6. Bounded'
  <2>1. r \notin Pending(req')
    BY <1>1 DEF Pending
  <2> QED
    BY <1>4, <2>1, BoundedKept
<1>7. Exclusive'
  <2>1. \A s \in Requests : s # r /\ req[s].step # "idle" =>
          /\ req[s].build = q.build => q.build = 0
          /\ TargetIn(builds, req[s].build) \cap TargetIn(builds', q.build) = {}
    BY DEF Alone, Active, At, TargetOf, TargetIn
  <2> QED
    BY <1>1, <1>3, <1>4, <2>1, StartExclusive
<1>8. 0 \notin Builds
  BY PipelineAssumption
<1> QED
  BY <1>1, <1>2, <1>4, <1>5, <1>6, <1>7, <1>8, Started

\* Opening a file to upload, looking up one to delete.
LEMMA FileStartKeeps ==
  ASSUME "overlap" \notin Faults, RowsInv, PipeInv, NEW r \in Requests, NEW n \in Names,
         \/ UploadOpen(r, n)
         \/ \E i \in DOMAIN rows : DeleteLookup(r, i),
         Alone(0, {}, {n}), job' = [job EXCEPT ![r] = NoJob],
         UNCHANGED <<builds, nextBuild, dir, parent, made, nextGen>>
  PROVE  PipeInv'
<1>1. PICK q : /\ Start(r, q) /\ q.op \in {"upload", "delete"} /\ q.build = 0
               /\ q.step \in {"find", "remove"}
  <2>1. CASE UploadOpen(r, n)
    <3> DEFINE i == IF disk[n] = 0 THEN FreeInode ELSE disk[n]
    <3>1. Start(r, Uploading(n, i))
      BY <2>1, Zenon DEF UploadOpen, Uploading
    <3> HIDE DEF i
    <3>2. /\ Uploading(n, i).op = "upload" /\ Uploading(n, i).build = 0
          /\ Uploading(n, i).step = "find"
      BY DEF Uploading, Idle
    <3> QED
      BY <3>1, <3>2
  <2>2. CASE \E i \in DOMAIN rows : DeleteLookup(r, i)
    <3>1. PICK i : Start(r, Removing(i, rows[i]))
      BY <2>2, Zenon DEF DeleteLookup, Removing
    <3>2. /\ Removing(i, rows[i]).op = "delete" /\ Removing(i, rows[i]).build = 0
          /\ Removing(i, rows[i]).step = "remove"
      BY DEF Removing, Idle
    <3> QED
      BY <3>1, <3>2
  <2> QED
    BY <2>1, <2>2
<1>2. OnBuild(q, nextBuild) /\ q.op # "save" /\ q.step \notin BuildSteps
  BY <1>1 DEF OnBuild, BuildSteps
<1>3. TargetIn(builds, q.build) = {}
  BY <1>1, PipelineAssumption DEF TargetIn, PipeInv, PipeType
<1>4. Alone(q.build, TargetIn(builds, q.build), {n})
  BY <1>1, <1>3
<1> QED
  BY <1>1, <1>2, <1>4, StartedBeside

\* A deletion starts on a build and a target nobody works on.
LEMMA DeleteBuildKeeps ==
  ASSUME "overlap" \notin Faults, RowsInv, PipeInv, NEW r \in Requests, NEW b \in Builds,
         DeleteBuild(r, b)
  PROVE  PipeInv'
<1> DEFINE q == DeletingBuild(b)
<1>1. /\ Start(r, q) /\ b \in DOMAIN builds /\ Alone(b, {builds[b].target}, {})
      /\ UNCHANGED <<builds, nextBuild, dir, parent, made, nextGen>>
      /\ job' = [job EXCEPT ![r] = NoJob]
  BY Zenon DEF DeleteBuild, DeletingBuild
<1>2. q.op = "deletebuild" /\ q.build = b /\ q.step = "rmtree"
  BY DEF DeletingBuild, Idle
<1> HIDE DEF q
<1>3. b < nextBuild
  BY <1>1 DEF PipeInv, PipeType
<1>4. OnBuild(q, nextBuild) /\ q.op # "save" /\ q.step \notin BuildSteps
  BY <1>2, <1>3 DEF OnBuild, BuildSteps
<1>5. Alone(q.build, TargetIn(builds, q.build), {})
  BY <1>1, <1>2 DEF TargetIn
<1> QED
  BY <1>1, <1>4, <1>5, StartedBeside

\* A save that starts keeps a number for the generation that follows.
LEMMA BoundedBegun ==
  ASSUME PipeInv, NEW r \in Requests, \A s \in Requests : s # r => req'[s] = req[s],
         nextGen + Cardinality(Active) <= MaxGen, nextGen' = nextGen, req[r].step = "idle"
  PROVE  Bounded'
<1>1. /\ IsFiniteSet(Requests) /\ Active \subseteq Requests
  BY StoreAssumption DEF Active
<1>2. IsFiniteSet(Active) /\ r \notin Active
  BY <1>1, FS_Subset DEF Active, At
<1>3. Pending(req') \subseteq Active \cup {r}
  BY DEF Pending, Active, At, SaveSteps
<1>4. /\ Cardinality(Active) \in Nat /\ IsFiniteSet(Active \cup {r})
      /\ Cardinality(Active \cup {r}) = Cardinality(Active) + 1
  BY <1>2, FS_CardinalityType, FS_AddElement
<1>5. /\ Cardinality(Pending(req')) \in Nat
      /\ Cardinality(Pending(req')) <= Cardinality(Active \cup {r})
  BY <1>3, <1>4, FS_Subset, FS_CardinalityType
<1>6. nextGen \in Nat /\ MaxGen \in Nat
  BY PipelineAssumption DEF PipeInv, PipeType
<1>7. nextGen + Cardinality(Pending(req')) <= MaxGen + 1
  BY <1>4, <1>5, <1>6
<1> QED
  BY <1>7 DEF Bounded

\* A save starts on a build and targets nobody works on; as long as targets do not
\* change, the binaries in its directory are still those of its target.
LEMMA SaveBuildKeeps ==
  ASSUME "overlap" \notin Faults, RowsInv, PipeInv, NEW r \in Requests, NEW b \in Builds,
         NEW t \in Targets, NEW sel, NEW auto, SaveBuild(r, b, t, sel, auto)
  PROVE  PipeInv'
<1> DEFINE names == UNION {NamesOf(c) : c \in sel}
           q     == Saving(b, sel, names)
           new   == Row(t, sel, auto)
<1>1. /\ Start(r, q) /\ UNCHANGED <<dir, parent, made, nextGen>>
      /\ nextGen + Cardinality(Active) <= MaxGen
      /\ job' = [job EXCEPT ![r] = NoJob]
  BY Zenon DEF SaveBuild, SelectFiles, Saving
<1>2. /\ builds' = [i \in DOMAIN builds \cup ({b} \cap {nextBuild}) |->
                      IF i = b THEN new ELSE builds[i]]
      /\ nextBuild' = IF b = nextBuild THEN nextBuild + 1 ELSE nextBuild
      /\ b \in DOMAIN builds /\ NoRetarget => builds[b].target = t
  BY Zenon DEF SaveBuild, NoRetarget
<1>3. b \in DOMAIN builds \/ b = nextBuild \/ b \in 1..nextBuild
  BY DEF SaveBuild
<1>4. Alone(b, {t} \cup (IF b \in DOMAIN builds THEN {builds[b].target} ELSE {}), names)
  BY Zenon DEF SaveBuild
<1>5. q.op = "save" /\ q.step = "clear" /\ q.build = b
  BY DEF Saving, Idle
<1>6. new.target = t
  BY DEF Row
<1> HIDE DEF q, new, names
<1>7. req[r].step = "idle" /\ req'[r] = q /\ \A s \in Requests : s # r => req'[s] = req[s]
  BY <1>1, StartIs
<1>8. /\ DOMAIN job' = Requests /\ job'[r] = NoJob
      /\ \A s \in Requests : s # r => job'[s] = job[s]
      /\ \A s \in Requests : IsJob(job'[s])
  BY <1>1, NoJobYet
<1>9. /\ nextBuild \in Nat \ {0} /\ DOMAIN builds \subseteq Builds /\ b # 0 /\ b \in Nat
      /\ \A c \in DOMAIN builds : c < nextBuild /\ c \in Nat /\ builds[c].target \in Targets
  BY PipelineAssumption DEF PipeInv, PipeType
<1>10. /\ nextBuild' \in Nat \ {0} /\ nextBuild <= nextBuild' /\ b < nextBuild'
  BY <1>2, <1>3, <1>9
<1>11. /\ DOMAIN builds' = DOMAIN builds \cup ({b} \cap {nextBuild})
       /\ \A c \in DOMAIN builds' : c # b => builds'[c] = builds[c]
       /\ b \in DOMAIN builds' => builds'[b].target = t
  BY <1>2, <1>6
<1>12. \A s \in Requests : s # r /\ req[s].step # "idle" =>
         /\ req[s].build # b
         /\ t \notin TargetIn(builds, req[s].build)
  BY <1>4, <1>9 DEF Alone, Active, At, TargetOf, TargetIn
<1> HIDE DEF NoJob
<1>13. Framed(r, b)
  <2>1. \A c \in Builds : c # b => (c \in DOMAIN builds' <=> c \in DOMAIN builds)
    BY <1>11
  <2>2. \A c \in Builds : c # b /\ c \in DOMAIN builds => builds'[c] = builds[c]
    BY <1>11
  <2> QED
    BY <1>1, <1>7, <1>8, <1>9, <1>10, <1>12, <2>1, <2>2 DEF Framed
<1>14. PipeType'
  <2>1. DOMAIN builds' \subseteq Builds
    BY <1>9, <1>11
  <2>2. ASSUME NEW c \in DOMAIN builds'
        PROVE  c < nextBuild' /\ builds'[c].target \in Targets
    <3>1. CASE c = b
      BY <1>10, <1>11, <3>1
    <3>2. CASE c # b
      <4>1. c \in DOMAIN builds /\ builds'[c] = builds[c]
        BY <1>11, <3>2
      <4> QED
        BY <1>9, <1>10, <4>1
    <3> QED
      BY <3>1, <3>2
  <2> QED
    BY <1>1, <1>8, <1>10, <2>1, <2>2 DEF PipeInv, PipeType
<1>15. Bounded'
  BY <1>1, <1>7, BoundedBegun
<1>16. Exclusive'
  <2>1. TargetIn(builds', b) \subseteq {t}
    BY <1>11 DEF TargetIn
  <2>2. DOMAIN builds' \subseteq Builds
    BY <1>9, <1>11
  <2> QED
    BY <1>5, <1>7, <1>12, <1>13, <2>1, <2>2, StartExclusive
<1>17. DirOf(b, dir', builds', made')
  <2>1. DirOf(b, dir, builds, made)
    BY DEF PipeInv, Dirs
  <2>2. NoRetarget /\ b \in DOMAIN builds =>
          b \in DOMAIN builds' /\ builds'[b].target = builds[b].target
    BY <1>2, <1>11
  <2> QED
    BY <1>1, <2>1, <2>2 DEF DirOf
<1>18. OnBuild(req'[r], nextBuild') /\ req'[r].step \notin BuildSteps
  BY <1>5, <1>7, <1>10 DEF OnBuild, BuildSteps
<1> QED
  BY <1>1, <1>7, <1>8, <1>13, <1>14, <1>15, <1>16, <1>17, <1>18, Started

-----------------------------------------------------------------------------
(***************************************************************************)
(* PipeInv is inductive                                                    *)
(***************************************************************************)
\* Every start keeps the invariant.
LEMMA StartsKeep ==
  ASSUME "overlap" \notin Faults, RowsInv, PipeInv, NEW r \in Requests, PStart(r)
  PROVE  PipeInv'
<1>1. CASE \E b \in Builds, t \in Targets, sel \in SUBSET Offered :
             /\ Cardinality(sel) <= MaxSelected
             /\ \E auto \in sel \cup {NoAutorun} : SaveBuild(r, b, t, sel, auto)
  <2>1. PICK b \in Builds, t \in Targets : \E sel, auto : SaveBuild(r, b, t, sel, auto)
    BY <1>1
  <2> QED
    BY <2>1, SaveBuildKeeps
<1>2. CASE \E b \in Builds : DeleteBuild(r, b)
  BY <1>2, DeleteBuildKeeps
<1>3. CASE /\ \/ \E n \in Names : Alone(0, {}, {n}) /\ UploadOpen(r, n)
              \/ \E i \in DOMAIN rows : Alone(0, {}, {rows[i]}) /\ DeleteLookup(r, i)
           /\ job' = [job EXCEPT ![r] = NoJob]
           /\ UNCHANGED <<builds, nextBuild, dir, parent, cwd, made, nextGen>>
  <2>1. CASE \E n \in Names : Alone(0, {}, {n}) /\ UploadOpen(r, n)
    BY <1>3, <2>1, FileStartKeeps
  <2>2. CASE \E i \in DOMAIN rows : Alone(0, {}, {rows[i]}) /\ DeleteLookup(r, i)
    <3>1. PICK i \in DOMAIN rows : Alone(0, {}, {rows[i]}) /\ DeleteLookup(r, i)
      BY <2>2
    <3>2. rows[i] \in Names
      BY OfRequest
    <3> QED
      BY <1>3, <3>1, <3>2, FileStartKeeps
  <2> QED
    BY <1>3, <2>1, <2>2
<1> QED
  BY <1>1, <1>2, <1>3, Zenon DEF PStart

\* Every step keeps the invariant.
LEMMA StepsKeep ==
  ASSUME Separate, RowsInv, PipeInv, NEW r \in Requests, PStep(r)
  PROVE  PipeInv'
<1>1. CASE FileStep(r) /\ UNCHANGED pipeVars
  BY <1>1, FilePlain, PlainAlone
<1>2. CASE CopyFile(r)
  <2>1. CASE ~Fail(r)
    BY <1>2, <2>1, CopyFileKeeps
  <2>2. CASE Fail(r)
    <3>1. req[r].step = "copy" /\ UNCHANGED <<builds, nextBuild, parent, made, nextGen>>
      BY <1>2, Zenon DEF CopyFile, At
    <3>2. Phase(req[r], job[r], builds, dir, parent, made)
      BY OfPhase
    <3>3. job[r].found = "nothing"
      BY <3>1, <3>2 DEF Phase
    <3>4. UNCHANGED dir
      <4>1. req'[r].step = "idle"
        BY <2>2, FinishIs DEF Fail, Ended
      <4>2. UNCHANGED dir \/ req' = req
        BY <1>2, Zenon DEF CopyFile
      <4> QED
        BY <3>1, <4>1, <4>2
    <3> QED
      BY <2>2, <3>1, <3>3, <3>4, FailKept
  <2> QED
    BY <2>1, <2>2
<1>3. CASE Fetch(r) \/ MakeDir(r) \/ CopyBase(r) \/ ClearRomfs(r) \/ ListFiles(r)
  BY <1>3, FetchKeeps, MakeDirKeeps, CopyBaseKeeps, ClearRomfsKeeps, ListFilesKeeps
<1>4. CASE WriteConf(r) \/ StoreConfigs(r) \/ Scons(r) \/ CheckBin(r)
  BY <1>4, WriteConfKeeps, StoreConfigsKeeps, SconsKeeps, CheckBinKeeps
<1>5. CASE Pack(r) \/ MoveBack(r)
  BY <1>5, PackKeeps, MoveBackKeeps
<1>6. CASE RemoveTree(r) \/ DropBuildRow(r) \/ DropBuildLinks(r)
  BY <1>6, RemoveTreeKeeps, DropBuildRowKeeps, DropBuildLinksKeeps
<1> QED
  BY <1>1, <1>2, <1>3, <1>4, <1>5, <1>6, Zenon DEF PStep

\* Every step, and every killed request.
LEMMA NextPipe ==
  ASSUME Separate, RowsInv, PipeInv, [PNext]_allVars
  PROVE  PipeInv'
<1>1. "overlap" \notin Faults
  BY DEF Separate
<1>2. CASE UNCHANGED allVars
  <2>1. UNCHANGED <<req, builds, nextBuild, dir, parent, job, made, nextGen>>
    BY <1>2, Zenon DEF allVars, vars, pipeVars
  <2>2. /\ PipeType' /\ Exclusive'
        /\ Bounded' /\ Numbers'
    <3>1. PipeType'
      BY <2>1 DEF PipeInv, PipeType
    <3>2. Exclusive'
      BY <2>1 DEF PipeInv, Exclusive
    <3>3. Pending(req') = Pending(req) /\ nextGen' = nextGen
      BY <2>1
    <3>4. Bounded'
      BY <3>3 DEF PipeInv, Bounded
    <3>5. Numbers'
      BY <2>1 DEF PipeInv, Numbers
    <3> QED
      BY <3>1, <3>2, <3>4, <3>5
  <2>3. Dirs' /\ Phases'
    BY <2>1 DEF PipeInv, Dirs, Phases
  <2>4. Clean'
    BY <2>1 DEF PipeInv, Clean, ParentClean, Active, At
  <2> QED
    BY <2>2, <2>3, <2>4 DEF PipeInv
<1>3. CASE PNext
  <2>1. PICK r \in Requests : PStart(r) \/ PStep(r) \/ Crash(r)
    BY <1>3, Zenon DEF PNext
  <2>2. CASE PStart(r)
    BY <1>1, <2>2, StartsKeep
  <2>3. CASE PStep(r)
    BY <2>3, StepsKeep
  <2>4. CASE Crash(r)
    <3>1. /\ Fail(r) /\ UNCHANGED <<builds, nextBuild, dir, parent, made, nextGen>>
          /\ "crash" \in Faults
      BY <2>4, Zenon DEF Crash
    <3> QED
      BY <3>1, FailKept
  <2> QED
    BY <2>1, <2>2, <2>3, <2>4
<1> QED
  BY <1>2, <1>3

\* At first there are no builds, no directories and no requests at work.
LEMMA InitPipe ==
  ASSUME PInit
  PROVE  PipeInv
<1>1. /\ req = [r \in Requests |-> Idle] /\ builds = <<>> /\ nextBuild = 1
      /\ dir = [b \in Builds |-> Missing] /\ job = [r \in Requests |-> NoJob]
      /\ parent = [bins |-> NoBins, log |-> 0] /\ nextGen = 1
      /\ made = [g \in 1..MaxGen |-> [romfs |-> NoRomfs, build |-> 0]]
  BY Zenon DEF PInit, Init
<1>2. \A r \in Requests : req[r].step = "idle" /\ req[r].op = "none" /\ req[r].build = 0
  BY <1>1 DEF Idle
<1>3. /\ DOMAIN job = Requests /\ DOMAIN dir = Builds /\ DOMAIN builds = {}
      /\ \A r \in Requests : job[r] = NoJob /\ IsJob(job[r])
      /\ \A b \in Builds : dir[b] = Missing /\ IsDir(dir[b])
  <2> HIDE DEF NoJob, Missing
  <2> QED
    BY <1>1, NoJobIs, EmptyDirIs
<1> HIDE DEF NoJob, Missing
<1>4. IsParent(parent) /\ parent.bins = NoBins /\ parent.log = 0
  BY <1>1 DEF IsParent, ParentFields, NoBins
<1>5. DOMAIN made = 1..MaxGen /\ \A g \in 1..MaxGen : made[g].build = 0
  BY <1>1
<1>6. PipeType
  BY <1>1, <1>3, <1>4, <1>5 DEF PipeType
<1>7. Bounded
  <2>1. Pending(req) = {}
    BY <1>2 DEF Pending
  <2>2. Cardinality(Pending(req)) = 0 /\ MaxGen \in Nat
    BY <2>1, FS_EmptySet, PipelineAssumption
  <2>3. nextGen = 1
    BY <1>1
  <2> QED
    BY <2>2, <2>3 DEF Bounded
<1>8. Numbers
  BY <1>1, <1>3, <1>5, NoJobIs DEF Numbers
<1>9. Exclusive
  BY <1>2 DEF Exclusive
<1>10. Dirs
  BY <1>3, EmptyDirIs DEF Dirs, DirOf, NoBins
<1>11. Phases
  <2>1. ASSUME NEW r \in Requests
        PROVE  /\ OnBuild(req[r], nextBuild) /\ Answer(job[r], made)
               /\ Phase(req[r], job[r], builds, dir, parent, made)
    BY <1>2, <1>3, NoJobIs DEF OnBuild, Answer, Phase, BuildSteps
  <2> QED
    BY <2>1 DEF Phases
<1>12. Clean
  BY <1>4 DEF Clean, ParentClean, NoBins
<1> QED
  BY <1>6, <1>7, <1>8, <1>9, <1>10, <1>11, <1>12 DEF PipeInv

-----------------------------------------------------------------------------
(***************************************************************************)
(* What a user is told                                                     *)
(***************************************************************************)

\* The directories, the parent directory and the variables of every generate(), at
\* every step of any number of saves, generations, deletions, uploads: with
\* compilers that fail and requests that are killed, as long as requests that run
\* at the same time have different builds, targets and files.
THEOREM PipelineInvariant == Separate => (PSpec => []PipeInv)
<1> SUFFICES ASSUME Separate PROVE PSpec => []PipeInv
  OBVIOUS
<1>1. RowsInv /\ PipeInv /\ [PNext]_allVars => PipeInv'
  BY NextPipe
<1>2. PInit => PipeInv
  BY InitPipe
<1> QED
  BY <1>1, <1>2, TableInvariant, PTL DEF PSpec

\* "Your build image was generated successfully": when compilers do not fail and
\* targets do not change, the binary moved back is the one this generation compiled.
THEOREM ImageIsFresh ==
  Separate /\ NoRetarget /\ "scons" \notin Faults => (PSpec => []OwnFreshImage)
<1> SUFFICES ASSUME Separate, NoRetarget, "scons" \notin Faults
             PROVE  PSpec => []OwnFreshImage
  OBVIOUS
<1>1. PipeInv => OwnFreshImage
  BY DEF PipeInv, Phases, Answer, OwnFreshImage
<1> QED
  BY <1>1, PipelineInvariant, PTL

\* Whatever failed or was killed before: the binary a user is offered was compiled
\* for his build, though maybe by an earlier generation.
THEOREM ImageOfThisBuild == Separate => (PSpec => []OwnImage)
<1>1. PipeInv => OwnImage
  BY DEF PipeInv, Phases, Answer, MadeFor, OwnImage
<1> QED
  BY <1>1, PipelineInvariant, PTL

\* The errors of the compiler are offered only after a generation without an image.
THEOREM FailureIsTrue == Separate => (PSpec => []FailureIsReal)
<1>1. PipeInv => FailureIsReal
  BY DEF PipeInv, Phases, Answer, MadeFor, FailureIsReal
<1> QED
  BY <1>1, PipelineInvariant, PTL

\* The log has one name for all builds of a user: with one request at a time, the one
\* offered is that of the generation that failed, even after others were killed.
THEOREM LogIsOwn == Single /\ "overlap" \notin Faults => (PSpec => []OwnLog)
<1> SUFFICES ASSUME Single, "overlap" \notin Faults PROVE PSpec => []OwnLog
  OBVIOUS
<1>1. PipeInv => OwnLog
  BY DEF PipeInv, Phases, Answer, OwnLog
<1>2. Separate
  BY DEF Separate
<1> QED
  BY <1>1, <1>2, PipelineInvariant, PTL

\* mv_binary leaves nothing behind: what lies in the parent directory belongs to a
\* generation that still has to move it back.
THEOREM NothingLeftParked ==
  Separate /\ "crash" \notin Faults => (PSpec => []ParentClean)
<1> SUFFICES ASSUME Separate, "crash" \notin Faults PROVE PSpec => []ParentClean
  OBVIOUS
<1>1. PipeInv => ParentClean
  BY DEF PipeInv, Clean
<1> QED
  BY <1>1, PipelineInvariant, PTL
=============================================================================
