------------------------------ MODULE Branches ------------------------------
(* Branches: names and ids, parents and fork times, rows that a branch      *)
(* inherits from its ancestors, and the markers that hide what it deleted.  *)
(*                                                                          *)
(* A branch id has its own rows; a query of branch b walks b, its parent,   *)
(* and so on, and takes the first live row it meets.  A deletion on an      *)
(* ancestor counts only when it is not younger than the fork of b.  The key-*)
(* value store has no lock: requests and the git poller take their steps in *)
(* between those of each other and of an ingest, which holds the graph.     *)
(*                                                                          *)
(* A row is a symbol's identity on one branch: its newest live revision, or *)
(* a tombstone when there is none.  What a file contains, and which symbol  *)
(* takes over which tombstone, is Ingest's subject and any choice here.     *)
EXTENDS Naturals, Sequences, SequencesExt, FiniteSetsExt

CONSTANTS Names, Main,       \* branch names, the one registered at the start
          Idents, Files,
          Home,              \* the file that names the identity
          Threads, Git,      \* threads that serve requests; the file-sync thread
          None,
          AncestryDepth,     \* BRANCH_ANCESTRY_MAX_DEPTH
          MaxTime, MaxSeq, MaxRequests, MaxIngests
                             \* bounds: clock, new ids, requests of
                             \* each thread, ingests

Ids == {<<Main, 0>>} \cup ((Names \ {Main}) \X (1..MaxSeq))
Clock == 0..MaxTime
Actors == Threads \cup {Git}

ASSUME BranchesAssumption ==
  /\ Main \in Names /\ Home \in [Idents -> Files] /\ Git \notin Threads
  /\ None \notin Names \cup Ids \cup Idents \cup Files \cup Clock \cup [file : Files, live : BOOLEAN]
  /\ {AncestryDepth, MaxTime, MaxSeq, MaxIngests} \subseteq Nat /\ MaxRequests \in [Actors -> Nat]

VARIABLES
  reg, seq,     \* branch_reg: name to id; branch_seq
  parent,       \* branch_parent: of each id
  forkTs,       \* fork_ts: of each id
  deleted,      \* deleted: markers, the time of the deletion
  ri,           \* ri: the identities bound on each branch
  row,          \* the rows of each branch
  active,       \* the name and the id of the active branch
  at,           \* what each thread is doing
  job,          \* the ingest that holds the write lock, None without one
  clock, requests, ingests,
  kept,         \* what a branch saw when its fork was stamped (read by properties)
  gone,         \* what an ingest of the branch took away (read by properties)
  purged        \* branches that were purged (read by properties)

store == <<parent, forkTs, deleted, ri>>
history == <<kept, gone, purged>>
vars == <<reg, seq, store, row, active, at, job, clock, requests, ingests, history>>

---------------------------------------------------------------------------
(* What a query sees                                                        *)

(* branch_ancestry: nearest first, cut at a cycle and at the depth limit.   *)
Chain(b) ==
  LET Longer(c) ==
        {IF p = None \/ p \in Range(c) THEN c ELSE Append(c, p) : p \in {parent[Last(c)]}}
      up[n \in 0..AncestryDepth] ==
        IF n = 0 THEN {<<b>>} ELSE UNION {Longer(c) : c \in up[n - 1]}
  IN  CHOOSE c \in up[AncestryDepth] : TRUE

Ancestors(b) == Range(Chain(b))

HasChildren(b) == \E c \in Ids : parent[c] = b

Live(b, i) == row[b][i] # None /\ row[b][i].live
Tomb(b, i) == row[b][i] # None /\ ~row[b][i].live
Marked(b, i) == deleted[b][i] # None

(* should_honor_deletion_for_query.                                         *)
Honored(q, b, i) ==
  Marked(b, i) /\ (b = q \/ forkTs[q] = None \/ deleted[b][i] <= forkTs[q])

(* The walk of a query of q ends at branch b: at a live row, at a deletion  *)
(* that counts, or at a tombstone without a marker.                         *)
EndsAt(q, b, i) == Live(b, i) \/ Honored(q, b, i) \/ (Tomb(b, i) /\ ~Marked(b, i))

(* resolve_identity_revision_with_absence over a chain: the branch whose row*)
(* is found.                                                                *)
SourceIn(c, i) ==
  LET ends == {k \in DOMAIN c : EndsAt(c[1], c[k], i)}
  IN  IF ends = {} THEN None
      ELSE LET b == c[Min(ends)] IN IF Live(b, i) /\ ~Honored(c[1], b, i) THEN b ELSE None

View(q) == LET c == Chain(q) IN {i \in Idents : SourceIn(c, i) # None}

(* What a query of q finds in a file.                                       *)
SeenIn(q, f) ==
  LET c == Chain(q)
  IN  {i \in Idents : SourceIn(c, i) # None /\ row[SourceIn(c, i)][i].file = f}

---------------------------------------------------------------------------
(* Starting                                                                 *)

Idle == [pc |-> "idle", name |-> None, id |-> None, from |-> None, fork |-> FALSE,
         switch |-> FALSE]

Times == [Ids -> [Idents -> Clock \cup {None}]]
RowRecord == [file : Files, live : BOOLEAN]
Thread == [pc : {"idle", "getId", "register", "copy", "stamp", "setName", "setId",
                 "clear", "dropParent", "dropStamp", "finalize"},
           name : Names \cup {None}, id : Ids \cup {None}, from : Ids \cup {None},
           fork : BOOLEAN, switch : BOOLEAN]
Job == [branch : Ids, file : Files, found : SUBSET Idents, left : SUBSET Idents,
        marked : Idents \cup {None}, seen : SUBSET Idents]

TypeOK ==
  /\ reg \in [Names -> Ids \cup {None}] /\ seq \in 0..MaxSeq
  /\ \A n \in Names : reg[n] # None => reg[n][1] = n /\ reg[n][2] <= seq
  /\ parent \in [Ids -> Ids \cup {None}] /\ forkTs \in [Ids -> Clock \cup {None}]
  /\ deleted \in Times /\ ri \in [Ids -> SUBSET Idents]
  /\ row \in [Ids -> [Idents -> RowRecord \cup {None}]]
  /\ active \in [name : Names, id : Ids]
  /\ at \in [Actors -> Thread] /\ job \in Job \cup {None}
  /\ clock \in Clock /\ requests \in [Actors -> Nat] /\ ingests \in 0..MaxIngests
  /\ kept \in [Ids -> SUBSET Idents] /\ gone \in [Ids -> SUBSET Idents] /\ purged \in SUBSET Ids

MainId == <<Main, 0>>

(* The first ingest of main has been done: every identity is in its file.   *)
Init ==
  /\ reg = [n \in Names |-> IF n = Main THEN MainId ELSE None]
  /\ seq = 0
  /\ parent = [b \in Ids |-> None] /\ forkTs = [b \in Ids |-> None]
  /\ deleted = [b \in Ids |-> [i \in Idents |-> None]]
  /\ ri = [b \in Ids |-> IF b = MainId THEN Idents ELSE {}]
  /\ row = [b \in Ids |-> [i \in Idents |->
               IF b = MainId THEN [file |-> Home[i], live |-> TRUE] ELSE None]]
  /\ active = [name |-> Main, id |-> MainId]
  /\ at = [t \in Actors |-> Idle] /\ job = None
  /\ clock = 0 /\ requests = MaxRequests /\ ingests = MaxIngests
  /\ kept = [b \in Ids |-> {}] /\ gone = [b \in Ids |-> {}] /\ purged = {}

(* now_ms: the clock may have moved since it was last read.                 *)
Now == {clock, clock + 1} \cap Clock

---------------------------------------------------------------------------
(* Requests                                                                 *)

Goto(t, pc) == at' = [at EXCEPT ![t].pc = pc]
EndRequest(t) == at' = [at EXCEPT ![t] = Idle]
Begin(t, work) == /\ at[t].pc = "idle" /\ requests[t] > 0
                  /\ requests' = [requests EXCEPT ![t] = @ - 1] /\ at' = [at EXCEPT ![t] = work]

(* create_branch: the parent has to be registered, the name may be.         *)
CreateBranch(t, n, p) ==
  /\ reg[p] # None
  /\ Begin(t, [Idle EXCEPT !.pc = "getId", !.name = n, !.from = reg[p], !.fork = TRUE])
  /\ UNCHANGED <<reg, seq, store, row, active, job, clock, ingests, history>>

(* apply_git_branch_name: HEAD is on n.  A name that is new is forked from  *)
(* the active branch, and becomes the active one.                           *)
SyncWithGit(n) ==
  /\ Begin(Git, [pc |-> "getId", name |-> n, id |-> None, from |-> active.id,
                 fork |-> reg[n] = None /\ active.name # n, switch |-> active.name # n])
  /\ UNCHANGED <<reg, seq, store, row, active, job, clock, ingests, history>>

SwitchBranch(t, n) ==
  /\ reg[n] # None
  /\ Begin(t, [Idle EXCEPT !.pc = "setName", !.name = n, !.id = reg[n], !.switch = TRUE])
  /\ UNCHANGED <<reg, seq, store, row, active, job, clock, ingests, history>>

PurgeBranch(t, b) ==
  /\ Begin(t, [Idle EXCEPT !.pc = "clear", !.id = b, !.from = parent[b]])
  /\ purged' = purged \cup {b}
  /\ UNCHANGED <<reg, seq, store, row, active, job, clock, ingests, kept, gone>>

(* What follows once the id of the name is known.                           *)
WithId(t, id) ==
  LET next == CASE at[t].fork /\ id # at[t].from -> "copy"
                [] ~at[t].fork /\ at[t].switch -> "setName"
                [] OTHER -> "idle"
  IN  at' = [at EXCEPT ![t] = IF next = "idle" THEN Idle ELSE [@ EXCEPT !.id = id, !.pc = next]]

(* get_or_create_id: nothing keeps another thread from registering the name*)
(* between the look and the new id.  (branch_seq is read and written in one *)
(* step here; threads that read the same number collide only on one name,   *)
(* and then agree on its id.)                                               *)
GetId(t) ==
  /\ at[t].pc = "getId"
  /\ IF reg[at[t].name] # None THEN WithId(t, reg[at[t].name]) ELSE Goto(t, "register")
  /\ UNCHANGED <<reg, seq, store, row, active, job, clock, requests, ingests, history>>

Register(t) ==
  /\ at[t].pc = "register" /\ seq < MaxSeq /\ seq' = seq + 1
  /\ reg' = [reg EXCEPT ![at[t].name] = <<at[t].name, seq'>>]
  /\ WithId(t, <<at[t].name, seq + 1>>)
  /\ UNCHANGED <<store, row, active, job, clock, requests, ingests, history>>

(* fork_branch_bindings: the bindings and the parent, then the fork time.   *)
(* The parent and the time that are there stay.                             *)
SetParent(t) ==
  /\ at[t].pc = "copy" /\ Goto(t, "stamp")
  /\ ri' = [ri EXCEPT ![at[t].id] = @ \cup ri[at[t].from]]
  /\ parent' = [parent EXCEPT ![at[t].id] = IF @ = None THEN at[t].from ELSE @]
  /\ UNCHANGED <<reg, seq, forkTs, deleted, row, active, job, clock, requests, ingests, history>>

StampFork(t) ==
  /\ at[t].pc = "stamp"
  /\ IF at[t].switch THEN Goto(t, "setName") ELSE EndRequest(t)
  /\ UNCHANGED <<reg, seq, parent, deleted, ri, row, active, job, requests, ingests, gone, purged>>
  /\ \E b \in {at[t].id} :
       IF forkTs[b] # None THEN UNCHANGED <<forkTs, clock, kept>>
       ELSE \E now \in Now : /\ clock' = now /\ forkTs' = [forkTs EXCEPT ![b] = now]
                             /\ kept' = [kept EXCEPT ![b] = View(b)']

(* The active branch: the name and the id (with the revision index) have   *)
(* locks of their own.                                                      *)
SetName(t) ==
  /\ at[t].pc = "setName" /\ Goto(t, "setId")
  /\ active' = [active EXCEPT !.name = at[t].name]
  /\ UNCHANGED <<reg, seq, store, row, job, clock, requests, ingests, history>>

SetId(t) ==
  /\ at[t].pc = "setId" /\ EndRequest(t)
  /\ active' = [active EXCEPT !.id = at[t].id]
  /\ UNCHANGED <<reg, seq, store, row, job, clock, requests, ingests, history>>

---------------------------------------------------------------------------
(* Purging a branch                                                         *)

(* The bindings and the markers go first.                                   *)
ClearKeys(t) ==
  /\ at[t].pc = "clear" /\ Goto(t, "dropParent")
  /\ ri' = [ri EXCEPT ![at[t].id] = {}]
  /\ deleted' = [deleted EXCEPT ![at[t].id] = [i \in Idents |-> None]]
  /\ UNCHANGED <<reg, seq, parent, forkTs, row, active, job, clock, requests, ingests, history>>

DropParent(t) ==
  /\ at[t].pc = "dropParent" /\ Goto(t, "dropStamp")
  /\ parent' = [parent EXCEPT ![at[t].id] = None]
  /\ UNCHANGED <<reg, seq, forkTs, deleted, ri, row, active, job, clock, requests, ingests, history>>

(* The parent of the purged branch is looked at once more: has it children? *)
DropStamp(t) ==
  /\ at[t].pc = "dropStamp"
  /\ forkTs' = [forkTs EXCEPT ![at[t].id] = None]
  /\ IF at[t].from # None /\ ~HasChildren(at[t].from) THEN Goto(t, "finalize") ELSE EndRequest(t)
  /\ UNCHANGED <<reg, seq, parent, deleted, ri, row, active, job, clock, requests, ingests, history>>

(* finalize_soft_deletes_without_children: of every branch without one.     *)
Buried ==
  [b \in Ids |-> [i \in Idents |->
     IF Live(b, i) /\ Marked(b, i) /\ ~HasChildren(b)
     THEN [row[b][i] EXCEPT !.live = FALSE] ELSE row[b][i]]]

BurySoftDeleted ==
  /\ job = None /\ row' = Buried
  /\ UNCHANGED <<reg, seq, store, active, job, clock, requests, ingests, history>>

Finalize(t) == at[t].pc = "finalize" /\ EndRequest(t) /\ BurySoftDeleted

---------------------------------------------------------------------------
(* An ingest of one file on one branch, under the write lock                *)

(* The file has the symbols found, the file's own identities.  Live rows of *)
(* the file without one are to be buried.                                   *)
StartIngest(b, f, found) ==
  /\ job = None /\ ingests > 0 /\ ingests' = ingests - 1
  /\ b \in Range(reg)
  /\ job' = [branch |-> b, file |-> f, found |-> found, marked |-> None,
             left |-> {i \in Idents : Live(b, i) /\ row[b][i].file = f} \ found,
             seen |-> SeenIn(b, f)]
  /\ UNCHANGED <<reg, seq, store, row, active, at, clock, requests, history>>

(* do_tombstone, row by row: the marker first, then the look for children.  *)
MarkDeleted(i) ==
  /\ job # None /\ job.marked = None /\ i \in job.left
  /\ job' = [job EXCEPT !.marked = i, !.left = @ \ {i}]
  /\ \E now \in Now : /\ clock' = now /\ deleted' = [deleted EXCEPT ![job.branch][i] = now]
  /\ UNCHANGED <<reg, seq, parent, forkTs, ri, row, active, at, requests, ingests, history>>

(* Mutant: the row goes although a child branch inherits it.                *)
BuryInherited == [row EXCEPT ![job.branch][job.marked].live = FALSE]
(* A branch with children keeps the row: a soft delete.                     *)
BuryRow ==
  IF HasChildren(job.branch) THEN row ELSE [row EXCEPT ![job.branch][job.marked].live = FALSE]

Bury ==
  /\ job # None /\ job.marked # None
  /\ job' = [job EXCEPT !.marked = None]
  /\ row' = BuryRow
  /\ UNCHANGED <<reg, seq, store, active, at, clock, requests, ingests, history>>

(* plant_inherited_file_tombstones: what any other branch has in the file   *)
(* and the file no longer has.                                              *)
Inherited == {i \in Idents \ job.found :
                \E b \in Ids \ {job.branch} : Live(b, i) /\ row[b][i].file = job.file}

PlantedRows(b) ==
  [i \in Idents |-> IF i \in Inherited /\ ~Live(b, i)
                    THEN [file |-> job.file, live |-> FALSE] ELSE row[b][i]]

(* Mutant: a symbol without a row of the branch gets a tombstone only, and  *)
(* no marker.                                                               *)
PlantedMarkersOfOwn(b, now) ==
  [i \in Idents |-> IF i \in Inherited /\ row[b][i] # None THEN now ELSE deleted[b][i]]
PlantedMarkers(b, now) == [i \in Idents |-> IF i \in Inherited THEN now ELSE deleted[b][i]]

(* The rest of the ingest: tombstones are planted, then every symbol gets   *)
(* its row and loses its marker.  A symbol that takes over a tombstone      *)
(* brings the identity of another file here.                                *)
FinishIngest(moved) ==
  LET b == job.branch
      rows == PlantedRows(b)
      put == job.found \cup moved
      new == [i \in Idents |-> IF i \in put THEN [file |-> job.file, live |-> TRUE] ELSE rows[i]]
  IN  /\ job # None /\ job.marked = None /\ job.left = {}
      /\ moved \subseteq {i \in Idents : Home[i] # job.file /\ rows[i] # None /\ ~rows[i].live}
      /\ row' = [row EXCEPT ![b] = new]
      /\ \E now \in IF Inherited = {} THEN {clock} ELSE Now :
           /\ clock' = now
           /\ deleted' = [deleted EXCEPT ![b] =
                            [i \in Idents |-> IF i \in put THEN None ELSE PlantedMarkers(b, now)[i]]]
      /\ ri' = [ri EXCEPT ![b] = {i \in Idents : new[i] # None /\ new[i].live}]
      /\ gone' = [gone EXCEPT ![b] = (@ \cup job.seen) \ put]
      /\ job' = None
      /\ UNCHANGED <<reg, seq, parent, forkTs, active, at, requests, ingests, kept, purged>>

(* Mutant: the marker goes with the tombstone.                              *)
CollectWithMarker(b, i) ==
  /\ job = None /\ Tomb(b, i)
  /\ row' = [row EXCEPT ![b][i] = None] /\ deleted' = [deleted EXCEPT ![b][i] = None]
  /\ UNCHANGED <<reg, seq, parent, forkTs, ri, active, at, job, clock, requests, ingests, history>>
(* The collector of tombstones removes the row and no marker.               *)
Collect(b, i) ==
  /\ job = None /\ Tomb(b, i)
  /\ row' = [row EXCEPT ![b][i] = None]
  /\ UNCHANGED <<reg, seq, store, active, at, job, clock, requests, ingests, history>>

(* scan_eligible buries what was soft deleted while its branch had children *)
(* before it looks for tombstones.                                          *)
Scan == BurySoftDeleted /\ UNCHANGED at

---------------------------------------------------------------------------
Request(t) ==
  \/ \E n, p \in Names : CreateBranch(t, n, p)
  \/ \E n \in Names : SwitchBranch(t, n)
  \/ \E b \in Range(reg) \ {None} : PurgeBranch(t, b)

Continue(t) ==
  \/ GetId(t) \/ Register(t)
  \/ SetParent(t) \/ StampFork(t)
  \/ SetName(t) \/ SetId(t)
  \/ ClearKeys(t) \/ DropParent(t) \/ DropStamp(t) \/ Finalize(t)

Ingesting ==
  \/ \E b \in Range(reg) \ {None}, f \in Files :
       \E found \in SUBSET {i \in Idents : Home[i] = f} : StartIngest(b, f, found)
  \/ \E i \in Idents : MarkDeleted(i)
  \/ Bury
  \/ \E moved \in SUBSET Idents : FinishIngest(moved)

Next ==
  \/ \E n \in Names : SyncWithGit(n)
  \/ \E t \in Threads : Request(t)
  \/ \E t \in Actors : Continue(t)
  \/ Ingesting
  \/ Scan
  \/ \E b \in Ids, i \in Idents : Collect(b, i)

Spec == Init /\ [][Next]_vars

---------------------------------------------------------------------------
(* Properties                                                               *)

Unpurged(b) == Ancestors(b) \cap purged = {}

(* What an ingest took off a file of a branch stays out of its sight until  *)
(* the branch has it again: through soft deletes, the collection of the     *)
(* tombstone, forks, and whatever the branches it inherits from do.         *)
(* [deletion_absence.rs should_honor_deletion_for_query,                    *)
(* identity_resolution.rs plant_inherited_file_tombstones]                  *)
DeletedStaysDeleted ==
  job = None => \A b \in {a \in Ids \ purged : gone[a] # {}} : gone[b] \cap View(b) = {}

(* What a branch saw when it was forked it sees as long as it does not      *)
(* delete it itself, whatever its ancestors delete later (unless in the very*)
(* millisecond of the fork) and whichever other branch is purged.           *)
(* [identity_resolution.rs do_tombstone, finalize_soft_deletes_without_     *)
(* children; query_engine.rs resolve_identity_revision_with_absence]        *)
ForkKeepsItsView ==
  job = None => \A b \in {a \in Ids : kept[a] # {}} : Unpurged(b) =>
    \A i \in kept[b] \ View(b) :
      Marked(b, i) \/ \E a \in Ancestors(b) : deleted[a][i] = forkTs[b]

(* A step changes what a branch sees only if it is an ingest, a purge or a  *)
(* fork of the branch itself or of one it inherits from.  Collecting        *)
(* tombstones and burying soft-deleted rows is not seen by anyone.          *)
(* [mcp_runtime.rs purge_branch, tombstone_gc.rs delete_revision]           *)
OnlyAncestorsChangeAView ==
  [][<<row, deleted>>' # <<row, deleted>> =>
       \A b \in Ids : View(b)' # View(b) =>
         \/ job # None /\ job' # job /\ job.branch \in Ancestors(b)
         \/ ~Unpurged(b)]_vars

---------------------------------------------------------------------------
(* What does not hold.                                                      *)

(* A fork sees what its parent sees.  It does not: a deletion on a          *)
(* grandparent that is younger than the fork of the parent is older than    *)
(* the fork of the child, and counts for the child alone.                   *)
ForkSeesWhatParentSees ==
  [][\A b \in Ids : forkTs[b] = None /\ forkTs'[b] # None /\ Unpurged(b) /\ job = None
       => View(parent[b]) \subseteq View(b)' \cup {i \in Idents : Marked(b, i)}]_vars

(* A live row of a branch is seen on the branch.  It is not: a symbol that  *)
(* moved to another file is marked again by every ingest of its old file.   *)
LiveRowIsSeen ==
  job = None => \A b \in Ids, i \in Idents :
    Live(b, i) => i \in View(b) \/ (Marked(b, i) /\ HasChildren(b))

(* A purge takes from other branches nothing they saw at their fork.  It    *)
(* does: a purged branch in the middle cuts the chain of its children.      *)
PurgeSparesOthers ==
  job = None => \A b \in Ids \ purged : \A i \in kept[b] \ View(b) :
    Marked(b, i) \/ \E a \in Ids : deleted[a][i] = forkTs[b]

(* A branch that has a parent has a name.  It may not: two threads that     *)
(* register one name give it two ids, and one of them is forked and lost.   *)
ForksAreRegistered == \A b \in Ids : parent[b] # None => b \in Range(reg)

(* Name and id of the active branch belong together when nobody is          *)
(* switching.  They may not: a request and the git poller switch at once.   *)
ActiveAgrees ==
  (\A t \in Actors : at[t].pc # "setId") => reg[active.name] = active.id

(* The root branch inherits from nobody.  It may: creating a branch that    *)
(* exists makes it a fork of the parent that was named.                     *)
RootHasNoParent == parent[MainId] = None

(* A forked branch keeps the bindings it was given.  It does not: the first *)
(* sync of its index drops every binding without a row of its own.          *)
ForkKeepsBindings ==
  [][job # None /\ job' = None => \A i \in ri[job.branch] : i \in ri'[job.branch] \/ i \in job.seen]_vars
=============================================================================
