--------------------------- MODULE Branches_proofs ---------------------------
(* What a branch sees, for any number of branches, symbols, threads and any *)
(* depth of ancestry: deletions stay, forks keep what they saw, and nobody  *)
(* but a branch's own line changes its view.                                *)
EXTENDS Branches, SequenceTheorems, WellFoundedInduction, TLAPS

---------------------------------------------------------------------------
(* Chains                                                                   *)

LEMMA LeastNatural ==
  ASSUME NEW T, T \subseteq Nat, T # {}
  PROVE  \E n \in T : \A m \in T : n <= m
  <1> DEFINE R == {ss \in Nat \X Nat : ss[1] < ss[2]}
  <1>1. IsWellFoundedOn(R, Nat)
    BY NatLessThanWellFounded DEF OpToRel
  <1> HIDE DEF R
  <1>2. PICK x \in T : \A y \in T : ~(<<y, x>> \in R)
    BY <1>1, WFMin
  <1>3. ASSUME NEW y \in T PROVE x <= y
    <2>1. x \in Nat /\ y \in Nat /\ <<y, x>> \in Nat \X Nat
      OBVIOUS
    <2>2. ~(y < x)
      BY <1>2, <2>1 DEF R
    <2> QED BY <2>1, <2>2
  <1> QED BY <1>3

(* A line of ancestors without a repetition, each the parent of the one     *)
(* before, that ends only where it must.                                    *)
Line(c, b, up) ==
  /\ c \in Seq(Ids) /\ Len(c) >= 1 /\ Len(c) <= AncestryDepth + 1 /\ c[1] = b
  /\ \A k \in 2..Len(c) : c[k] = up[c[k - 1]]
  /\ \A j, k \in 1..Len(c) : c[j] = c[k] => j = k
Ended(c, up) == up[Last(c)] = None \/ up[Last(c)] \in Range(c)
IsChain(c, b, up) == Line(c, b, up) /\ (Len(c) = AncestryDepth + 1 \/ Ended(c, up))

(* The recursion of Chain: the chains of n steps at most.                   *)
Longer(c) == {IF p = None \/ p \in Range(c) THEN c ELSE Append(c, p) : p \in {parent[Last(c)]}}
StepOf(b, f, n) == IF n = 0 THEN {<<b>>} ELSE UNION {Longer(c) : c \in f[n - 1]}

LEMMA StepsExist ==
  ASSUME NEW b, NEW N \in Nat
  PROVE  \E f : f = [n \in 0..N |-> StepOf(b, f, n)]
  <1> DEFINE Bad == {n \in Nat : ~\E f : f = [m \in 0..n |-> StepOf(b, f, m)]}
  <1>1. SUFFICES ASSUME Bad # {} PROVE FALSE
    OBVIOUS
  <1>2. PICK n \in Bad : \A m \in Bad : n <= m
    BY <1>1, LeastNatural
  <1>3. n # 0
    <2> DEFINE f0 == [m \in 0..0 |-> {<<b>>}]
    <2>1. f0 = [m \in 0..0 |-> StepOf(b, f0, m)]
      BY DEF StepOf
    <2>2. 0 \notin Bad
      BY <2>1
    <2> QED BY <1>2, <2>2
  <1>4. n - 1 \in Nat /\ n - 1 \notin Bad
    BY <1>2, <1>3
  <1>5. PICK g : g = [m \in 0..(n - 1) |-> StepOf(b, g, m)]
    BY <1>4
  <1> DEFINE f == [m \in 0..n |-> StepOf(b, g, m)]
  <1>6. \A m \in 0..(n - 1) : f[m] = g[m]
    BY <1>2, <1>5
  <1>7. ASSUME NEW m \in 0..n PROVE StepOf(b, f, m) = StepOf(b, g, m)
    <2>1. m # 0 => m - 1 \in 0..(n - 1)
      BY <1>2
    <2> QED BY <1>6, <2>1 DEF StepOf
  <1>8. f = [m \in 0..n |-> StepOf(b, f, m)]
    BY <1>7
  <1> QED BY <1>2, <1>8

LEMMA LonerLine ==
  ASSUME NEW b \in Ids, NEW up
  PROVE  Line(<<b>>, b, up) /\ Len(<<b>>) = 1
  BY BranchesAssumption DEF Line

(* One ancestor more.                                                       *)
LEMMA LongerLine ==
  ASSUME NEW b \in Ids, parent \in [Ids -> Ids \cup {None}], NEW c, Line(c, b, parent)
  PROVE  \E d : /\ Longer(c) = {d} /\ Line(c, b, parent)
                /\ Ended(c, parent) => d = c
                /\ ~Ended(c, parent) => /\ Len(d) = Len(c) + 1
                                        /\ Len(c) <= AncestryDepth => Line(d, b, parent)
  <1> DEFINE p == parent[Last(c)]
  <1>1. c \in Seq(Ids) /\ Len(c) \in Nat /\ Len(c) >= 1 /\ Last(c) = c[Len(c)] /\ Last(c) \in Ids
        /\ AncestryDepth \in Nat
    BY BranchesAssumption DEF Line, Last
  <1>2. Longer(c) = {IF p = None \/ p \in Range(c) THEN c ELSE Append(c, p)}
    BY DEF Longer
  <1>3. CASE Ended(c, parent)
    BY <1>2, <1>3 DEF Ended
  <1>4. CASE ~Ended(c, parent)
    <2>1. p \in Ids /\ p \notin Range(c) /\ p # None
      BY <1>1, <1>4 DEF Ended
    <2> DEFINE d == Append(c, p)
    <2>2. Longer(c) = {d}
      BY <1>2, <2>1
    <2>3. /\ d \in Seq(Ids) /\ Len(d) = Len(c) + 1 /\ d[Len(c) + 1] = p
          /\ \A k \in 1..Len(c) : d[k] = c[k]
      BY <1>1, <2>1
    <2>4. \A k \in 1..Len(c) : c[k] # p
      BY <1>1, <2>1 DEF Range
    <2> HIDE DEF d
    <2>5. d[1] = b
      BY <1>1, <2>3 DEF Line
    <2>6. \A k \in 2..Len(d) : d[k] = parent[d[k - 1]]
      <3> SUFFICES ASSUME NEW k \in 2..Len(d) PROVE d[k] = parent[d[k - 1]]
        OBVIOUS
      <3>1. k - 1 \in 1..Len(c) /\ d[k - 1] = c[k - 1]
        BY <1>1, <2>3
      <3>2. CASE k = Len(c) + 1
        BY <1>1, <2>3, <3>1, <3>2
      <3>3. CASE k # Len(c) + 1
        <4>1. k \in 2..Len(c)
          BY <1>1, <2>3, <3>3
        <4> QED BY <2>3, <3>1, <4>1 DEF Line
      <3> QED BY <3>2, <3>3
    <2>7. \A j, k \in 1..Len(d) : d[j] = d[k] => j = k
      <3> SUFFICES ASSUME NEW j \in 1..Len(d), NEW k \in 1..Len(d), d[j] = d[k] PROVE j = k
        OBVIOUS
      <3>1. \A l \in 1..Len(d) : l \in 1..Len(c) \/ l = Len(c) + 1
        BY <1>1, <2>3
      <3> QED BY <2>3, <2>4, <3>1 DEF Line
    <2> QED BY <1>1, <1>4, <2>2, <2>3, <2>5, <2>6, <2>7 DEF Line
  <1> QED BY <1>3, <1>4

ParentTyped == parent \in [Ids -> Ids \cup {None}]
AllChains == \A b \in Ids : IsChain(Chain(b), b, parent)

LEMMA ChainIsChain == ParentTyped => AllChains
  <1> SUFFICES ASSUME parent \in [Ids -> Ids \cup {None}], NEW b \in Ids
               PROVE  IsChain(Chain(b), b, parent)
    BY DEF ParentTyped, AllChains
  <1> DEFINE up == CHOOSE f : f = [n \in 0..AncestryDepth |-> StepOf(b, f, n)]
  <1>1. AncestryDepth \in Nat
    BY BranchesAssumption
  <1>2. up = [n \in 0..AncestryDepth |-> StepOf(b, up, n)]
    BY <1>1, StepsExist
  <1>3. Chain(b) = CHOOSE c \in up[AncestryDepth] : TRUE
    BY DEF Chain, StepOf, Longer
  <1> HIDE DEF up
  <1> DEFINE Good(n) == \E c : /\ up[n] = {c} /\ Line(c, b, parent) /\ Len(c) <= n + 1
                               /\ Len(c) = n + 1 \/ Ended(c, parent)
  <1>4. \A n \in 0..AncestryDepth : Good(n)
    <2> DEFINE Bad == {n \in 0..AncestryDepth : ~Good(n)}
    <2>1. SUFFICES ASSUME Bad # {} PROVE FALSE
      OBVIOUS
    <2>2. PICK n \in Bad : \A m \in Bad : n <= m
      <3>1. Bad \subseteq Nat
        BY <1>1
      <3> HIDE DEF Bad
      <3> QED BY <2>1, <3>1, LeastNatural
    <2>3. CASE n = 0
      <3>1. up[0] = {<<b>>}
        BY <1>1, <1>2 DEF StepOf
      <3>2. Good(0)
        <4>1. Line(<<b>>, b, parent) /\ Len(<<b>>) = 0 + 1
          BY LonerLine
        <4>2. Len(<<b>>) <= 0 + 1
          BY <4>1
        <4> QED BY <3>1, <4>1, <4>2
      <3> QED BY <2>2, <2>3, <3>2
    <2>4. CASE n # 0
      <3>1. n \in Nat /\ n - 1 \in 0..AncestryDepth /\ n <= AncestryDepth /\ ~(n <= n - 1)
        BY <1>1, <2>2, <2>4
      <3>2. Good(n - 1)
        BY <2>2, <3>1
      <3>3. PICK c : /\ up[n - 1] = {c} /\ Line(c, b, parent) /\ Len(c) <= n - 1 + 1
                     /\ Len(c) = n - 1 + 1 \/ Ended(c, parent)
        BY <3>2
      <3>4. up[n] = Longer(c)
        <4>1. up[n] = UNION {Longer(e) : e \in up[n - 1]}
          BY <1>2, <2>2, <2>4 DEF StepOf
        <4>2. up[n - 1] = {c}
          BY <3>3
        <4> QED BY <4>1, <4>2
      <3>5. Len(c) \in Nat /\ Len(c) <= n
        BY <3>1, <3>3 DEF Line
      <3>6. PICK d : /\ Longer(c) = {d}
                     /\ Ended(c, parent) => d = c
                     /\ ~Ended(c, parent) => /\ Len(d) = Len(c) + 1
                                             /\ Len(c) <= AncestryDepth => Line(d, b, parent)
        BY <3>3, LongerLine
      <3>7. Good(n)
        BY <3>1, <3>3, <3>4, <3>5, <3>6
      <3> QED BY <2>2, <3>7
    <2> QED BY <2>3, <2>4
  <1>5. PICK c : /\ up[AncestryDepth] = {c} /\ Line(c, b, parent) /\ Len(c) <= AncestryDepth + 1
                 /\ Len(c) = AncestryDepth + 1 \/ Ended(c, parent)
    BY <1>1, <1>4
  <1>6. Chain(b) = c
    BY <1>3, <1>5
  <1> QED BY <1>5, <1>6 DEF IsChain

(* Two chains of a branch agree up to the first branch whose parent is not  *)
(* the same in both.                                                        *)
SameBut(p, q, x) == \A y \in Ids : y # x => q[y] = p[y]
Avoids(c, k, x) == \A j \in 1..(k - 1) : c[j] # x

LEMMA ChainsAgree ==
  ASSUME NEW b \in Ids, NEW x,
         NEW p \in [Ids -> Ids \cup {None}], NEW q \in [Ids -> Ids \cup {None}], SameBut(p, q, x),
         NEW c, NEW d, IsChain(c, b, p), IsChain(d, b, q),
         NEW k \in 1..Len(c), Avoids(c, k, x)
  PROVE  k \in 1..Len(d) /\ d[k] = c[k]
  <1> DEFINE Bad == {n \in 1..k : ~(n \in 1..Len(d) /\ d[n] = c[n])}
  <1>1. SUFFICES ASSUME Bad # {} PROVE FALSE
    BY DEF IsChain, Line
  <1>2. /\ c \in Seq(Ids) /\ d \in Seq(Ids) /\ Len(c) \in Nat /\ Len(d) \in Nat
        /\ Len(c) >= 1 /\ Len(d) >= 1 /\ c[1] = b /\ d[1] = b
        /\ AncestryDepth \in Nat /\ Len(c) <= AncestryDepth + 1
    BY BranchesAssumption DEF IsChain, Line
  <1>3. PICK n \in Bad : \A m \in Bad : n <= m
    <2>1. Bad \subseteq Nat
      BY <1>2
    <2> HIDE DEF Bad
    <2> QED BY <1>1, <2>1, LeastNatural
  <1>4. n \in 2..k
    BY <1>2, <1>3
  <1>5. n - 1 \in 1..Len(d) /\ \A m \in 1..(n - 1) : m \in 1..Len(d) /\ d[m] = c[m]
    BY <1>2, <1>3, <1>4
  <1>6. c[n - 1] \in Ids /\ c[n - 1] # x /\ c[n] \in Ids /\ c[n] = p[c[n - 1]]
    BY <1>2, <1>4 DEF IsChain, Line, Avoids
  <1>7. c[n] = q[d[n - 1]] /\ c[n] # None
    BY <1>5, <1>6, BranchesAssumption DEF SameBut
  <1>8. CASE Len(d) >= n
    <2>1. n \in 2..Len(d)
      BY <1>2, <1>4, <1>8
    <2>2. d[n] = q[d[n - 1]]
      BY <2>1 DEF IsChain, Line
    <2> QED BY <1>3, <1>7, <2>1, <2>2
  <1>9. CASE ~(Len(d) >= n)
    <2>1. Len(d) = n - 1 /\ Len(d) # AncestryDepth + 1
      BY <1>2, <1>4, <1>5, <1>9
    <2>2. c[n] \in Range(d)
      BY <1>7, <2>1 DEF IsChain, Ended, Last
    <2>a. d \in Seq(Ids)
      BY <1>2
    <2>b. DOMAIN d = 1..Len(d)
      BY <2>a
    <2>3. PICK m \in 1..Len(d) : d[m] = c[n]
      BY <2>2, <2>b, Zenon DEF Range
    <2>4. c[m] = c[n] /\ m \in 1..Len(c) /\ n \in 1..Len(c) /\ m # n
      BY <1>2, <1>4, <1>5, <2>1, <2>3
    <2> QED BY <2>4 DEF IsChain, Line
  <1> QED BY <1>8, <1>9

---------------------------------------------------------------------------
(* The inductive invariant                                                  *)

(* What a thread knows of the branch it works on.                           *)
WorkOk(w) ==
  /\ w.pc \in {"getId", "register", "copy", "stamp", "setName", "setId"} => w.name \in Names
  /\ w.pc = "register" => w.name # Main
  /\ w.pc \in {"getId", "register"} /\ w.fork => w.from \in Ids
  /\ w.pc = "copy" => w.from \in Ids
  /\ w.pc \in {"copy", "stamp", "setName", "setId", "clear", "dropParent", "dropStamp", "finalize"} => w.id \in Ids
  /\ w.pc \in {"clear", "dropParent", "dropStamp", "finalize"} => w.id \in purged

NamesTyped ==
  /\ reg \in [Names -> Ids \cup {None}] /\ reg[Main] # None /\ seq \in 0..MaxSeq
  /\ \A n \in Names : reg[n] # None => reg[n][1] = n /\ reg[n][2] <= seq
  /\ active \in [name : Names, id : Ids]
WorkTyped ==
  /\ at \in [Actors -> Thread] /\ \A t \in Actors : WorkOk(at[t])
  /\ purged \in SUBSET Ids /\ requests \in [Actors -> Nat]
LineTyped == parent \in [Ids -> Ids \cup {None}] /\ forkTs \in [Ids -> Clock \cup {None}] /\ clock \in Clock
RowsTyped ==
  /\ deleted \in Times /\ ri \in [Ids -> SUBSET Idents]
  /\ row \in [Ids -> [Idents -> RowRecord \cup {None}]]
  /\ job \in Job \cup {None} /\ ingests \in 0..MaxIngests
  /\ kept \in [Ids -> SUBSET Idents] /\ gone \in [Ids -> SUBSET Idents]
  /\ job # None => /\ \A i \in job.left : Live(job.branch, i)
                   /\ job.marked # None => job.marked \notin job.left /\ Live(job.branch, job.marked)
Typed == NamesTyped /\ WorkTyped /\ LineTyped /\ RowsTyped

(* What was taken away has a marker, and so has every tombstone: also when  *)
(* the tombstone is collected, the marker stays.  A purge takes markers     *)
(* away, but only those of the branch that is purged.                       *)
GoneIsMarked == \A b \in Ids \ purged : \A i \in gone[b] : Marked(b, i)
TombIsMarked == \A b \in Ids \ purged, i \in Idents : Tomb(b, i) => Marked(b, i)

(* An ingest has marked what it is burying, and what it saw in the file and *)
(* did not find is marked, is still to be, or is seen on another branch and *)
(* will be planted.                                                         *)
JobMarks ==
  job # None /\ job.branch \notin purged =>
    /\ job.marked # None => Marked(job.branch, job.marked)
    /\ \A i \in job.seen \ job.found :
         \/ Marked(job.branch, i) \/ i \in job.left
         \/ \E c \in Ids \ {job.branch} : Live(c, i) /\ row[c][i].file = job.file

(* A branch whose view was kept has a fork time, not later than now.        *)
ForkIsStamped ==
  /\ \A b \in Ids : forkTs[b] # None => forkTs[b] <= clock
  /\ \A b \in Ids \ purged : kept[b] # {} => forkTs[b] # None

(* No deletion up to a live row of the line is older than the fork.         *)
Spared(b, x, i) == Marked(x, i) => deleted[x][i] >= forkTs[b]
Reaches(b, i) ==
  \E k \in 1..Len(Chain(b)) : Live(Chain(b)[k], i) /\ \A j \in 1..k : Spared(b, Chain(b)[j], i)
KeptIsReached ==
  \A b \in Ids : Unpurged(b) => \A i \in kept[b] : Marked(b, i) \/ Reaches(b, i)

BranchInv ==
  Typed /\ GoneIsMarked /\ TombIsMarked /\ JobMarks /\ ForkIsStamped /\ KeptIsReached

---------------------------------------------------------------------------
(* Types                                                                    *)

LEMMA MainIsAnId == MainId \in Ids /\ 0 \in Clock /\ MaxTime \in Nat /\ MaxSeq \in Nat /\ AncestryDepth \in Nat
  BY BranchesAssumption DEF MainId, Ids, Clock

LEMMA WorkMoves ==
  ASSUME WorkTyped, NEW t \in Actors, NEW w \in Thread, at' = [at EXCEPT ![t] = w],
         purged \subseteq purged', purged' \in SUBSET Ids, WorkOk(w)', requests' \in [Actors -> Nat]
  PROVE  WorkTyped'
  <1>1. at' \in [Actors -> Thread]
    BY DEF WorkTyped
  <1>2. ASSUME NEW u \in Actors PROVE WorkOk(at[u])'
    <2>1. CASE u = t
      <3>1. at'[u] = w
        BY <2>1 DEF WorkTyped
      <3> QED BY <3>1 DEF WorkOk
    <2>2. CASE u # t
      <3>1. at'[u] = at[u] /\ WorkOk(at[u])
        BY <2>2 DEF WorkTyped
      <3> QED BY <3>1 DEF WorkOk
    <2> QED BY <2>1, <2>2
  <1> QED BY <1>1, <1>2 DEF WorkTyped

SameWork(v, w) ==
  /\ v.name = w.name /\ v.id = w.id /\ v.from = w.from /\ v.fork = w.fork /\ v.switch = w.switch

LEMMA GotoMoves ==
  ASSUME WorkTyped, NEW t \in Actors,
         NEW pc \in {"register", "stamp", "setName", "setId", "dropParent", "dropStamp", "finalize"}, Goto(t, pc)
  PROVE  \E w \in Thread : at' = [at EXCEPT ![t] = w] /\ w.pc = pc /\ SameWork(w, at[t])
  <1>1. at[t] \in Thread
    BY DEF WorkTyped
  <1>2. PICK w : w = [at[t] EXCEPT !.pc = pc]
    OBVIOUS
  <1>3. w \in Thread /\ w.pc = pc /\ SameWork(w, at[t])
    BY <1>1, <1>2 DEF Thread, SameWork
  <1> QED BY <1>2, <1>3 DEF Goto

LEMMA IdleWork == Idle \in Thread /\ WorkOk(Idle)
  BY DEF Idle, Thread, WorkOk

(* Requests.                                                                *)
LEMMA BeginMoves ==
  ASSUME WorkTyped, NEW t \in Actors, NEW w \in Thread, Begin(t, w), purged \subseteq purged',
         purged' \in SUBSET Ids, WorkOk(w)'
  PROVE  WorkTyped'
  <1>1. requests' \in [Actors -> Nat] /\ at' = [at EXCEPT ![t] = w]
    BY DEF Begin, WorkTyped
  <1> QED BY <1>1, WorkMoves

LEMMA RequestTyped ==
  ASSUME Typed
  PROVE  /\ \A n \in Names : SyncWithGit(n) => WorkTyped'
         /\ \A t \in Threads : Request(t) => WorkTyped'
  <1>1. WorkTyped /\ active.id \in Ids /\ Git \in Actors
    BY DEF Typed, NamesTyped, Actors
  <1>2. ASSUME NEW n \in Names, SyncWithGit(n) PROVE WorkTyped'
    <2>1. PICK w : w = [pc |-> "getId", name |-> n, id |-> None, from |-> active.id,
                        fork |-> reg[n] = None /\ active.name # n, switch |-> active.name # n]
      OBVIOUS
    <2>2. w \in Thread /\ w.pc = "getId" /\ w.name = n /\ w.from = active.id
      BY <1>1, <2>1 DEF Thread
    <2>3. WorkOk(w)'
      BY <1>1, <2>2 DEF WorkOk
    <2>4. Begin(Git, w) /\ purged' = purged
      BY <1>2, <2>1 DEF SyncWithGit, history
    <2> QED BY <1>1, <2>2, <2>3, <2>4, BeginMoves DEF WorkTyped
  <1>3. ASSUME NEW t \in Threads, NEW n \in Names, NEW p \in Names, CreateBranch(t, n, p) PROVE WorkTyped'
    <2>1. PICK w : w = [Idle EXCEPT !.pc = "getId", !.name = n, !.from = reg[p], !.fork = TRUE]
      OBVIOUS
    <2>2. reg[p] \in Ids
      BY <1>3 DEF CreateBranch, Typed, NamesTyped
    <2>3. w \in Thread /\ w.pc = "getId" /\ w.name = n /\ w.from = reg[p]
      BY <2>1, <2>2 DEF Thread, Idle
    <2>4. WorkOk(w)'
      BY <2>2, <2>3 DEF WorkOk
    <2>5. Begin(t, w) /\ purged' = purged /\ t \in Actors
      BY <1>3, <2>1 DEF CreateBranch, history, Actors
    <2> QED BY <1>1, <2>3, <2>4, <2>5, BeginMoves DEF WorkTyped
  <1>4. ASSUME NEW t \in Threads, NEW n \in Names, SwitchBranch(t, n) PROVE WorkTyped'
    <2>1. PICK w : w = [Idle EXCEPT !.pc = "setName", !.name = n, !.id = reg[n], !.switch = TRUE]
      OBVIOUS
    <2>2. reg[n] \in Ids
      BY <1>4 DEF SwitchBranch, Typed, NamesTyped
    <2>3. w \in Thread /\ w.pc = "setName" /\ w.name = n /\ w.id = reg[n]
      BY <2>1, <2>2 DEF Thread, Idle
    <2>4. WorkOk(w)'
      BY <2>2, <2>3 DEF WorkOk
    <2>5. Begin(t, w) /\ purged' = purged /\ t \in Actors
      BY <1>4, <2>1 DEF SwitchBranch, history, Actors
    <2> QED BY <1>1, <2>3, <2>4, <2>5, BeginMoves DEF WorkTyped
  <1>5. ASSUME NEW t \in Threads, NEW b \in Range(reg) \ {None}, PurgeBranch(t, b) PROVE WorkTyped'
    <2>1. PICK w : w = [Idle EXCEPT !.pc = "clear", !.id = b, !.from = parent[b]]
      OBVIOUS
    <2>2. b \in Ids /\ parent[b] \in Ids \cup {None}
      BY DEF Typed, NamesTyped, LineTyped, Range
    <2>3. w \in Thread /\ w.pc = "clear" /\ w.id = b
      BY <2>1, <2>2 DEF Thread, Idle
    <2>4. Begin(t, w) /\ purged' = purged \cup {b} /\ t \in Actors
      BY <1>5, <2>1 DEF PurgeBranch, Actors
    <2>5. WorkOk(w)'
      BY <2>2, <2>3, <2>4 DEF WorkOk
    <2> QED BY <1>1, <2>2, <2>3, <2>4, <2>5, BeginMoves DEF WorkTyped
  <1> QED BY <1>2, <1>3, <1>4, <1>5 DEF Request

(* The steps of requests.                                                   *)
LEMMA WithIdMoves ==
  ASSUME WorkTyped, NEW t \in Actors, NEW id \in Ids, at[t].pc \in {"getId", "register"}, WithId(t, id),
         UNCHANGED <<purged, requests>>
  PROVE  WorkTyped'
  <1>1. at[t] \in Thread /\ WorkOk(at[t])
    BY DEF WorkTyped
  <1>2. PICK pc \in {"copy", "setName", "idle"} :
          /\ at' = [at EXCEPT ![t] = IF pc = "idle" THEN Idle ELSE [at[t] EXCEPT !.id = id, !.pc = pc]]
          /\ pc = "copy" => at[t].fork
    <2>1. CASE at[t].fork /\ id # at[t].from
      BY <2>1 DEF WithId
    <2>2. CASE ~at[t].fork /\ at[t].switch
      BY <2>2 DEF WithId
    <2>3. CASE ~(at[t].fork /\ id # at[t].from) /\ ~(~at[t].fork /\ at[t].switch)
      BY <2>3 DEF WithId
    <2> QED BY <2>1, <2>2, <2>3
  <1>3. CASE pc = "idle"
    BY <1>2, <1>3, IdleWork, WorkMoves DEF WorkTyped, WorkOk, Idle
  <1>4. CASE pc # "idle"
    <2>1. PICK w : w = [at[t] EXCEPT !.id = id, !.pc = pc]
      OBVIOUS
    <2>2. w \in Thread /\ w.pc = pc /\ w.id = id /\ w.name = at[t].name /\ w.from = at[t].from
      BY <1>1, <1>2, <1>4, <2>1 DEF Thread
    <2>3. WorkOk(w)'
      BY <1>1, <1>2, <1>4, <2>2 DEF WorkOk
    <2> QED BY <1>2, <1>4, <2>1, <2>2, <2>3, WorkMoves DEF WorkTyped
  <1> QED BY <1>3, <1>4

LEMMA ContinueTyped ==
  ASSUME Typed, NEW t \in Actors, Continue(t)
  PROVE  WorkTyped'
  <1>1. WorkTyped /\ at[t] \in Thread /\ WorkOk(at[t]) /\ UNCHANGED <<purged, requests>>
    BY DEF Typed, WorkTyped, Continue, GetId, Register, SetParent, StampFork, SetName, SetId, ClearKeys,
           DropParent, DropStamp, Finalize, BurySoftDeleted, Scan, history
  <1>2. ASSUME EndRequest(t) PROVE WorkTyped'
    BY <1>1, <1>2, IdleWork, WorkMoves DEF EndRequest, WorkTyped, WorkOk, Idle
  <1>3. ASSUME NEW pc \in {"register", "stamp", "setName", "setId", "dropParent", "dropStamp", "finalize"},
               Goto(t, pc), \A w \in Thread : w.pc = pc /\ SameWork(w, at[t]) => WorkOk(w)
        PROVE  WorkTyped'
    <2>1. PICK w \in Thread : at' = [at EXCEPT ![t] = w] /\ w.pc = pc /\ SameWork(w, at[t])
      BY <1>1, <1>3, GotoMoves
    <2>2. WorkOk(w)'
      BY <1>1, <1>3, <2>1 DEF WorkOk
    <2> QED BY <1>1, <2>1, <2>2, WorkMoves DEF WorkTyped
  <1>4. CASE GetId(t)
    <2>1. CASE reg[at[t].name] # None
      <3>1. reg[at[t].name] \in Ids
        BY <1>1, <1>4, <2>1 DEF GetId, WorkOk, Typed, NamesTyped
      <3> QED BY <1>1, <1>4, <2>1, <3>1, WithIdMoves DEF GetId
    <2>2. CASE reg[at[t].name] = None
      <3>1. Goto(t, "register") /\ at[t].pc = "getId" /\ at[t].name # Main
        BY <1>4, <2>2 DEF GetId, Typed, NamesTyped
      <3> QED BY <1>1, <1>3, <3>1 DEF WorkOk, SameWork
    <2> QED BY <2>1, <2>2
  <1>5. CASE Register(t)
    <2>1. <<at[t].name, seq + 1>> \in Ids
      BY <1>1, <1>5, MainIsAnId DEF Register, WorkOk, Typed, NamesTyped, Ids
    <2> QED BY <1>1, <1>5, <2>1, WithIdMoves DEF Register
  <1>6. CASE SetParent(t)
    BY <1>1, <1>3, <1>6 DEF SetParent, WorkOk, SameWork
  <1>7. CASE StampFork(t)
    <2>1. at[t].pc = "stamp" /\ (Goto(t, "setName") \/ EndRequest(t))
      BY <1>7 DEF StampFork
    <2>2. CASE EndRequest(t)
      BY <1>2, <2>2
    <2>3. CASE Goto(t, "setName")
      BY <1>1, <1>3, <2>1, <2>3 DEF WorkOk, SameWork
    <2> QED BY <2>1, <2>2, <2>3
  <1>8. CASE SetName(t)
    BY <1>1, <1>3, <1>8 DEF SetName, WorkOk, SameWork
  <1>9. CASE ClearKeys(t)
    BY <1>1, <1>3, <1>9 DEF ClearKeys, WorkOk, SameWork
  <1>10. CASE DropParent(t)
    BY <1>1, <1>3, <1>10 DEF DropParent, WorkOk, SameWork
  <1>11. CASE DropStamp(t)
    <2>1. at[t].pc = "dropStamp" /\ (Goto(t, "finalize") \/ EndRequest(t))
      BY <1>11 DEF DropStamp
    <2>2. CASE Goto(t, "finalize")
      BY <1>1, <1>3, <2>1, <2>2 DEF WorkOk, SameWork
    <2> QED BY <1>2, <2>1, <2>2
  <1>12. CASE SetId(t) \/ Finalize(t)
    BY <1>2, <1>12 DEF SetId, Finalize, BurySoftDeleted, Scan
  <1> QED BY <1>4, <1>5, <1>6, <1>7, <1>8, <1>9, <1>10, <1>11, <1>12 DEF Continue

LEMMA NamesStep ==
  ASSUME Typed, [Next]_vars
  PROVE  NamesTyped'
  <1>1. CASE UNCHANGED <<reg, seq, active>>
    BY <1>1 DEF Typed, NamesTyped
  <1>2. ASSUME NEW t \in Actors, Register(t) PROVE NamesTyped'
    <2> DEFINE n == at[t].name
    <2>1. n \in Names /\ n # Main /\ seq < MaxSeq /\ seq' = seq + 1 /\ active' = active
      BY <1>2 DEF Register, Typed, WorkTyped, WorkOk
    <2>2. seq \in Nat /\ seq' \in 0..MaxSeq /\ <<n, seq'>> \in Ids
      BY <2>1, MainIsAnId DEF Typed, NamesTyped, Ids
    <2>3. reg' = [reg EXCEPT ![n] = <<n, seq'>>]
      BY <1>2 DEF Register
    <2>4. reg' \in [Names -> Ids \cup {None}] /\ reg'[Main] # None
      BY <2>1, <2>2, <2>3, BranchesAssumption DEF Typed, NamesTyped
    <2>5. ASSUME NEW m \in Names, reg'[m] # None PROVE reg'[m][1] = m /\ reg'[m][2] <= seq'
      <3>1. CASE m = n
        BY <2>2, <2>3, <3>1 DEF Typed, NamesTyped
      <3>2. CASE m # n
        <4>1. reg'[m] = reg[m] /\ reg[m] # None /\ reg[m] \in Ids
          BY <2>3, <2>5, <3>2 DEF Typed, NamesTyped
        <4>2. reg[m][2] \in Nat /\ reg[m][1] = m /\ reg[m][2] <= seq
          BY <4>1 DEF Typed, NamesTyped, Ids
        <4> QED BY <2>1, <2>2, <4>1, <4>2
      <3> QED BY <3>1, <3>2
    <2> QED BY <2>1, <2>2, <2>4, <2>5 DEF NamesTyped, Typed
  <1>3. ASSUME NEW t \in Actors, SetName(t) \/ SetId(t) PROVE NamesTyped'
    <2>1. at[t].name \in Names /\ at[t].id \in Ids /\ UNCHANGED <<reg, seq>>
      BY <1>3 DEF SetName, SetId, Typed, WorkTyped, WorkOk
    <2>2. active' \in [name : Names, id : Ids]
      BY <1>3, <2>1 DEF SetName, SetId, Typed, NamesTyped
    <2> QED BY <2>1, <2>2 DEF Typed, NamesTyped
  <1>4. ASSUME NEW t \in Actors, Continue(t) PROVE NamesTyped'
    <2>1. CASE GetId(t) \/ SetParent(t) \/ StampFork(t) \/ ClearKeys(t) \/ DropParent(t) \/ DropStamp(t) \/ Finalize(t)
      <3>1. UNCHANGED <<reg, seq, active>>
        BY <2>1 DEF GetId, SetParent, StampFork, ClearKeys, DropParent, DropStamp, Finalize, BurySoftDeleted, Scan
      <3> QED BY <1>1, <3>1
    <2> QED BY <1>2, <1>3, <1>4, <2>1 DEF Continue
  <1>5. CASE Ingesting \/ Scan \/ (\E b \in Ids, i \in Idents : Collect(b, i)) \/ UNCHANGED vars
             \/ (\E n \in Names : SyncWithGit(n)) \/ (\E t \in Threads : Request(t))
    <2>1. UNCHANGED <<reg, seq, active>>
      BY <1>5 DEF Ingesting, StartIngest, MarkDeleted, Bury, FinishIngest, Collect, Scan, BurySoftDeleted, vars, SyncWithGit,
                  Request, CreateBranch, SwitchBranch, PurgeBranch
    <2> QED BY <1>1, <2>1
  <1> QED BY <1>4, <1>5 DEF Next

(* The branches a thread links, stamps and purges are branches.             *)
LEMMA LineStep ==
  ASSUME Typed, [Next]_vars
  PROVE  LineTyped'
  <1>0. LineTyped
    BY DEF Typed
  <1>1. CASE UNCHANGED <<parent, forkTs>> /\ clock' \in {clock, clock + 1} \cap Clock
    BY <1>0, <1>1 DEF LineTyped
  <1>2. ASSUME NEW t \in Actors, SetParent(t) PROVE LineTyped'
    <2>1. at[t].from \in Ids
      BY <1>2 DEF SetParent, Typed, WorkTyped, WorkOk
    <2> QED BY <1>0, <1>2, <2>1 DEF SetParent, LineTyped
  <1>3. ASSUME NEW t \in Actors, StampFork(t) PROVE LineTyped'
    BY <1>0, <1>3 DEF StampFork, LineTyped, Now
  <1>4. ASSUME NEW t \in Actors, DropParent(t) \/ DropStamp(t) PROVE LineTyped'
    BY <1>0, <1>4 DEF DropParent, DropStamp, LineTyped
  <1>5. ASSUME NEW i \in Idents, MarkDeleted(i) PROVE LineTyped'
    BY <1>1, <1>5 DEF MarkDeleted, Now
  <1>6. ASSUME NEW moved, FinishIngest(moved) PROVE LineTyped'
    <2>1. UNCHANGED <<parent, forkTs>> /\ (clock' = clock \/ clock' \in Now)
      BY <1>6 DEF FinishIngest
    <2> QED BY <1>0, <1>1, <2>1 DEF Now, LineTyped
  <1>7. CASE UNCHANGED <<parent, forkTs, clock>>
    BY <1>0, <1>7 DEF LineTyped
  <1>8. ASSUME NEW t \in Actors, Continue(t) PROVE LineTyped'
    <2>1. CASE GetId(t) \/ Register(t) \/ SetName(t) \/ SetId(t) \/ ClearKeys(t) \/ Finalize(t)
      <3>1. UNCHANGED <<parent, forkTs, clock>>
        BY <2>1 DEF GetId, Register, SetName, SetId, ClearKeys, Finalize, BurySoftDeleted, Scan, store
      <3> QED BY <1>7, <3>1
    <2> QED BY <1>2, <1>3, <1>4, <1>8, <2>1 DEF Continue
  <1>9. CASE (\E b \in Range(reg) \ {None}, f \in Files : \E found \in SUBSET {i \in Idents : Home[i] = f} : StartIngest(b, f, found))
             \/ Bury \/ Scan \/ (\E b \in Ids, i \in Idents : Collect(b, i)) \/ UNCHANGED vars
             \/ (\E n \in Names : SyncWithGit(n)) \/ (\E t \in Threads : Request(t))
    <2>1. UNCHANGED <<parent, forkTs, clock>>
      BY <1>9 DEF StartIngest, Bury, Collect, Scan, BurySoftDeleted, vars, SyncWithGit, Request, CreateBranch, SwitchBranch,
                  PurgeBranch, store
    <2> QED BY <1>7, <2>1
  <1> QED BY <1>5, <1>6, <1>8, <1>9 DEF Next, Ingesting

(* Rows and markers: the steps outside an ingest.                           *)
LEMMA RowsKept ==
  ASSUME RowsTyped, UNCHANGED <<deleted, ri, row, job, ingests, kept, gone>>
  PROVE  RowsTyped'
  BY DEF RowsTyped, Live

(* Burying soft-deleted rows, by a purge or by the collector.               *)
LEMMA BuriedRows ==
  ASSUME Typed, BurySoftDeleted
  PROVE  RowsTyped'
  <1>1. UNCHANGED <<deleted, ri, job, ingests, kept, gone>> /\ job = None /\ row' = Buried
      BY DEF BurySoftDeleted, store, history
  <1>2. ASSUME NEW b \in Ids, NEW i \in Idents
          PROVE  (IF Live(b, i) /\ Marked(b, i) /\ ~HasChildren(b)
                  THEN [row[b][i] EXCEPT !.live = FALSE] ELSE row[b][i]) \in RowRecord \cup {None}
    <2>1. row[b][i] \in RowRecord \cup {None}
        BY DEF Typed, RowsTyped
    <2>2. row[b][i] \in RowRecord => [row[b][i] EXCEPT !.live = FALSE] \in RowRecord
        BY DEF RowRecord
    <2> QED BY <2>1, <2>2 DEF Live
  <1>3. row' \in [Ids -> [Idents -> RowRecord \cup {None}]]
      BY <1>1, <1>2 DEF Buried
  <1> QED BY <1>1, <1>3 DEF Typed, RowsTyped

LEMMA ContinueRows ==
  ASSUME Typed, NEW t \in Actors, Continue(t)
  PROVE  RowsTyped'
  <1>0. RowsTyped /\ WorkTyped
    BY DEF Typed
  <1>1. CASE GetId(t) \/ Register(t) \/ SetName(t) \/ SetId(t) \/ DropParent(t) \/ DropStamp(t)
    <2>1. UNCHANGED <<deleted, ri, row, job, ingests, kept, gone>>
      BY <1>1 DEF GetId, Register, SetName, SetId, DropParent, DropStamp, store, history
    <2> QED BY <1>0, <2>1, RowsKept
  <1>2. CASE SetParent(t)
    <2>1. at[t].from \in Ids /\ UNCHANGED <<deleted, row, job, ingests, kept, gone>>
      BY <1>0, <1>2 DEF SetParent, WorkTyped, WorkOk, history
    <2>2. ri' \in [Ids -> SUBSET Idents]
      BY <1>0, <1>2, <2>1 DEF SetParent, RowsTyped
    <2> QED BY <1>0, <2>1, <2>2 DEF RowsTyped, Live
  <1>3. CASE StampFork(t)
    <2>1. UNCHANGED <<deleted, ri, row, job, ingests, gone>>
      BY <1>3 DEF StampFork
    <2>2. kept' \in [Ids -> SUBSET Idents]
      <3>1. \A b : View(b)' \subseteq Idents
        BY DEF View
      <3>2. kept' = kept \/ \E b : kept' = [kept EXCEPT ![b] = View(b)']
        BY <1>3 DEF StampFork
      <3> QED BY <1>0, <3>1, <3>2 DEF RowsTyped
    <2> QED BY <1>0, <2>1, <2>2 DEF RowsTyped, Live
  <1>4. CASE ClearKeys(t)
    <2>1. UNCHANGED <<row, job, ingests, kept, gone>>
      BY <1>4 DEF ClearKeys, history
    <2>2. [i \in Idents |-> None] \in [Idents -> Clock \cup {None}]
      OBVIOUS
    <2>3. deleted' \in Times /\ ri' \in [Ids -> SUBSET Idents]
      BY <1>0, <1>4, <2>2 DEF ClearKeys, RowsTyped, Times
    <2> QED BY <1>0, <2>1, <2>3 DEF RowsTyped, Live
  <1>5. CASE Finalize(t)
    BY <1>5, BuriedRows DEF Finalize
  <1> QED BY <1>1, <1>2, <1>3, <1>4, <1>5 DEF Continue

LEMMA CollectRows ==
  ASSUME Typed, NEW b \in Ids, NEW i \in Idents, Collect(b, i)
  PROVE  RowsTyped'
  <1>1. UNCHANGED <<deleted, ri, job, ingests, kept, gone>> /\ job = None /\ row' = [row EXCEPT ![b][i] = None]
    BY DEF Collect, store, history
  <1>2. row' \in [Ids -> [Idents -> RowRecord \cup {None}]]
    BY <1>1 DEF Typed, RowsTyped
  <1> QED BY <1>1, <1>2 DEF Typed, RowsTyped

(* Rows and markers: the steps of an ingest.                                *)
LEMMA StartRows ==
  ASSUME Typed, NEW b \in Ids, NEW f \in Files, NEW found \in SUBSET Idents, StartIngest(b, f, found)
  PROVE  RowsTyped'
  <1>1. UNCHANGED <<deleted, ri, row, kept, gone>> /\ ingests > 0 /\ ingests' = ingests - 1
    BY DEF StartIngest, store, history
  <1>2. ingests' \in 0..MaxIngests
    BY <1>1, BranchesAssumption DEF Typed, RowsTyped
  <1>3. PICK left : left = {i \in Idents : Live(b, i) /\ row[b][i].file = f} \ found
    OBVIOUS
  <1>4. job' = [branch |-> b, file |-> f, found |-> found, marked |-> None, left |-> left, seen |-> SeenIn(b, f)]
    BY <1>3 DEF StartIngest
  <1>5. left \in SUBSET Idents /\ SeenIn(b, f) \in SUBSET Idents /\ \A i \in left : Live(b, i)
    BY <1>3 DEF SeenIn
  <1>6. job' \in Job
    BY <1>4, <1>5 DEF Job
  <1>7. job'.left = left /\ job'.branch = b /\ job'.marked = None
    BY <1>4
  <1> QED BY <1>1, <1>2, <1>5, <1>6, <1>7 DEF Typed, RowsTyped, Live

LEMMA JobIsTyped ==
  ASSUME Typed, job # None
  PROVE  /\ job \in Job /\ job.branch \in Ids /\ job.file \in Files /\ job.found \subseteq Idents
         /\ job.left \subseteq Idents /\ job.seen \subseteq Idents /\ job.marked \in Idents \cup {None}
  BY DEF Typed, RowsTyped, Job

LEMMA MarkRows ==
  ASSUME Typed, NEW i \in Idents, MarkDeleted(i)
  PROVE  /\ RowsTyped'
         /\ \E now \in Now : /\ clock' = now
              /\ \A b \in Ids, j \in Idents : deleted'[b][j] = IF b = job.branch /\ j = i THEN now ELSE deleted[b][j]
         /\ job' \in Job /\ job'.branch = job.branch /\ job'.file = job.file /\ job'.found = job.found
         /\ job'.seen = job.seen /\ job'.marked = i /\ job'.left = job.left \ {i}
  <1>1. job # None /\ job \in Job /\ job.branch \in Ids /\ i \in job.left
    BY JobIsTyped DEF MarkDeleted
  <1>2. PICK now \in Now : clock' = now /\ deleted' = [deleted EXCEPT ![job.branch][i] = now]
    BY DEF MarkDeleted
  <1>3. job' = [job EXCEPT !.marked = i, !.left = job.left \ {i}]
        /\ UNCHANGED <<ri, row, ingests, kept, gone>>
    BY DEF MarkDeleted, history
  <1>4. /\ job' \in Job /\ job'.branch = job.branch /\ job'.file = job.file /\ job'.found = job.found
        /\ job'.seen = job.seen /\ job'.marked = i /\ job'.left = job.left \ {i}
    BY <1>1, <1>3 DEF Job
  <1>5. deleted \in [Ids -> [Idents -> Clock \cup {None}]] /\ now \in Clock
    BY <1>2 DEF Typed, RowsTyped, Times, Now
  <1>6. deleted' \in Times /\ \A b \in Ids, j \in Idents :
          deleted'[b][j] = IF b = job.branch /\ j = i THEN now ELSE deleted[b][j]
    BY <1>1, <1>2, <1>5 DEF Times
  <1>7. RowsTyped'
    BY <1>1, <1>3, <1>4, <1>6 DEF Typed, RowsTyped, Live
  <1> QED BY <1>2, <1>4, <1>6, <1>7

LEMMA BuryRows ==
  ASSUME Typed, Bury
  PROVE  /\ RowsTyped' /\ job.branch \in Ids /\ job.marked \in Idents
         /\ job' \in Job /\ job'.branch = job.branch /\ job'.file = job.file /\ job'.found = job.found
         /\ job'.seen = job.seen /\ job'.marked = None /\ job'.left = job.left
         /\ UNCHANGED <<deleted, clock, kept, gone>>
         /\ \A b \in Ids, j \in Idents :
              row'[b][j] = IF b = job.branch /\ j = job.marked /\ ~HasChildren(b)
                           THEN [file |-> row[b][j].file, live |-> FALSE] ELSE row[b][j]
  <1> DEFINE b == job.branch
             i == job.marked
  <1>1. job # None /\ job \in Job /\ b \in Ids /\ i \in Idents /\ Live(b, i) /\ i \notin job.left
    BY JobIsTyped DEF Bury, Typed, RowsTyped
  <1>2. job' = [job EXCEPT !.marked = None] /\ UNCHANGED <<deleted, ri, clock, ingests, kept, gone>>
    BY DEF Bury, store, history
  <1>3. /\ job' \in Job /\ job'.branch = b /\ job'.file = job.file /\ job'.found = job.found
        /\ job'.seen = job.seen /\ job'.marked = None /\ job'.left = job.left
    BY <1>1, <1>2 DEF Job
  <1>4. row[b][i] \in RowRecord /\ row \in [Ids -> [Idents -> RowRecord \cup {None}]]
    BY <1>1 DEF Live, Typed, RowsTyped
  <1>5. PICK dead : dead = [row[b][i] EXCEPT !.live = FALSE]
    OBVIOUS
  <1>6. dead \in RowRecord /\ dead = [file |-> row[b][i].file, live |-> FALSE]
    BY <1>4, <1>5 DEF RowRecord
  <1>7. row' = IF HasChildren(b) THEN row ELSE [row EXCEPT ![b] = [row[b] EXCEPT ![i] = dead]]
    BY <1>1, <1>4, <1>5 DEF Bury, BuryRow
  <1>8. /\ row' \in [Ids -> [Idents -> RowRecord \cup {None}]]
        /\ \A a \in Ids, j \in Idents :
              row'[a][j] = IF a = b /\ j = i /\ ~HasChildren(a) THEN dead ELSE row[a][j]
    BY <1>1, <1>4, <1>6, <1>7
  <1>9. \A j \in job.left : Live(b, j)'
    <2> SUFFICES ASSUME NEW j \in job.left PROVE row'[b][j] = row[b][j] /\ Live(b, j)
      BY <1>3 DEF Live
    <2> QED BY <1>1, <1>8, JobIsTyped DEF Typed, RowsTyped
  <1>10. RowsTyped'
    BY <1>2, <1>3, <1>8, <1>9 DEF Typed, RowsTyped, Live
  <1> QED BY <1>1, <1>2, <1>3, <1>6, <1>8, <1>10

FinishedRow(put, a, i) ==
  IF a # job.branch THEN row[a][i]
  ELSE IF i \in put THEN [file |-> job.file, live |-> TRUE]
  ELSE IF i \in Inherited /\ ~Live(a, i) THEN [file |-> job.file, live |-> FALSE]
  ELSE row[a][i]
FinishedMarker(put, now, a, i) ==
  IF a # job.branch THEN deleted[a][i]
  ELSE IF i \in put THEN None
  ELSE IF i \in Inherited THEN now
  ELSE deleted[a][i]

LEMMA FinishRows ==
  ASSUME Typed, NEW moved \in SUBSET Idents, FinishIngest(moved)
  PROVE  /\ RowsTyped' /\ UNCHANGED <<parent, forkTs, kept, purged>>
         /\ job # None /\ job.branch \in Ids /\ job.left = {} /\ job.marked = None /\ job' = None
         /\ \A a \in Ids, i \in Idents : row'[a][i] = FinishedRow(job.found \cup moved, a, i)
         /\ \E now \in Clock \cap {clock, clock + 1} : /\ clock' = now
              /\ \A a \in Ids, i \in Idents : deleted'[a][i] = FinishedMarker(job.found \cup moved, now, a, i)
         /\ \A a \in Ids : gone'[a] = IF a = job.branch THEN (gone[a] \cup job.seen) \ (job.found \cup moved)
                                      ELSE gone[a]
  <1> DEFINE b == job.branch
             put == job.found \cup moved
             new == [i \in Idents |-> IF i \in put THEN [file |-> job.file, live |-> TRUE] ELSE PlantedRows(b)[i]]
  <1>1. /\ job # None /\ job.left = {} /\ job.marked = None /\ job' = None
        /\ UNCHANGED <<parent, forkTs, ingests, kept, purged>>
        /\ row' = [row EXCEPT ![b] = new] /\ gone' = [gone EXCEPT ![b] = (gone[b] \cup job.seen) \ put]
        /\ ri' = [ri EXCEPT ![b] = {i \in Idents : new[i] # None /\ new[i].live}]
    BY DEF FinishIngest
  <1>2. /\ job \in Job /\ b \in Ids /\ job.file \in Files /\ job.seen \subseteq Idents
        /\ put \subseteq Idents
    BY <1>1, JobIsTyped
  <1>3. ASSUME NEW i \in Idents
        PROVE  /\ new[i] = FinishedRow(put, b, i) /\ new[i] \in RowRecord \cup {None}
    BY <1>2 DEF PlantedRows, FinishedRow, Typed, RowsTyped, RowRecord
  <1>4. new \in [Idents -> RowRecord \cup {None}]
    BY <1>3
  <1> HIDE DEF new
  <1>5. /\ row' \in [Ids -> [Idents -> RowRecord \cup {None}]]
        /\ \A a \in Ids, i \in Idents : row'[a][i] = FinishedRow(put, a, i)
    BY <1>1, <1>2, <1>3, <1>4 DEF Typed, RowsTyped, FinishedRow
  <1>6. PICK now : /\ now \in IF Inherited = {} THEN {clock} ELSE Now
                   /\ clock' = now
                   /\ deleted' = [deleted EXCEPT ![b] =
                        [i \in Idents |-> IF i \in put THEN None ELSE PlantedMarkers(b, now)[i]]]
    BY DEF FinishIngest
  <1>7. now \in Clock \cap {clock, clock + 1}
    BY <1>6 DEF Now, Typed, LineTyped
  <1> DEFINE marks == [i \in Idents |-> IF i \in put THEN None ELSE PlantedMarkers(b, now)[i]]
  <1>8. ASSUME NEW i \in Idents
        PROVE  marks[i] = FinishedMarker(put, now, b, i) /\ marks[i] \in Clock \cup {None}
    BY <1>2, <1>7 DEF PlantedMarkers, FinishedMarker, Typed, RowsTyped, Times
  <1>9. marks \in [Idents -> Clock \cup {None}]
    BY <1>8
  <1> HIDE DEF marks
  <1>10. /\ deleted' \in Times
         /\ \A a \in Ids, i \in Idents : deleted'[a][i] = FinishedMarker(put, now, a, i)
    <2>1. deleted' = [deleted EXCEPT ![b] = marks]
      BY <1>6 DEF marks
    <2> QED BY <1>2, <1>8, <1>9, <2>1 DEF Typed, RowsTyped, Times, FinishedMarker
  <1>11. \A a \in Ids : gone'[a] = IF a = b THEN (gone[a] \cup job.seen) \ put ELSE gone[a]
    BY <1>1, <1>2 DEF Typed, RowsTyped
  <1>12. ri' \in [Ids -> SUBSET Idents] /\ gone' \in [Ids -> SUBSET Idents]
    <2>1. {i \in Idents : new[i] # None /\ new[i].live} \in SUBSET Idents
      OBVIOUS
    <2>2. (gone[b] \cup job.seen) \ put \in SUBSET Idents
      BY <1>2 DEF Typed, RowsTyped
    <2> QED BY <1>1, <1>2, <2>1, <2>2 DEF Typed, RowsTyped
  <1>13. RowsTyped'
    BY <1>1, <1>5, <1>10, <1>12 DEF Typed, RowsTyped
  <1> QED BY <1>1, <1>2, <1>5, <1>6, <1>7, <1>10, <1>11, <1>13

LEMMA TypedStep ==
  ASSUME Typed, [Next]_vars
  PROVE  Typed'
  <1>1. NamesTyped' /\ LineTyped'
    BY NamesStep, LineStep
  <1>2. CASE UNCHANGED vars
    <2>1. WorkTyped'
      BY <1>2 DEF vars, history, Typed, WorkTyped, WorkOk
    <2>2. RowsTyped'
      BY <1>2, RowsKept DEF vars, store, history, Typed
    <2> QED BY <1>1, <2>1, <2>2 DEF Typed
  <1>3. CASE (\E n \in Names : SyncWithGit(n)) \/ (\E t \in Threads : Request(t))
    <2>1. WorkTyped'
      BY <1>3, RequestTyped
    <2>2. UNCHANGED <<deleted, ri, row, job, ingests, kept, gone>>
      BY <1>3 DEF SyncWithGit, Request, CreateBranch, SwitchBranch, PurgeBranch, store, history
    <2> QED BY <1>1, <2>1, <2>2, RowsKept DEF Typed
  <1>4. ASSUME NEW t \in Actors, Continue(t) PROVE Typed'
    BY <1>1, <1>4, ContinueTyped, ContinueRows DEF Typed
  <1>5. CASE Ingesting \/ Scan \/ (\E b \in Ids, i \in Idents : Collect(b, i))
    <2>1. UNCHANGED <<at, requests, purged>>
      BY <1>5 DEF Ingesting, StartIngest, MarkDeleted, Bury, FinishIngest, Collect, Scan, BurySoftDeleted, history
    <2>2. WorkTyped'
      BY <2>1 DEF Typed, WorkTyped, WorkOk
    <2>3. RowsTyped'
      <3>1. ASSUME NEW b \in Range(reg) \ {None}, NEW f \in Files,
                   NEW found \in SUBSET {i \in Idents : Home[i] = f}, StartIngest(b, f, found)
            PROVE  RowsTyped'
        <4>1. b \in Ids /\ found \in SUBSET Idents
          BY DEF Typed, NamesTyped, Range
        <4> QED BY <3>1, <4>1, StartRows
      <3> QED BY <1>5, <3>1, MarkRows, BuryRows, FinishRows, CollectRows, BuriedRows DEF Ingesting, Scan
    <2> QED BY <1>1, <2>2, <2>3 DEF Typed
  <1> QED BY <1>2, <1>3, <1>4, <1>5 DEF Next

LEMMA TypedInit == Init => Typed
  <1> SUFFICES ASSUME Init PROVE Typed
    OBVIOUS
  <1>1. NamesTyped
    <2>1. MainId \in Ids /\ MainId[1] = Main /\ MainId[2] = 0 /\ 0 \in 0..MaxSeq /\ Main \in Names /\ MainId # None
      BY MainIsAnId, BranchesAssumption DEF MainId
    <2>2. reg \in [Names -> Ids \cup {None}] /\ reg[Main] = MainId /\ \A n \in Names : reg[n] # None => n = Main
      BY <2>1 DEF Init
    <2>3. seq = 0 /\ active = [name |-> Main, id |-> MainId]
      BY DEF Init
    <2> QED BY <2>1, <2>2, <2>3 DEF NamesTyped
  <1>2. WorkTyped
    <2>1. MaxRequests \in [Actors -> Nat]
      BY BranchesAssumption
    <2> QED BY <2>1, IdleWork DEF Init, WorkTyped
  <1>3. LineTyped
    BY MainIsAnId DEF Init, LineTyped
  <1>4. RowsTyped
    <2>1. \A i \in Idents : [file |-> Home[i], live |-> TRUE] \in RowRecord
      BY BranchesAssumption DEF RowRecord
    <2>2. row \in [Ids -> [Idents -> RowRecord \cup {None}]]
      BY <2>1 DEF Init
    <2>3. MaxIngests \in Nat
      BY BranchesAssumption
    <2> QED BY <2>2, <2>3 DEF Init, RowsTyped, Times
  <1> QED BY <1>1, <1>2, <1>3, <1>4 DEF Typed

---------------------------------------------------------------------------
(* What a query sees, without the least index                               *)

ChainOk(b) ==
  /\ Chain(b) \in Seq(Ids) /\ Len(Chain(b)) \in Nat /\ 1 \in 1..Len(Chain(b)) /\ Chain(b)[1] = b
  /\ DOMAIN Chain(b) = 1..Len(Chain(b)) /\ b \in Ancestors(b) /\ Ancestors(b) \subseteq Ids
  /\ \A k \in 1..Len(Chain(b)) : Chain(b)[k] \in Ids /\ Chain(b)[k] \in Ancestors(b)
  /\ \A x \in Ancestors(b) : \E k \in 1..Len(Chain(b)) : Chain(b)[k] = x
  /\ \A k \in 2..Len(Chain(b)) : Chain(b)[k] = parent[Chain(b)[k - 1]]
AllChainsOk == \A b \in Ids : ChainOk(b)

LEMMA ChainFacts == ParentTyped => AllChainsOk
  <1> SUFFICES ASSUME ParentTyped, NEW b \in Ids PROVE ChainOk(b)
    BY DEF AllChainsOk
  <1>1. PICK c : c = Chain(b)
    OBVIOUS
  <1>2. Line(c, b, parent)
    BY <1>1, ChainIsChain DEF IsChain, AllChains
  <1>3. c \in Seq(Ids) /\ Len(c) \in Nat /\ Len(c) >= 1 /\ c[1] = b /\ \A k \in 2..Len(c) : c[k] = parent[c[k - 1]]
    BY <1>2 DEF Line
  <1>4. DOMAIN c = 1..Len(c) /\ \A k \in 1..Len(c) : c[k] \in Ids
    BY <1>3
  <1>5. Ancestors(b) = {c[k] : k \in 1..Len(c)}
    BY <1>1, <1>4 DEF Ancestors, Range
  <1>6. 1 \in 1..Len(c)
    BY <1>3
  <1>7. b \in Ancestors(b) /\ Ancestors(b) \subseteq Ids
    BY <1>3, <1>4, <1>5, <1>6
  <1> QED BY <1>1, <1>3, <1>4, <1>5, <1>6, <1>7 DEF ChainOk

Shown(b, x, i) == Live(x, i) /\ ~Honored(b, x, i)
Visible(b, i) ==
  \E k \in 1..Len(Chain(b)) :
    Shown(b, Chain(b)[k], i) /\ \A j \in 1..(k - 1) : ~EndsAt(b, Chain(b)[j], i)

LEMMA FirstEnd ==
  ASSUME ParentTyped, NEW b \in Ids, NEW i
  PROVE  LET ends == {k \in DOMAIN Chain(b) : EndsAt(b, Chain(b)[k], i)}
         IN  /\ ends \subseteq 1..Len(Chain(b))
             /\ ends # {} => Min(ends) \in ends /\ \A k \in ends : Min(ends) <= k
  <1> DEFINE ends == {k \in DOMAIN Chain(b) : EndsAt(b, Chain(b)[k], i)}
  <1>1. ends \subseteq 1..Len(Chain(b)) /\ ends \subseteq Nat
    <2>1. ChainOk(b)
      BY ChainFacts DEF AllChainsOk
    <2> QED BY <2>1 DEF ChainOk
  <1> HIDE DEF ends
  <1>2. ASSUME ends # {} PROVE Min(ends) \in ends /\ \A k \in ends : Min(ends) <= k
    <2>1. \E n \in ends : \A k \in ends : n <= k
      BY <1>1, <1>2, LeastNatural
    <2> QED BY <2>1 DEF Min
  <1> QED BY <1>1, <1>2 DEF ends

AllViews == \A b \in Ids, i \in Idents : i \in View(b) <=> Visible(b, i)

LEMMA ViewIs == ParentTyped => AllViews
  <1> SUFFICES ASSUME ParentTyped, NEW b \in Ids, NEW i \in Idents PROVE i \in View(b) <=> Visible(b, i)
    BY DEF AllViews
  <1> DEFINE ends == {k \in DOMAIN Chain(b) : EndsAt(b, Chain(b)[k], i)}
  <1>1. /\ DOMAIN Chain(b) = 1..Len(Chain(b)) /\ Chain(b)[1] = b /\ Len(Chain(b)) \in Nat
        /\ \A k \in 1..Len(Chain(b)) : Chain(b)[k] \in Ids /\ Chain(b)[k] # None
    <2>1. None \notin Ids
      BY BranchesAssumption
    <2>2. ChainOk(b)
      BY ChainFacts DEF AllChainsOk
    <2> QED BY <2>1, <2>2 DEF ChainOk
  <1>2. i \in View(b) <=> ends # {} /\ Shown(b, Chain(b)[Min(ends)], i)
    <2>1. ends # {} => Min(ends) \in ends
      BY FirstEnd
    <2>2. SourceIn(Chain(b), i) = IF ends = {} THEN None
                                  ELSE IF Shown(b, Chain(b)[Min(ends)], i) THEN Chain(b)[Min(ends)] ELSE None
      BY <1>1 DEF SourceIn, Shown
    <2>3. i \in View(b) <=> SourceIn(Chain(b), i) # None
      BY DEF View
    <2>4. ends # {} => Chain(b)[Min(ends)] # None
      BY <1>1, <2>1
    <2> HIDE DEF ends
    <2> QED BY <2>2, <2>3, <2>4
  <1>3. ASSUME ends # {}, Shown(b, Chain(b)[Min(ends)], i) PROVE Visible(b, i)
    <2>1. PICK m : m = Min(ends)
      OBVIOUS
    <2>2. m \in 1..Len(Chain(b)) /\ \A k \in 1..Len(Chain(b)) : EndsAt(b, Chain(b)[k], i) => m <= k
      BY <1>1, <1>3, <2>1, FirstEnd
    <2>3. \A j \in 1..(m - 1) : j \in 1..Len(Chain(b)) /\ ~(m <= j)
      BY <1>1, <2>2
    <2> QED BY <1>3, <2>1, <2>2, <2>3 DEF Visible
  <1>4. ASSUME Visible(b, i) PROVE ends # {} /\ Shown(b, Chain(b)[Min(ends)], i)
    <2>1. PICK k \in 1..Len(Chain(b)) :
            Shown(b, Chain(b)[k], i) /\ \A j \in 1..(k - 1) : ~EndsAt(b, Chain(b)[j], i)
      BY <1>4 DEF Visible
    <2>2. k \in ends
      BY <1>1, <2>1 DEF Shown, EndsAt
    <2>3. PICK m : m = Min(ends)
      OBVIOUS
    <2>4. m \in 1..Len(Chain(b)) /\ EndsAt(b, Chain(b)[m], i) /\ m <= k
      BY <1>1, <2>2, <2>3, FirstEnd
    <2>5. m = k
      <3>1. m \notin 1..(k - 1)
        BY <2>1, <2>4
      <3> QED BY <1>1, <2>4, <3>1
    <2> QED BY <2>1, <2>2, <2>3, <2>5
  <1> QED BY <1>2, <1>3, <1>4

---------------------------------------------------------------------------
(* Lines of ancestors under a step                                          *)

SameLine(b) == Len(Chain(b))' = Len(Chain(b)) /\ \A k \in 1..Len(Chain(b)) : Chain(b)'[k] = Chain(b)[k]
KeptLine(b) == \A k \in 1..Len(Chain(b)) : k \in 1..Len(Chain(b)') /\ Chain(b)'[k] = Chain(b)[k]

LEMMA LineStays ==
  ASSUME LineTyped, parent' = parent, NEW b \in Ids
  PROVE  /\ SameLine(b) /\ KeptLine(b) /\ Ancestors(b)' = Ancestors(b)
         /\ \A c : HasChildren(c)' <=> HasChildren(c)
  <1>1. ParentTyped /\ ParentTyped' /\ parent \in [Ids -> Ids \cup {None}] /\ SameBut(parent, parent, None)
    BY DEF LineTyped, ParentTyped, SameBut
  <1>2. IsChain(Chain(b), b, parent)
    BY <1>1, ChainIsChain DEF AllChains
  <1>3. IsChain(Chain(b), b, parent)'
    <2>1. AllChains'
      BY <1>1, ChainIsChain, PTL
    <2> QED BY <2>1 DEF AllChains
  <1>4. PICK c : c = Chain(b)
    OBVIOUS
  <1>5. PICK d : d = Chain(b)'
    OBVIOUS
  <1>6. IsChain(c, b, parent) /\ IsChain(d, b, parent)
    BY <1>2, <1>3, <1>4, <1>5 DEF IsChain, Line, Ended
  <1>7. /\ None \notin Ids /\ \A k \in 1..Len(c) : c[k] \in Ids
        /\ \A k \in 1..Len(d) : d[k] \in Ids
    BY <1>6, BranchesAssumption DEF IsChain, Line
  <1>8. \A k \in 1..Len(c) : k \in 1..Len(d) /\ d[k] = c[k]
    <2> SUFFICES ASSUME NEW k \in 1..Len(c) PROVE k \in 1..Len(d) /\ d[k] = c[k]
      OBVIOUS
    <2>1. Len(c) \in Nat
      BY <1>6 DEF IsChain, Line
    <2>2. Avoids(c, k, None)
      BY <1>7, <2>1 DEF Avoids
    <2> QED BY <1>1, <1>6, <2>2, ChainsAgree
  <1>9. \A k \in 1..Len(d) : k \in 1..Len(c)
    <2> SUFFICES ASSUME NEW k \in 1..Len(d) PROVE k \in 1..Len(c) /\ c[k] = d[k]
      OBVIOUS
    <2>1. Len(d) \in Nat
      BY <1>6 DEF IsChain, Line
    <2>2. Avoids(d, k, None)
      BY <1>7, <2>1 DEF Avoids
    <2> QED BY <1>1, <1>6, <2>2, ChainsAgree
  <1>10. Len(c) = Len(d)
    <2>1. Len(c) \in Nat /\ Len(d) \in Nat /\ Len(c) >= 1 /\ Len(d) >= 1
      BY <1>6 DEF IsChain, Line
    <2>2. Len(c) \in 1..Len(d) /\ Len(d) \in 1..Len(c)
      BY <1>8, <1>9, <2>1
    <2> QED BY <2>1, <2>2
  <1>11. SameLine(b) /\ KeptLine(b)
    BY <1>4, <1>5, <1>8, <1>10 DEF SameLine, KeptLine
  <1>12. c = d /\ Ancestors(b)' = Ancestors(b)
    <2>1. c \in Seq(Ids) /\ d \in Seq(Ids)
      BY <1>6 DEF IsChain, Line
    <2>2. c = d
      BY <1>8, <1>10, <2>1
    <2> QED BY <1>4, <1>5, <2>2 DEF Ancestors
  <1>13. \A c_1 : HasChildren(c_1)' <=> HasChildren(c_1)
    BY DEF HasChildren
  <1> QED BY <1>11, <1>12, <1>13

(* A purge ends lines only of those whose ancestor it is.                   *)
LEMMA LineKept ==
  ASSUME BranchInv, Typed', [Next]_vars, NEW b \in Ids, Unpurged(b)'
  PROVE  Unpurged(b) /\ KeptLine(b)
  <1> DEFINE c == Chain(b)
             d == Chain(b)'
  <1>0. LineTyped /\ parent \in [Ids -> Ids \cup {None}] /\ parent' \in [Ids -> Ids \cup {None}]
        /\ ParentTyped /\ ParentTyped'
    BY DEF BranchInv, Typed, LineTyped, ParentTyped
  <1>1. IsChain(c, b, parent)
    BY <1>0, ChainIsChain DEF AllChains
  <1>2. IsChain(d, b, parent')
    <2>1. AllChains'
      BY <1>0, ChainIsChain, PTL
    <2>2. IsChain(Chain(b), b, parent)'
      BY <2>1 DEF AllChains
    <2> QED BY <2>2 DEF IsChain, Line, Ended
  <1>3. Len(c) \in Nat /\ Len(d) \in Nat /\ \A k \in 1..Len(c) : c[k] \in Ids /\ c[k] # None
    BY <1>1, <1>2, BranchesAssumption DEF IsChain, Line
  <1>4. KeptLine(b) => Ancestors(b) \subseteq Ancestors(b)'
    <2>1. \A x \in Ancestors(b) : \E k \in 1..Len(c) : c[k] = x
      BY <1>0, ChainFacts DEF AllChainsOk, ChainOk
    <2>2. AllChainsOk'
      BY <1>0, ChainFacts, PTL
    <2>3. (\A k \in 1..Len(Chain(b)) : Chain(b)[k] \in Ancestors(b))'
      BY <2>2 DEF AllChainsOk, ChainOk
    <2> QED BY <2>1, <2>3 DEF KeptLine
  <1>5. purged \subseteq purged'
    <2>1. CASE \E t \in Threads : Request(t)
      BY <2>1 DEF Request, CreateBranch, SwitchBranch, PurgeBranch, history
    <2>2. CASE ~\E t \in Threads : Request(t)
      <3>1. purged' = purged
        BY <2>2 DEF Next, vars, history, SyncWithGit, Continue, GetId, Register, SetParent, StampFork, SetName, SetId,
                    ClearKeys, DropParent, DropStamp, Finalize, BurySoftDeleted, Scan, Ingesting, StartIngest, MarkDeleted, Bury,
                    FinishIngest, Collect
      <3> QED BY <3>1
    <2> QED BY <2>1, <2>2
  <1>6. SUFFICES KeptLine(b)
    BY <1>4, <1>5 DEF Unpurged
  <1>7. CASE parent' = parent
    BY <1>0, <1>7, LineStays
  <1>8. ASSUME NEW t \in Actors, SetParent(t) PROVE KeptLine(b)
    <2> DEFINE x == at[t].id
    <2>1. SameBut(parent, parent', x)
      BY <1>0, <1>8 DEF SetParent, SameBut
    <2>2. x \in Ids
      BY <1>8 DEF BranchInv, Typed, WorkTyped, WorkOk, SetParent
    <2>3. CASE parent[x] = None
      <3>1. ASSUME NEW k \in 1..Len(c) PROVE k \in 1..Len(d) /\ d[k] = c[k]
        <4>1. ASSUME NEW j \in 1..(k - 1) PROVE c[j] # x
          <5>1. j \in 1..Len(c) /\ j + 1 \in 2..Len(c) /\ (j + 1) - 1 = j /\ j + 1 \in 1..Len(c)
            BY <1>3
          <5>2. c[j + 1] = parent[c[j]]
            BY <1>1, <5>1 DEF IsChain, Line
          <5> QED BY <1>3, <2>3, <5>1, <5>2
        <4>2. Avoids(c, k, x)
          BY <4>1 DEF Avoids
        <4> HIDE DEF c, d, x
        <4> QED BY <1>0, <1>1, <1>2, <2>1, <4>2, ChainsAgree
      <3> QED BY <3>1 DEF KeptLine
    <2>4. CASE parent[x] # None
      <3>1. parent' = parent
        BY <1>0, <1>8, <2>2, <2>4 DEF SetParent
      <3> QED BY <1>7, <3>1
    <2> QED BY <2>3, <2>4
  <1>9. ASSUME NEW t \in Actors, DropParent(t) PROVE KeptLine(b)
    <2> DEFINE x == at[t].id
    <2>1. SameBut(parent, parent', x)
      BY <1>0, <1>9 DEF DropParent, SameBut
    <2>2. x \in purged'
      BY <1>5, <1>9 DEF BranchInv, Typed, WorkTyped, WorkOk, DropParent
    <2>3. \A k \in 1..Len(d) : d[k] # x
      <3>0. AllChainsOk'
        BY <1>0, ChainFacts, PTL
      <3>1. (\A k \in 1..Len(Chain(b)) : Chain(b)[k] \in Ancestors(b))'
        BY <3>0 DEF AllChainsOk, ChainOk
      <3>2. x \notin Ancestors(b)'
        BY <2>2 DEF Unpurged
      <3> QED BY <3>1, <3>2
    <2> HIDE DEF x, d, c
    <2> DEFINE Bad == {k \in 1..Len(c) : c[k] = x}
    <2>4. Bad = {}
      <3>1. SUFFICES ASSUME Bad # {} PROVE FALSE
        OBVIOUS
      <3>2. PICK k \in Bad : \A m \in Bad : k <= m
        <4>1. Bad \subseteq Nat
          BY <1>3
        <4> HIDE DEF Bad
        <4> QED BY <3>1, <4>1, LeastNatural
      <3>3. Avoids(c, k, x)
        BY <1>3, <3>2 DEF Avoids
      <3>4. k \in 1..Len(d) /\ d[k] = c[k]
        <4>1. k \in 1..Len(c)
          BY <3>2
        <4> QED BY <1>0, <1>1, <1>2, <2>1, <3>3, <4>1, ChainsAgree
      <3> QED BY <2>3, <3>2, <3>4
    <2>5. ASSUME NEW k \in 1..Len(c) PROVE k \in 1..Len(d) /\ d[k] = c[k]
      <3>1. Avoids(c, k, x)
        BY <1>3, <2>4 DEF Avoids
      <3> QED BY <1>0, <1>1, <1>2, <2>1, <3>1, ChainsAgree
    <2> QED BY <2>5 DEF KeptLine, c, d
  <1>10. CASE ~\E t \in Actors : SetParent(t) \/ DropParent(t)
    <2>1. parent' = parent
      BY <1>10 DEF Next, vars, store, history, SyncWithGit, Request, CreateBranch, SwitchBranch, PurgeBranch,
                   Continue, GetId, Register, StampFork, SetName, SetId,
                    ClearKeys, DropStamp, Finalize, BurySoftDeleted, Scan, Ingesting, StartIngest, MarkDeleted, Bury,
                    FinishIngest, Collect
    <2> QED BY <1>7, <2>1
  <1> QED BY <1>8, <1>9, <1>10

---------------------------------------------------------------------------
(* Deletions stay marked                                                    *)

(* The steps that are not an ingest's and collect no tombstone: they delete *)
(* no marker but those of a purged branch, and bury only what is marked and *)
(* nobody inherits.                                                         *)
Aside ==
  \/ Scan
  \/ \E n \in Names : SyncWithGit(n)
  \/ \E t \in Threads : Request(t)
  \/ \E t \in Actors : Continue(t)
  \/ UNCHANGED vars
Starting(b, f, found) == /\ b \in Ids /\ f \in Files /\ found \in SUBSET Idents /\ StartIngest(b, f, found)

LEMMA StepIs ==
  ASSUME Typed, [Next]_vars
  PROVE  \/ Aside
         \/ \E b \in Ids, f \in Files : \E found \in SUBSET Idents : Starting(b, f, found)
         \/ \E i \in Idents : MarkDeleted(i)
         \/ Bury
         \/ \E moved \in SUBSET Idents : FinishIngest(moved)
         \/ \E b \in Ids, i \in Idents : Collect(b, i)
  <1>1. Range(reg) \ {None} \subseteq Ids
    BY DEF Typed, NamesTyped, Range
  <1>2. ASSUME NEW b \in Range(reg) \ {None}, NEW f \in Files,
               NEW found \in SUBSET {i \in Idents : Home[i] = f}, StartIngest(b, f, found)
        PROVE  \E c \in Ids, g \in Files : \E fnd \in SUBSET Idents : Starting(c, g, fnd)
    <2>1. b \in Ids /\ found \in SUBSET Idents
      BY <1>1
    <2>2. Starting(b, f, found)
      BY <1>2, <2>1 DEF Starting
    <2> QED BY <2>1, <2>2
  <1> QED BY <1>2 DEF Next, Ingesting, Aside

LEMMA AsideStep ==
  ASSUME Typed, Aside
  PROVE  /\ job' = job /\ gone' = gone /\ purged \subseteq purged'
         /\ \/ row' = row /\ clock' \in {clock, clock + 1}
            \/ job = None
         /\ \A b \in Ids, i \in Idents :
              /\ deleted'[b][i] \in {deleted[b][i], None}
              /\ b \notin purged' => deleted'[b][i] = deleted[b][i]
              /\ \/ row'[b][i] = row[b][i]
                 \/ /\ Live(b, i) /\ Marked(b, i) /\ ~HasChildren(b)
                    /\ row'[b][i] # None /\ row'[b][i].live = FALSE
  <1>1. CASE UNCHANGED <<row, deleted, job, gone>>
    <2>1. purged \subseteq purged'
      BY DEF Aside, SyncWithGit, Request, CreateBranch, SwitchBranch, PurgeBranch, Continue, GetId, Register,
             SetParent, StampFork, SetName, SetId, ClearKeys, DropParent, DropStamp, Finalize, BurySoftDeleted, Scan, vars, history
    <2>2. clock' \in {clock, clock + 1}
      BY DEF Aside, SyncWithGit, Request, CreateBranch, SwitchBranch, PurgeBranch, Continue, GetId, Register,
             SetParent, StampFork, SetName, SetId, ClearKeys, DropParent, DropStamp, Finalize, BurySoftDeleted, Scan, vars, Now
    <2> QED BY <1>1, <2>1, <2>2
  <1>2. ASSUME NEW t \in Actors, ClearKeys(t)
        PROVE  /\ UNCHANGED <<row, job, gone, clock, purged>>
               /\ \A b \in Ids, i \in Idents :
                    /\ deleted'[b][i] \in {deleted[b][i], None}
                    /\ b \notin purged => deleted'[b][i] = deleted[b][i]
    <2>1. /\ UNCHANGED <<row, job, gone, clock, purged>> /\ at[t].id \in purged
          /\ deleted' = [deleted EXCEPT ![at[t].id] = [i \in Idents |-> None]]
      BY <1>2 DEF ClearKeys, history, Typed, WorkTyped, WorkOk
    <2> QED BY <2>1 DEF Typed, RowsTyped, Times
  <1>3. ASSUME BurySoftDeleted
        PROVE  /\ UNCHANGED <<deleted, gone, purged, job>> /\ job = None
               /\ \A b \in Ids, i \in Idents :
                    \/ row'[b][i] = row[b][i]
                    \/ /\ Live(b, i) /\ Marked(b, i) /\ ~HasChildren(b)
                       /\ row'[b][i] # None /\ row'[b][i].live = FALSE
    <2>1. UNCHANGED <<deleted, gone, purged, job>> /\ job = None /\ row' = Buried
      BY <1>3 DEF BurySoftDeleted, store, history
    <2>2. ASSUME NEW b \in Ids, NEW i \in Idents, Live(b, i), Marked(b, i), ~HasChildren(b)
          PROVE  row'[b][i] # None /\ row'[b][i].live = FALSE
      <3>1. row[b][i] \in RowRecord
        BY <2>2 DEF Typed, RowsTyped, Live
      <3>2. PICK dead : dead = [row[b][i] EXCEPT !.live = FALSE]
        OBVIOUS
      <3>3. dead \in RowRecord /\ dead.live = FALSE
        BY <3>1, <3>2 DEF RowRecord
      <3>4. row'[b][i] = dead
        BY <2>1, <2>2, <3>2 DEF Buried
      <3>5. dead # None
        BY <3>3, BranchesAssumption DEF RowRecord
      <3> QED BY <3>3, <3>4, <3>5
    <2>3. \A b \in Ids, i \in Idents : (Live(b, i) /\ Marked(b, i) /\ ~HasChildren(b)) \/ row'[b][i] = row[b][i]
      BY <2>1 DEF Buried
    <2> QED BY <2>1, <2>2, <2>3
  <1>4. CASE ~BurySoftDeleted /\ ~\E t \in Actors : ClearKeys(t)
    <2>1. UNCHANGED <<row, deleted, job, gone>>
      BY <1>4 DEF Aside, SyncWithGit, Request, CreateBranch, SwitchBranch, PurgeBranch, Continue, GetId, Register,
             SetParent, StampFork, SetName, SetId, ClearKeys, DropParent, DropStamp, Finalize, Scan, vars, store, history
    <2> QED BY <1>1, <2>1
  <1> QED BY <1>2, <1>3, <1>4

LEMMA StartStep ==
  ASSUME Typed, NEW b \in Ids, NEW f \in Files, NEW found \in SUBSET Idents, Starting(b, f, found)
  PROVE  /\ job = None /\ job'.branch = b /\ job'.file = f /\ job'.found = found /\ job'.marked = None
         /\ job'.left = {i \in Idents : Live(b, i) /\ row[b][i].file = f} \ found
         /\ job'.seen = SeenIn(b, f)
         /\ UNCHANGED <<deleted, row, parent, forkTs, clock, kept, gone, purged>>
  <1>1. PICK left : left = {i \in Idents : Live(b, i) /\ row[b][i].file = f} \ found
    OBVIOUS
  <1>2. job' = [branch |-> b, file |-> f, found |-> found, marked |-> None, left |-> left, seen |-> SeenIn(b, f)]
    BY <1>1 DEF Starting, StartIngest
  <1>3. job = None /\ UNCHANGED <<deleted, row, parent, forkTs, clock, kept, gone, purged>>
    BY DEF Starting, StartIngest, store, history
  <1> QED BY <1>1, <1>2, <1>3

LEMMA CollectStep ==
  ASSUME Typed, NEW b \in Ids, NEW i \in Idents, Collect(b, i)
  PROVE  /\ job = None /\ Tomb(b, i) /\ UNCHANGED <<deleted, job, parent, forkTs, clock, kept, gone, purged>>
         /\ \A c \in Ids, j \in Idents : row'[c][j] = IF c = b /\ j = i THEN None ELSE row[c][j]
  BY DEF Collect, store, history, Typed, RowsTyped

LEMMA MarkFrame ==
  ASSUME NEW i \in Idents, MarkDeleted(i)
  PROVE  UNCHANGED <<row, parent, forkTs, kept, gone, purged>> /\ job # None /\ job.marked = None
  BY DEF MarkDeleted, history

LEMMA BuryFrame == ASSUME Bury PROVE UNCHANGED <<parent, forkTs, purged>> /\ job # None /\ job.marked # None
  BY DEF Bury, store, history

LEMMA GoneStep ==
  ASSUME BranchInv, [Next]_vars
  PROVE  GoneIsMarked'
  <1>0. Typed /\ GoneIsMarked /\ JobMarks
    BY DEF BranchInv
  <1>1. CASE Aside
    <2>1. gone' = gone /\ purged \subseteq purged'
          /\ \A b \in Ids, i \in Idents : b \notin purged' => deleted'[b][i] = deleted[b][i]
      BY <1>0, <1>1, AsideStep
    <2>2. \A b \in Ids : gone[b] \subseteq Idents
      BY <1>0 DEF Typed, RowsTyped
    <2> QED BY <1>0, <2>1, <2>2 DEF GoneIsMarked, Marked
  <1>2. ASSUME NEW b \in Ids, NEW f \in Files, NEW found \in SUBSET Idents, Starting(b, f, found) PROVE GoneIsMarked'
    BY <1>0, <1>2, StartStep DEF GoneIsMarked, Marked
  <1>3. ASSUME NEW i \in Idents, MarkDeleted(i) PROVE GoneIsMarked'
    <2>1. UNCHANGED <<gone, purged>>
      BY <1>3, MarkFrame
    <2>2. \E now \in Clock : \A b \in Ids, j \in Idents :
                deleted'[b][j] = IF b = job.branch /\ j = i THEN now ELSE deleted[b][j]
      BY <1>0, <1>3, MarkRows DEF Now
    <2>3. \A b \in Ids : gone[b] \subseteq Idents
      BY <1>0 DEF Typed, RowsTyped
    <2>4. None \notin Clock
      BY BranchesAssumption
    <2> QED BY <1>0, <2>1, <2>2, <2>3, <2>4 DEF GoneIsMarked, Marked
  <1>4. CASE Bury
    <2>1. UNCHANGED <<deleted, gone, purged>>
      BY <1>4 DEF Bury, store, history
    <2> QED BY <1>0, <2>1 DEF GoneIsMarked, Marked
  <1>5. ASSUME NEW moved \in SUBSET Idents, FinishIngest(moved) PROVE GoneIsMarked'
    <2> DEFINE put == job.found \cup moved
    <2>1. /\ job # None /\ job.branch \in Ids /\ job.left = {} /\ purged' = purged
          /\ \A a \in Ids : gone'[a] = IF a = job.branch THEN (gone[a] \cup job.seen) \ put ELSE gone[a]
      BY <1>0, <1>5, FinishRows
    <2>2. PICK now \in Clock : \A a \in Ids, i \in Idents : deleted'[a][i] = FinishedMarker(put, now, a, i)
      BY <1>0, <1>5, FinishRows
    <2>3. now # None
      BY BranchesAssumption
    <2> SUFFICES ASSUME NEW b \in Ids \ purged, NEW i \in gone'[b] PROVE deleted'[b][i] # None
      BY <2>1 DEF GoneIsMarked, Marked
    <2>4. i \in Idents
      BY <1>0, <2>1, JobIsTyped DEF Typed, RowsTyped
    <2>5. CASE b # job.branch
      <3>1. i \in gone[b] /\ deleted'[b][i] = deleted[b][i]
        BY <2>1, <2>2, <2>4, <2>5 DEF FinishedMarker
      <3> QED BY <1>0, <3>1 DEF GoneIsMarked, Marked
    <2>6. CASE b = job.branch
      <3>1. i \notin put /\ (i \in gone[b] \/ i \in job.seen)
        BY <2>1, <2>6
      <3>2. i \in gone[b] => deleted[b][i] # None
        BY <1>0 DEF GoneIsMarked, Marked
      <3>3. i \in job.seen => deleted[b][i] # None \/ i \in Inherited
        BY <1>0, <2>1, <2>4, <2>6, <3>1 DEF JobMarks, Marked, Inherited
      <3> QED BY <2>2, <2>3, <2>4, <2>6, <3>1, <3>2, <3>3 DEF FinishedMarker
    <2> QED BY <2>5, <2>6
  <1>6. ASSUME NEW b \in Ids, NEW i \in Idents, Collect(b, i) PROVE GoneIsMarked'
    BY <1>0, <1>6, CollectStep DEF GoneIsMarked, Marked
  <1> QED BY <1>0, <1>1, <1>2, <1>3, <1>4, <1>5, <1>6, StepIs

LEMMA TombStep ==
  ASSUME BranchInv, [Next]_vars
  PROVE  TombIsMarked'
  <1>0. Typed /\ TombIsMarked /\ JobMarks /\ None \notin Clock
    BY BranchesAssumption DEF BranchInv
  <1>1. CASE Aside
    <2>1. /\ purged \subseteq purged'
          /\ \A b \in Ids, i \in Idents :
              /\ b \notin purged' => deleted'[b][i] = deleted[b][i]
              /\ row'[b][i] = row[b][i] \/ Marked(b, i)
      BY <1>0, <1>1, AsideStep
    <2> QED BY <1>0, <2>1 DEF TombIsMarked, Marked, Tomb
  <1>2. ASSUME NEW b \in Ids, NEW f \in Files, NEW found \in SUBSET Idents, Starting(b, f, found) PROVE TombIsMarked'
    BY <1>0, <1>2, StartStep DEF TombIsMarked, Marked, Tomb
  <1>3. ASSUME NEW i \in Idents, MarkDeleted(i) PROVE TombIsMarked'
    <2>1. UNCHANGED <<row, purged>>
      BY <1>3, MarkFrame
    <2>2. \E now \in Clock : \A b \in Ids, j \in Idents :
                deleted'[b][j] = IF b = job.branch /\ j = i THEN now ELSE deleted[b][j]
      BY <1>0, <1>3, MarkRows DEF Now
    <2> QED BY <1>0, <2>1, <2>2 DEF TombIsMarked, Marked, Tomb
  <1>4. CASE Bury
    <2>1. job # None /\ job.marked # None /\ UNCHANGED purged
      BY <1>4 DEF Bury, history
    <2>2. /\ deleted' = deleted
          /\ \A b \in Ids, j \in Idents : row'[b][j] = row[b][j] \/ (b = job.branch /\ j = job.marked)
      BY <1>0, <1>4, BuryRows
    <2> QED BY <1>0, <2>1, <2>2 DEF TombIsMarked, JobMarks, Marked, Tomb
  <1>5. ASSUME NEW moved \in SUBSET Idents, FinishIngest(moved) PROVE TombIsMarked'
    <2> DEFINE put == job.found \cup moved
    <2>1. /\ purged' = purged /\ \A a \in Ids, i \in Idents : row'[a][i] = FinishedRow(put, a, i)
      BY <1>0, <1>5, FinishRows
    <2>2. PICK now \in Clock : \A a \in Ids, i \in Idents : deleted'[a][i] = FinishedMarker(put, now, a, i)
      BY <1>0, <1>5, FinishRows
    <2> HIDE DEF put
    <2>3. ASSUME NEW b \in Ids \ purged, NEW i \in Idents, row'[b][i] # None, ~row'[b][i].live
          PROVE  deleted'[b][i] # None
      <3>1. CASE b = job.branch /\ i \in put
        BY <2>1, <2>3, <3>1 DEF FinishedRow
      <3>2. CASE b = job.branch /\ i \notin put /\ i \in Inherited
        BY <1>0, <2>2, <3>2 DEF FinishedMarker
      <3>3. CASE b # job.branch \/ (i \notin put /\ i \notin Inherited)
        <4>1. row'[b][i] = row[b][i] /\ deleted'[b][i] = deleted[b][i]
          BY <2>1, <2>2, <3>3 DEF FinishedRow, FinishedMarker
        <4> QED BY <1>0, <2>3, <4>1 DEF TombIsMarked, Tomb, Marked
      <3> QED BY <3>1, <3>2, <3>3
    <2> QED BY <2>1, <2>3 DEF TombIsMarked, Tomb, Marked
  <1>6. ASSUME NEW b \in Ids, NEW i \in Idents, Collect(b, i) PROVE TombIsMarked'
    <2>1. UNCHANGED <<deleted, purged>> /\ \A c \in Ids, j \in Idents : row'[c][j] \in {row[c][j], None}
      BY <1>0, <1>6, CollectStep
    <2> QED BY <1>0, <2>1 DEF TombIsMarked, Marked, Tomb
  <1> QED BY <1>0, <1>1, <1>2, <1>3, <1>4, <1>5, <1>6, StepIs

(* What the ingest of a file sees in it: on a branch of the line.           *)
LEMMA SeenIsLive ==
  ASSUME Typed, NEW b \in Ids, NEW f, NEW i \in SeenIn(b, f)
  PROVE  i \in Idents /\ \E c \in Ids : Live(c, i) /\ row[c][i].file = f
  <1> DEFINE ends == {k \in DOMAIN Chain(b) : EndsAt(b, Chain(b)[k], i)}
  <1>1. ParentTyped
    BY DEF Typed, LineTyped, ParentTyped
  <1>2. i \in Idents /\ SourceIn(Chain(b), i) # None /\ row[SourceIn(Chain(b), i)][i].file = f
    BY DEF SeenIn
  <1>3. Chain(b)[1] = b /\ \A k \in 1..Len(Chain(b)) : Chain(b)[k] \in Ids
    BY <1>1, ChainFacts DEF AllChainsOk, ChainOk
  <1>4. PICK m : m = Min(ends)
    OBVIOUS
  <1>5. SourceIn(Chain(b), i) = IF ends = {} THEN None
                                ELSE IF Shown(b, Chain(b)[m], i) THEN Chain(b)[m] ELSE None
    BY <1>3, <1>4 DEF SourceIn, Shown
  <1>6. ends # {} => m \in 1..Len(Chain(b))
    BY <1>1, <1>4, FirstEnd
  <1> HIDE DEF ends
  <1>7. Chain(b)[m] \in Ids /\ Live(Chain(b)[m], i) /\ SourceIn(Chain(b), i) = Chain(b)[m]
    BY <1>2, <1>3, <1>5, <1>6 DEF Shown
  <1> QED BY <1>2, <1>7

LEMMA JobStep ==
  ASSUME BranchInv, [Next]_vars
  PROVE  JobMarks'
  <1>0. Typed /\ JobMarks /\ None \notin Clock
    BY BranchesAssumption DEF BranchInv
  <1> SUFFICES ASSUME job' # None, job'.branch \notin purged' PROVE JobMarks'
    BY DEF JobMarks
  <1>1. CASE Aside
    <2>1. job' = job /\ job # None /\ job.branch \notin purged /\ job.branch \in Ids /\ row' = row
          /\ \A i \in Idents : deleted'[job.branch][i] = deleted[job.branch][i]
      BY <1>0, <1>1, AsideStep, JobIsTyped
    <2>2. job.seen \subseteq Idents /\ job.marked \in Idents \cup {None}
      BY <1>0, <2>1, JobIsTyped
    <2> QED BY <1>0, <2>1, <2>2 DEF JobMarks, Marked, Live
  <1>2. ASSUME NEW b \in Ids, NEW f \in Files, NEW found \in SUBSET Idents, Starting(b, f, found) PROVE JobMarks'
    <2>1. /\ job'.branch = b /\ job'.file = f /\ job'.found = found /\ job'.marked = None
          /\ job'.left = {i \in Idents : Live(b, i) /\ row[b][i].file = f} \ found
          /\ job'.seen = SeenIn(b, f) /\ row' = row
      BY <1>0, <1>2, StartStep
    <2>2. ASSUME NEW i \in SeenIn(b, f) \ found
          PROVE  \/ i \in {j \in Idents : Live(b, j) /\ row[b][j].file = f} \ found
                 \/ \E c \in Ids \ {b} : Live(c, i) /\ row[c][i].file = f
      BY <1>0, SeenIsLive
    <2> QED BY <2>1, <2>2 DEF JobMarks, Live
  <1>3. ASSUME NEW i \in Idents, MarkDeleted(i) PROVE JobMarks'
    <2>1. UNCHANGED <<row, purged>> /\ job # None /\ job.marked = None
      BY <1>3, MarkFrame
    <2>2. PICK now \in Clock : \A b \in Ids, j \in Idents :
                deleted'[b][j] = IF b = job.branch /\ j = i THEN now ELSE deleted[b][j]
      BY <1>0, <1>3, MarkRows DEF Now
    <2>3. /\ job'.branch = job.branch /\ job'.file = job.file /\ job'.found = job.found
          /\ job'.seen = job.seen /\ job'.marked = i /\ job'.left = job.left \ {i}
      BY <1>0, <1>3, MarkRows
    <2>4. job.branch \in Ids /\ job.seen \subseteq Idents
      BY <1>0, <2>1, JobIsTyped
    <2>5. deleted'[job.branch][i] # None
      BY <1>0, <2>2, <2>4
    <2>6. ASSUME NEW j \in job.seen \ job.found
          PROVE  \/ deleted'[job.branch][j] # None \/ j \in job.left \ {i}
                 \/ \E c \in Ids \ {job.branch} : Live(c, j)' /\ row'[c][j].file = job.file
      <3>1. CASE j = i
        BY <2>5, <3>1
      <3>2. CASE j # i
        <4>1. deleted'[job.branch][j] = deleted[job.branch][j]
          BY <2>2, <2>4, <3>2
        <4>2. \/ deleted[job.branch][j] # None \/ j \in job.left
              \/ \E c \in Ids \ {job.branch} : Live(c, j) /\ row[c][j].file = job.file
          BY <1>0, <2>1, <2>3 DEF JobMarks, Marked
        <4> QED BY <2>1, <3>2, <4>1, <4>2 DEF Live
      <3> QED BY <3>1, <3>2
    <2> QED BY <2>3, <2>5, <2>6 DEF JobMarks, Marked
  <1>4. CASE Bury
    <2>1. job # None /\ UNCHANGED purged
      BY <1>4, BuryFrame
    <2>2. /\ job'.branch = job.branch /\ job'.file = job.file /\ job'.found = job.found
          /\ job'.seen = job.seen /\ job'.marked = None /\ job'.left = job.left /\ deleted' = deleted
          /\ \A b \in Ids, j \in Idents : b # job.branch => row'[b][j] = row[b][j]
      BY <1>0, <1>4, BuryRows
    <2>3. job.seen \subseteq Idents
      BY <1>0, <2>1, JobIsTyped
    <2>4. ASSUME NEW j \in job.seen \ job.found
          PROVE  \/ deleted'[job.branch][j] # None \/ j \in job.left
                 \/ \E c \in Ids \ {job.branch} : Live(c, j)' /\ row'[c][j].file = job.file
      <3>1. \/ deleted[job.branch][j] # None \/ j \in job.left
            \/ \E c \in Ids \ {job.branch} : Live(c, j) /\ row[c][j].file = job.file
        BY <1>0, <2>1, <2>2 DEF JobMarks, Marked
      <3> QED BY <2>2, <2>3, <3>1 DEF Live
    <2> QED BY <2>2, <2>4 DEF JobMarks, Marked
  <1>5. ASSUME NEW moved \in SUBSET Idents, FinishIngest(moved) PROVE JobMarks'
    BY <1>0, <1>5, FinishRows
  <1>6. ASSUME NEW b \in Ids, NEW i \in Idents, Collect(b, i) PROVE JobMarks'
    BY <1>0, <1>6, CollectStep
  <1> QED BY <1>0, <1>1, <1>2, <1>3, <1>4, <1>5, <1>6, StepIs

---------------------------------------------------------------------------
(* Forks keep what they saw                                                 *)

(* A step, as a fork of b whose view was kept sees it: the clock moves on,  *)
(* the line and the fork time of b stay, other branches are marked at the   *)
(* time of the step or later, and a live row is lost only where it has been *)
(* marked and nobody inherits it.                                           *)
LEMMA SparingStep ==
  ASSUME BranchInv, Typed', NEW b \in Ids, Unpurged(b), KeptLine(b), forkTs'[b] = forkTs[b],
         NEW i \in Idents, i \in kept[b],
         \A x \in Ids \ purged : \/ deleted'[x][i] = deleted[x][i]
                                 \/ deleted'[x][i] = None /\ (x = b => Live(x, i)')
                                 \/ deleted'[x][i] \in Clock /\ deleted'[x][i] >= clock,
         \A x \in Ids \ purged : Live(x, i) => (Live(x, i)' \/ (~HasChildren(x) /\ Marked(x, i)'))
  PROVE  Marked(b, i)' \/ Reaches(b, i)'
  <1>a. PICK c : c = Chain(b)
    OBVIOUS
  <1>b. PICK d : d = Chain(b)'
    OBVIOUS
  <1>0. /\ parent \in [Ids -> Ids \cup {None}] /\ parent' \in [Ids -> Ids \cup {None}]
        /\ None \notin Clock /\ Clock \subseteq Nat /\ forkTs \in [Ids -> Clock \cup {None}] /\ clock \in Clock
        /\ deleted \in [Ids -> [Idents -> Clock \cup {None}]] /\ ParentTyped /\ ParentTyped'
    BY MainIsAnId, BranchesAssumption DEF BranchInv, Typed, LineTyped, RowsTyped, Times, Clock, ParentTyped
  <1>1. /\ c[1] = b /\ Len(c) \in Nat /\ 1 \in 1..Len(c) /\ b \in Ancestors(b)
        /\ \A k \in 1..Len(c) : c[k] \in Ids \ purged
        /\ \A k \in 2..Len(c) : c[k] = parent[c[k - 1]]
    <2>1. ChainOk(b)
      BY <1>0, ChainFacts DEF AllChainsOk
    <2> QED BY <1>a, <2>1 DEF ChainOk, Unpurged
  <1>2. \A k \in 1..Len(c) : k \in 1..Len(d) /\ d[k] = c[k]
    BY <1>a, <1>b DEF KeptLine
  <1>3. Len(d) \in Nat
    <2>0. AllChainsOk'
      BY <1>0, ChainFacts, PTL
    <2>1. (Len(Chain(b)) \in Nat)'
      BY <2>0 DEF AllChainsOk, ChainOk
    <2> QED BY <1>b, <2>1
  <1>4. forkTs[b] \in Nat /\ forkTs[b] <= clock
    <2>1. b \notin purged /\ kept[b] # {}
      BY <1>1 DEF Unpurged
    <2> QED BY <1>0, <2>1 DEF BranchInv, ForkIsStamped
  <1>5. Marked(b, i) \/ Reaches(b, i)
    BY DEF BranchInv, KeptIsReached
  <1>6. CASE Marked(b, i)
    <2> SUFFICES ASSUME ~Marked(b, i)' PROVE Reaches(b, i)'
      OBVIOUS
    <2>1. b \in Ids \ purged
      BY <1>1
    <2>2. Live(b, i)'
      BY <1>0, <1>6, <2>1 DEF Marked
    <2>3. Live(d[1], i)' /\ d[1] = b /\ 1 \in 1..Len(d)
      BY <1>1, <1>2, <2>2
    <2>4. Spared(b, b, i)'
      BY DEF Spared
    <2>5. \A j \in 1..1 : d[j] = b
      BY <2>3
    <2> QED BY <2>2, <2>3, <2>4, <2>5, <1>b DEF Reaches
  <1>7. CASE Reaches(b, i)
    <2>1. PICK k \in 1..Len(c) : Live(c[k], i) /\ \A j \in 1..k : Spared(b, c[j], i)
      BY <1>7, <1>a DEF Reaches
    <2>2. CASE Live(c[k], i)'
      <3>1. ASSUME NEW j \in 1..k PROVE Spared(b, d[j], i)'
        <4>1. j \in 1..Len(c) /\ d[j] = c[j] /\ c[j] \in Ids \ purged
          BY <1>1, <1>2, <2>1
        <4>2. PICK x \in Ids \ purged : x = c[j]
          BY <4>1
        <4>3. Spared(b, x, i)
          BY <2>1, <4>2
        <4>4. deleted'[x][i] # None => deleted'[x][i] >= forkTs[b]
          <5>1. CASE deleted'[x][i] = deleted[x][i]
            BY <4>3, <5>1 DEF Spared, Marked
          <5>2. CASE deleted'[x][i] \in Clock /\ deleted'[x][i] >= clock
            <6>1. deleted'[x][i] \in Nat /\ clock \in Nat /\ forkTs[b] \in Nat
              BY <1>0, <1>4, <5>2
            <6> QED BY <1>4, <5>2, <6>1
          <5> QED BY <5>1, <5>2
        <4>5. Spared(b, x, i)'
          BY <4>4 DEF Spared, Marked
        <4> QED BY <4>1, <4>2, <4>5
      <3> QED BY <1>2, <2>1, <2>2, <3>1, <1>b DEF Reaches
    <2>3. CASE ~Live(c[k], i)'
      <3>1. PICK x \in Ids \ purged : x = c[k]
        BY <1>1
      <3>2. ~HasChildren(x) /\ Marked(x, i)'
        BY <2>1, <2>3, <3>1
      <3>3. k = 1
        <4>1. SUFFICES ASSUME k # 1 PROVE FALSE
          OBVIOUS
        <4>2. k \in 2..Len(c) /\ k - 1 \in 1..Len(c)
          BY <1>1, <4>1
        <4>3. parent[c[k - 1]] = x /\ c[k - 1] \in Ids
          BY <1>1, <3>1, <4>2
        <4> QED BY <3>2, <4>3 DEF HasChildren
      <3> QED BY <1>1, <3>1, <3>2, <3>3
    <2> QED BY <2>2, <2>3
  <1> QED BY <1>5, <1>6, <1>7

(* Fork times and kept views change only when a fork is stamped, and when   *)
(* the branch is purged.                                                    *)
Stamps(b) ==
  /\ forkTs[b] = None /\ forkTs'[b] = clock' /\ kept'[b] = View(b)'
  /\ UNCHANGED <<parent, deleted, row, purged>>

LEMMA StampStep ==
  ASSUME Typed, [Next]_vars, NEW b \in Ids
  PROVE  /\ clock' \in Clock /\ clock' >= clock
         /\ \/ Stamps(b)
            \/ kept'[b] = kept[b] /\ (forkTs'[b] = forkTs[b] \/ (b \in purged /\ b \in purged' /\ forkTs'[b] = None))
  <1>0. /\ kept \in [Ids -> SUBSET Idents] /\ forkTs \in [Ids -> Clock \cup {None}] /\ clock \in Clock
        /\ Clock \subseteq Nat
    BY MainIsAnId DEF Typed, LineTyped, RowsTyped, Clock
  <1>1. clock' \in Clock /\ clock' >= clock
    <2>1. \A now \in Now : now \in Clock /\ now >= clock
      BY <1>0 DEF Now
    <2>2. clock' = clock \/ clock' \in Now
      <3>1. CASE \E t \in Actors : StampFork(t)
        BY <3>1 DEF StampFork
      <3>2. CASE \E i \in Idents : MarkDeleted(i)
        BY <3>2 DEF MarkDeleted
      <3>3. CASE \E moved \in SUBSET Idents : FinishIngest(moved)
        BY <3>3 DEF FinishIngest
      <3>4. CASE ~\/ \E t \in Actors : StampFork(t)
                  \/ \E i \in Idents : MarkDeleted(i)
                  \/ \E moved \in SUBSET Idents : FinishIngest(moved)
        BY <3>4 DEF Next, SyncWithGit, Request, CreateBranch, SwitchBranch, PurgeBranch, Continue, GetId, Register,
             SetParent, SetName, SetId, ClearKeys, DropParent, DropStamp, Finalize, BurySoftDeleted, Scan, Ingesting, StartIngest, Bury,
             Collect, vars
      <3> QED BY <3>1, <3>2, <3>3, <3>4
    <2> QED BY <1>0, <2>1, <2>2
  <1>2. ASSUME NEW t \in Actors, StampFork(t) PROVE Stamps(b) \/ (kept'[b] = kept[b] /\ forkTs'[b] = forkTs[b])
    <2>1. PICK x : x = at[t].id
      OBVIOUS
    <2>2. UNCHANGED <<parent, deleted, row, purged>>
      BY <1>2 DEF StampFork
    <2>3. CASE forkTs[x] # None
      BY <1>2, <2>1, <2>3 DEF StampFork
    <2>4. CASE forkTs[x] = None
      <3>1. PICK now \in Now : /\ clock' = now /\ forkTs' = [forkTs EXCEPT ![x] = now]
                               /\ kept' = [kept EXCEPT ![x] = View(x)']
        <4>1. \E y \in {at[t].id} :
                IF forkTs[y] # None THEN UNCHANGED <<forkTs, clock, kept>>
                ELSE \E now \in Now : /\ clock' = now /\ forkTs' = [forkTs EXCEPT ![y] = now]
                                      /\ kept' = [kept EXCEPT ![y] = View(y)']
          BY <1>2 DEF StampFork
        <4> QED BY <2>1, <2>4, <4>1
      <3>2. CASE b = x
        BY <1>0, <2>2, <2>4, <3>1, <3>2 DEF Stamps
      <3>3. CASE b # x
        BY <1>0, <3>1, <3>3
      <3> QED BY <3>2, <3>3
    <2> QED BY <2>3, <2>4
  <1>3. ASSUME NEW t \in Actors, DropStamp(t)
        PROVE  kept'[b] = kept[b] /\ (forkTs'[b] = forkTs[b] \/ (b \in purged /\ b \in purged' /\ forkTs'[b] = None))
    BY <1>0, <1>3 DEF DropStamp, history, Typed, WorkTyped, WorkOk
  <1>4. CASE ~\E t \in Actors : StampFork(t) \/ DropStamp(t)
    <2>1. UNCHANGED <<forkTs, kept>>
      BY <1>4 DEF Next, SyncWithGit, Request, CreateBranch, SwitchBranch, PurgeBranch, Continue, GetId, Register,
             SetParent, SetName, SetId, ClearKeys, DropParent, Finalize, BurySoftDeleted, Scan, Ingesting, StartIngest, MarkDeleted, Bury,
             FinishIngest, Collect, vars, store, history
    <2> QED BY <1>1, <2>1
  <1> QED BY <1>1, <1>2, <1>3, <1>4

LEMMA PurgedGrows ==
  ASSUME [Next]_vars
  PROVE  purged \subseteq purged'
  BY DEF Next, SyncWithGit, Request, CreateBranch, SwitchBranch, PurgeBranch, Continue, GetId, Register,
         SetParent, StampFork, SetName, SetId, ClearKeys, DropParent, DropStamp, Finalize, BurySoftDeleted, Scan, Ingesting, StartIngest,
         MarkDeleted, Bury, FinishIngest, Collect, vars, history

LEMMA StampedStep ==
  ASSUME BranchInv, Typed', [Next]_vars
  PROVE  ForkIsStamped'
  <1>0. Typed /\ None \notin Clock /\ Clock \subseteq Nat /\ clock \in Clock /\ forkTs \in [Ids -> Clock \cup {None}]
    BY MainIsAnId, BranchesAssumption DEF BranchInv, Typed, LineTyped, Clock
  <1>1. ASSUME NEW b \in Ids
        PROVE  /\ forkTs'[b] # None => forkTs'[b] <= clock'
               /\ b \notin purged' /\ kept'[b] # {} => forkTs'[b] # None
    <2>1. clock' \in Clock /\ clock' >= clock
      BY <1>0, StampStep
    <2>2. forkTs[b] # None => forkTs[b] \in Nat /\ forkTs[b] <= clock
      BY <1>0 DEF BranchInv, ForkIsStamped
    <2>3. b \notin purged' /\ kept[b] # {} => forkTs[b] # None
      BY PurgedGrows DEF BranchInv, ForkIsStamped
    <2>4. CASE Stamps(b)
      <3>1. PICK now \in Nat : now = clock' /\ now # None
        BY <1>0, <2>1
      <3>2. forkTs'[b] = clock'
        BY <2>4 DEF Stamps
      <3>3. now <= now
        OBVIOUS
      <3> QED BY <3>1, <3>2, <3>3
    <2>5. CASE kept'[b] = kept[b] /\ (forkTs'[b] = forkTs[b] \/ (b \in purged /\ b \in purged' /\ forkTs'[b] = None))
      <3>1. forkTs[b] # None => forkTs[b] <= clock'
        BY <1>0, <2>1, <2>2
      <3> QED BY <2>3, <2>5, <3>1
    <2> QED BY <1>0, <2>4, <2>5, StampStep
  <1> QED BY <1>1 DEF ForkIsStamped

(* What is visible when the fork is stamped is reached by the fork.         *)
StampedReach ==
  \A b \in Ids, i \in Idents : forkTs[b] # None /\ i \in View(b) => Marked(b, i) \/ Reaches(b, i)

LEMMA VisibleIsReached == Typed => StampedReach
  <1> SUFFICES ASSUME Typed, NEW b \in Ids, NEW i \in Idents, forkTs[b] # None, i \in View(b), ~Marked(b, i)
               PROVE  Reaches(b, i)
    BY DEF StampedReach
  <1>0. /\ ParentTyped /\ forkTs[b] \in Nat /\ None \notin Clock
        /\ deleted \in [Ids -> [Idents -> Clock \cup {None}]] /\ Clock \subseteq Nat
    BY MainIsAnId, BranchesAssumption DEF Typed, LineTyped, RowsTyped, Times, Clock, ParentTyped
  <1>c. ChainOk(b)
    BY <1>0, ChainFacts DEF AllChainsOk
  <1>1. PICK k \in 1..Len(Chain(b)) : Shown(b, Chain(b)[k], i) /\ \A j \in 1..(k - 1) : ~EndsAt(b, Chain(b)[j], i)
    BY <1>0, ViewIs DEF AllViews, Visible
  <1>2. ASSUME NEW j \in 1..k PROVE Spared(b, Chain(b)[j], i)
    <2>1. j \in 1..Len(Chain(b)) /\ Chain(b)[j] \in Ids
      <3>1. Len(Chain(b)) \in Nat
        BY <1>c DEF ChainOk
      <3>2. j \in 1..Len(Chain(b))
        BY <1>1, <3>1
      <3> QED BY <1>c, <3>2 DEF ChainOk
    <2>2. ~Honored(b, Chain(b)[j], i)
      <3>1. j = k \/ j \in 1..(k - 1)
        BY <1>1, <2>1
      <3> QED BY <1>1, <3>1 DEF EndsAt, Shown
    <2>3. PICK x \in Ids : x = Chain(b)[j]
      BY <2>1
    <2>4. deleted[x][i] # None => deleted[x][i] \in Nat /\ ~(deleted[x][i] <= forkTs[b])
      BY <1>0, <2>2, <2>3 DEF Honored, Marked
    <2>5. deleted[x][i] # None => deleted[x][i] >= forkTs[b]
      BY <1>0, <2>4
    <2> QED BY <2>3, <2>5 DEF Spared, Marked
  <1> QED BY <1>1, <1>2 DEF Reaches, Shown

LEMMA KeptStep ==
  ASSUME BranchInv, Typed', [Next]_vars
  PROVE  KeptIsReached'
  <1>0. Typed /\ TombIsMarked /\ JobMarks /\ None \notin Clock /\ kept \in [Ids -> SUBSET Idents]
        /\ \A b \in Ids, i \in Idents : deleted[b][i] \in Clock \cup {None}
    BY BranchesAssumption DEF BranchInv, Typed, RowsTyped, Times
  <1> SUFFICES ASSUME NEW b \in Ids, Unpurged(b)', NEW i \in kept'[b]
               PROVE  Marked(b, i)' \/ Reaches(b, i)'
    BY DEF KeptIsReached
  <1>1. Unpurged(b) /\ KeptLine(b)
    BY LineKept
  <1>2. b \notin purged /\ b \notin purged'
    <2>1. ParentTyped /\ ParentTyped'
      BY <1>0 DEF Typed, LineTyped, ParentTyped
    <2>2. AllChainsOk /\ AllChainsOk'
      BY <2>1, ChainFacts, PTL
    <2>3. b \in Ancestors(b) /\ (b \in Ancestors(b))'
      BY <2>2 DEF AllChainsOk, ChainOk
    <2> QED BY <1>1, <2>3 DEF Unpurged
  <1>3. CASE Stamps(b)
    <2>1. i \in View(b)' /\ forkTs'[b] # None
      <3>1. clock' \in Clock
        BY <1>0, StampStep
      <3> QED BY <1>0, <1>3, <3>1 DEF Stamps
    <2>2. i \in Idents
      BY <2>1 DEF View
    <2>3. StampedReach'
      BY VisibleIsReached, PTL
    <2> QED BY <2>1, <2>2, <2>3 DEF StampedReach
  <1>4. ASSUME ~Stamps(b) PROVE i \in kept[b] /\ i \in Idents /\ forkTs'[b] = forkTs[b]
    BY <1>0, <1>2, <1>4, StampStep
  <1>5. clock' \in Clock /\ clock' >= clock
    BY <1>0, StampStep
  <1>6. SUFFICES ASSUME i \in kept[b], i \in Idents, forkTs'[b] = forkTs[b],
                        ~(/\ \A x \in Ids \ purged : \/ deleted'[x][i] = deleted[x][i]
                                                     \/ deleted'[x][i] = None /\ (x = b => Live(x, i)')
                                                     \/ deleted'[x][i] \in Clock /\ deleted'[x][i] >= clock
                          /\ \A x \in Ids \ purged : Live(x, i) => (Live(x, i)' \/ (~HasChildren(x) /\ Marked(x, i)')))
                 PROVE  FALSE
    BY <1>1, <1>3, <1>4, SparingStep
  <1>7. CASE Aside
    <2>1. \A x \in Ids \ purged :
              /\ deleted'[x][i] \in {deleted[x][i], None}
              /\ x \notin purged' => deleted'[x][i] = deleted[x][i]
              /\ \/ row'[x][i] = row[x][i]
                 \/ Marked(x, i) /\ ~HasChildren(x)
      BY <1>0, <1>6, <1>7, AsideStep
    <2>2. \A x \in Ids \ purged : deleted'[x][i] = deleted[x][i]
      <3>1. CASE \E t \in Actors : ClearKeys(t)
        <4>1. purged' = purged
          BY <3>1 DEF ClearKeys, history
        <4> QED BY <2>1, <4>1
      <3>2. CASE ~\E t \in Actors : ClearKeys(t)
        <4>1. deleted' = deleted
          BY <1>7, <3>2 DEF Aside, SyncWithGit, Request, CreateBranch, SwitchBranch, PurgeBranch, Continue, GetId,
             Register, SetParent, StampFork, SetName, SetId, DropParent, DropStamp, Finalize, BurySoftDeleted, Scan, vars, store
        <4> QED BY <4>1
      <3> QED BY <3>1, <3>2
    <2> QED BY <1>6, <2>1, <2>2 DEF Live, Marked
  <1>8. ASSUME NEW a \in Ids, NEW f \in Files, NEW found \in SUBSET Idents, Starting(a, f, found) PROVE FALSE
    <2>1. UNCHANGED <<deleted, row>>
      BY <1>0, <1>8, StartStep
    <2> QED BY <1>6, <2>1 DEF Live
  <1>9. ASSUME NEW j \in Idents, MarkDeleted(j) PROVE FALSE
    <2>1. row' = row
      BY <1>9, MarkFrame
    <2>2. \A x \in Ids : deleted'[x][i] = clock' \/ deleted'[x][i] = deleted[x][i]
      BY <1>0, <1>6, <1>9, MarkRows
    <2> QED BY <1>5, <1>6, <2>1, <2>2 DEF Live
  <1>10. CASE Bury
    <2>1. job # None /\ job.marked # None
      BY <1>10, BuryFrame
    <2>2. /\ deleted' = deleted
          /\ \A x \in Ids : row'[x][i] = row[x][i] \/ (x = job.branch /\ i = job.marked /\ ~HasChildren(x))
      BY <1>0, <1>6, <1>10, BuryRows
    <2> QED BY <1>0, <1>6, <2>1, <2>2 DEF Live, Marked, JobMarks
  <1>11. ASSUME NEW moved \in SUBSET Idents, FinishIngest(moved) PROVE FALSE
    <2> DEFINE put == job.found \cup moved
    <2>1. \A x \in Ids, j \in Idents : row'[x][j] = FinishedRow(put, x, j)
      BY <1>0, <1>11, FinishRows
    <2>2. \A x \in Ids, j \in Idents : deleted'[x][j] = FinishedMarker(put, clock', x, j)
      <3>1. PICK now \in Clock : /\ clock' = now
              /\ \A x \in Ids, j \in Idents : deleted'[x][j] = FinishedMarker(put, now, x, j)
        BY <1>0, <1>11, FinishRows
      <3> QED BY <3>1
    <2>3. job \in Job
      BY <1>0, <1>11, FinishRows, JobIsTyped
    <2> HIDE DEF put
    <2>4. ASSUME NEW x \in Ids, Live(x, i) PROVE Live(x, i)'
      <3>1. [file |-> job.file, live |-> TRUE] \in RowRecord
        BY <2>3 DEF Job, RowRecord
      <3>2. [file |-> job.file, live |-> TRUE] # None
        BY <3>1, BranchesAssumption DEF RowRecord
      <3> QED BY <1>6, <2>1, <2>4, <3>2 DEF FinishedRow, Live
    <2>5. ASSUME NEW x \in Ids
          PROVE  \/ deleted'[x][i] = deleted[x][i] \/ deleted'[x][i] = clock'
                 \/ deleted'[x][i] = None /\ Live(x, i)'
      <3>1. [file |-> job.file, live |-> TRUE] \in RowRecord
        BY <2>3 DEF Job, RowRecord
      <3>2. [file |-> job.file, live |-> TRUE] # None
        BY <3>1, BranchesAssumption DEF RowRecord
      <3> QED BY <1>6, <2>1, <2>2, <3>2 DEF FinishedRow, FinishedMarker, Live
    <2> QED BY <1>5, <1>6, <2>4, <2>5
  <1>12. ASSUME NEW a \in Ids, NEW j \in Idents, Collect(a, j) PROVE FALSE
    <2>1. deleted' = deleted /\ Tomb(a, j)
          /\ \A x \in Ids : row'[x][i] = IF x = a /\ i = j THEN None ELSE row[x][i]
      BY <1>0, <1>6, <1>12, CollectStep
    <2> QED BY <1>6, <2>1 DEF Live, Tomb
  <1> QED BY <1>0, <1>7, <1>8, <1>9, <1>10, <1>11, <1>12, StepIs

LEMMA BranchInit == Init => BranchInv
  <1> SUFFICES ASSUME Init PROVE BranchInv
    OBVIOUS
  <1>1. Typed
    BY TypedInit
  <1>2. \A i \in Idents : [file |-> Home[i], live |-> TRUE].live = TRUE
    OBVIOUS
  <1>3. \A b \in Ids, i \in Idents : ~Tomb(b, i)
    BY <1>2 DEF Init, Tomb
  <1>4. GoneIsMarked /\ TombIsMarked /\ JobMarks
    BY <1>3 DEF Init, GoneIsMarked, TombIsMarked, JobMarks
  <1>5. ForkIsStamped /\ KeptIsReached
    BY DEF Init, ForkIsStamped, KeptIsReached
  <1> QED BY <1>1, <1>4, <1>5 DEF BranchInv

(* The rows, the markers and the lines of the branches fit at every step:   *)
(* what was taken from a file is marked, so is every tombstone, and every   *)
(* fork reaches what it was forked with past deletions younger than itself. *)
THEOREM BranchInvariance == Spec => []BranchInv
  <1>1. Init => BranchInv
    BY BranchInit
  <1>2. BranchInv /\ [Next]_vars => BranchInv'
    <2> SUFFICES ASSUME BranchInv, [Next]_vars PROVE BranchInv'
      OBVIOUS
    <2>1. Typed'
      BY TypedStep DEF BranchInv
    <2>2. GoneIsMarked' /\ TombIsMarked' /\ JobMarks'
      BY GoneStep, TombStep, JobStep
    <2>3. ForkIsStamped' /\ KeptIsReached'
      BY <2>1, StampedStep, KeptStep
    <2> QED BY <2>1, <2>2, <2>3 DEF BranchInv
  <1> QED BY <1>1, <1>2, PTL DEF Spec

(* Every variable has its type.                                             *)
THEOREM BranchTypeCorrect == Spec => []TypeOK
  <1>1. BranchInv => TypeOK
    BY DEF BranchInv, Typed, NamesTyped, WorkTyped, LineTyped, RowsTyped, TypeOK
  <1> QED BY <1>1, BranchInvariance, PTL

(* What an ingest took off a file of a branch stays out of its sight until  *)
(* the branch has it again: the branch's own marker ends every search at    *)
(* its first step.  [do_tombstone, plant_inherited_file_tombstones]         *)
THEOREM DeletionsStay == Spec => []DeletedStaysDeleted
  <1>1. BranchInv => DeletedStaysDeleted
    <2> SUFFICES ASSUME BranchInv, NEW b \in Ids \ purged, NEW i \in gone[b], i \in View(b) PROVE FALSE
      BY DEF DeletedStaysDeleted
    <2>0. ParentTyped /\ i \in Idents
      BY DEF View, BranchInv, Typed, LineTyped, ParentTyped
    <2>1. Honored(b, b, i)
      BY DEF BranchInv, GoneIsMarked, Honored
    <2>2. PICK k \in 1..Len(Chain(b)) : Shown(b, Chain(b)[k], i) /\ \A j \in 1..(k - 1) : ~EndsAt(b, Chain(b)[j], i)
      BY <2>0, ViewIs DEF AllViews, Visible
    <2>3. Chain(b)[1] = b /\ Len(Chain(b)) \in Nat
      BY <2>0, ChainFacts DEF AllChainsOk, ChainOk
    <2>4. k # 1
      BY <2>1, <2>2, <2>3 DEF Shown
    <2>5. 1 \in 1..(k - 1)
      BY <2>3, <2>4
    <2> QED BY <2>1, <2>2, <2>3, <2>5 DEF EndsAt
  <1> QED BY <1>1, BranchInvariance, PTL

(* A fork that is not cut off by a purge sees what it saw when it was       *)
(* stamped, but for what it deletes itself and what an ancestor deletes in  *)
(* the millisecond of the fork.  [finalize_soft_deletes_without_children]   *)
THEOREM ForksKeepTheirView == Spec => []ForkKeepsItsView
  <1>1. BranchInv => ForkKeepsItsView
    <2> SUFFICES ASSUME BranchInv, NEW b \in Ids, kept[b] # {}, Unpurged(b), NEW i \in kept[b] \ View(b), ~Marked(b, i)
                 PROVE  \E a \in Ancestors(b) : deleted[a][i] = forkTs[b]
      BY DEF ForkKeepsItsView
    <2> DEFINE c == Chain(b)
    <2>0. /\ ParentTyped /\ i \in Idents /\ None \notin Clock /\ Clock \subseteq Nat
          /\ deleted \in [Ids -> [Idents -> Clock \cup {None}]] /\ forkTs \in [Ids -> Clock \cup {None}]
      BY MainIsAnId, BranchesAssumption DEF BranchInv, Typed, LineTyped, RowsTyped, Times, Clock, ParentTyped
    <2>1. /\ Len(c) \in Nat /\ b \in Ancestors(b)
          /\ \A k \in 1..Len(c) : c[k] \in Ids /\ c[k] \in Ancestors(b) /\ c[k] \notin purged
      <3>1. ChainOk(b)
        BY <2>0, ChainFacts DEF AllChainsOk
      <3> QED BY <3>1 DEF ChainOk, Unpurged
    <2>2. forkTs[b] \in Nat /\ forkTs[b] # None
      <3>1. b \notin purged
        BY <2>1 DEF Unpurged
      <3>2. forkTs[b] # None
        BY <3>1 DEF BranchInv, ForkIsStamped
      <3> QED BY <2>0, <3>2
    <2>3. PICK k \in 1..Len(c) : Live(c[k], i) /\ \A j \in 1..k : Spared(b, c[j], i)
      BY DEF BranchInv, KeptIsReached, Reaches
    <2> DEFINE ends == {j \in 1..Len(c) : EndsAt(b, c[j], i)}
    <2>4. k \in ends /\ ends \subseteq Nat
      BY <2>1, <2>3 DEF EndsAt
    <2>5. PICK m \in ends : \A j \in ends : m <= j
      <3> HIDE DEF ends
      <3> QED BY <2>4, LeastNatural
    <2>6. m \in 1..k /\ \A j \in 1..(m - 1) : ~EndsAt(b, c[j], i)
      <3>1. m \in 1..Len(c) /\ m <= k
        BY <2>4, <2>5
      <3>2. \A j \in 1..(m - 1) : j \in 1..Len(c) /\ ~(m <= j)
        BY <2>1, <3>1
      <3> QED BY <2>1, <2>5, <3>1, <3>2
    <2>7. ~Shown(b, c[m], i) /\ EndsAt(b, c[m], i) /\ Spared(b, c[m], i) /\ m \in 1..Len(c)
      <3>1. ~Visible(b, i)
        BY <2>0, ViewIs DEF AllViews
      <3> QED BY <2>3, <2>5, <2>6, <3>1 DEF Visible
    <2>8. PICK x : x = c[m]
      OBVIOUS
    <2>9. x \in Ids /\ x \in Ancestors(b) /\ x \notin purged /\ ~Shown(b, x, i) /\ EndsAt(b, x, i) /\ Spared(b, x, i)
      BY <2>1, <2>7, <2>8
    <2>10. Honored(b, x, i)
      BY <2>0, <2>9 DEF BranchInv, TombIsMarked, Shown, EndsAt
    <2>11. deleted[x][i] \in Nat /\ deleted[x][i] <= forkTs[b] /\ deleted[x][i] >= forkTs[b]
      BY <2>0, <2>2, <2>9, <2>10 DEF Honored, Spared, Marked
    <2> QED BY <2>2, <2>9, <2>11
  <1> QED BY <1>1, BranchInvariance, PTL

---------------------------------------------------------------------------
(* Who changes what a branch sees                                           *)

LEMMA ViewStays ==
  ASSUME Typed, Typed', parent' = parent, NEW b \in Ids,
         \A x \in Ancestors(b), i \in Idents : /\ Shown(b, x, i)' <=> Shown(b, x, i)
                                               /\ EndsAt(b, x, i)' <=> EndsAt(b, x, i)
  PROVE  View(b)' = View(b)
  <1>0. ParentTyped /\ ParentTyped' /\ LineTyped
    BY DEF Typed, LineTyped, ParentTyped
  <1>1. PICK c : c = Chain(b)
    OBVIOUS
  <1>2. PICK d : d = Chain(b)'
    OBVIOUS
  <1>3. Len(d) = Len(c) /\ \A k \in 1..Len(c) : d[k] = c[k]
    BY <1>0, <1>1, <1>2, LineStays DEF SameLine
  <1>4. Len(c) \in Nat /\ \A k \in 1..Len(c) : c[k] \in Ancestors(b)
    BY <1>0, <1>1, ChainFacts DEF AllChainsOk, ChainOk
  <1>5. ASSUME NEW i \in Idents PROVE Visible(b, i)' <=> Visible(b, i)
    <2>1. \A k \in 1..Len(c) : /\ Shown(b, d[k], i)' <=> Shown(b, c[k], i)
                               /\ EndsAt(b, d[k], i)' <=> EndsAt(b, c[k], i)
      <3> SUFFICES ASSUME NEW k \in 1..Len(c)
                   PROVE  /\ Shown(b, d[k], i)' <=> Shown(b, c[k], i)
                          /\ EndsAt(b, d[k], i)' <=> EndsAt(b, c[k], i)
        OBVIOUS
      <3>1. PICK x \in Ancestors(b) : x = c[k] /\ x = d[k]
        BY <1>3, <1>4
      <3>2. (Shown(b, x, i)' <=> Shown(b, x, i)) /\ (EndsAt(b, x, i)' <=> EndsAt(b, x, i))
        OBVIOUS
      <3>3. (Shown(b, x, i)' <=> Shown(b, d[k], i)') /\ (EndsAt(b, x, i)' <=> EndsAt(b, d[k], i)')
        BY <3>1
      <3> QED BY <3>1, <3>2, <3>3
    <2>2. \A k \in 1..Len(c) : \A j \in 1..(k - 1) : j \in 1..Len(c)
      BY <1>4
    <2>3. Visible(b, i)' <=> \E k \in 1..Len(d) :
                              Shown(b, d[k], i)' /\ \A j \in 1..(k - 1) : ~EndsAt(b, d[j], i)'
      BY <1>2 DEF Visible
    <2>4. Visible(b, i) <=> \E k \in 1..Len(c) : Shown(b, c[k], i) /\ \A j \in 1..(k - 1) : ~EndsAt(b, c[j], i)
      BY <1>1 DEF Visible
    <2> QED BY <1>3, <2>1, <2>2, <2>3, <2>4
  <1>6. \A i \in Idents : i \in View(b) <=> Visible(b, i)
    BY <1>0, ViewIs DEF AllViews
  <1>7. AllViews'
    BY <1>0, ViewIs, PTL
  <1>8. View(b) \subseteq Idents /\ View(b)' \subseteq Idents
    BY DEF View
  <1>9. \A i \in Idents : (i \in View(b))' <=> Visible(b, i)'
    BY <1>7 DEF AllViews
  <1> QED BY <1>5, <1>6, <1>8, <1>9

LEMMA ViewStep ==
  ASSUME BranchInv, Typed', [Next]_vars, <<row, deleted>>' # <<row, deleted>>, NEW b \in Ids, Unpurged(b)
  PROVE  View(b)' = View(b) \/ (job # None /\ job' # job /\ job.branch \in Ancestors(b))
  <1>0. Typed /\ TombIsMarked /\ ChainOk(b) /\ Ancestors(b) \subseteq Ids
        /\ \A x \in Ancestors(b) : x \in Ids \ purged
    <2>1. ParentTyped
      BY DEF BranchInv, Typed, LineTyped, ParentTyped
    <2>2. ChainOk(b)
      BY <2>1, ChainFacts DEF AllChainsOk
    <2> QED BY <2>2 DEF BranchInv, Unpurged, ChainOk
  <1>1. CASE Aside
    <2>1. UNCHANGED <<parent, forkTs, purged>>
      BY <1>1 DEF Aside, SyncWithGit, Request, CreateBranch, SwitchBranch, PurgeBranch, Continue, GetId,
             Register, SetParent, StampFork, SetName, SetId, ClearKeys, DropParent, DropStamp, Finalize, BurySoftDeleted, Scan, vars, store,
             history
    <2>2. \A x \in Ids, i \in Idents :
              /\ x \notin purged' => deleted'[x][i] = deleted[x][i]
              /\ \/ row'[x][i] = row[x][i]
                 \/ /\ Live(x, i) /\ Marked(x, i) /\ ~HasChildren(x)
                    /\ row'[x][i] # None /\ row'[x][i].live = FALSE
      BY <1>0, <1>1, AsideStep
    <2>3. ASSUME NEW x \in Ancestors(b), x # b PROVE HasChildren(x)
      <3>1. PICK k \in 1..Len(Chain(b)) : Chain(b)[k] = x
        BY <1>0 DEF ChainOk
      <3>2. k \in 2..Len(Chain(b)) /\ k - 1 \in 1..Len(Chain(b))
        <4>1. Len(Chain(b)) \in Nat /\ k # 1
          BY <1>0, <2>3, <3>1 DEF ChainOk
        <4> QED BY <3>1, <4>1
      <3>3. parent[Chain(b)[k - 1]] = x /\ Chain(b)[k - 1] \in Ids
        BY <1>0, <3>1, <3>2 DEF ChainOk
      <3> QED BY <3>3 DEF HasChildren
    <2>4. ASSUME NEW x \in Ancestors(b), NEW i \in Idents
          PROVE  (Shown(b, x, i)' <=> Shown(b, x, i)) /\ (EndsAt(b, x, i)' <=> EndsAt(b, x, i))
      <3>1. x \in Ids /\ x \notin purged' /\ deleted'[x][i] = deleted[x][i]
        BY <1>0, <2>1, <2>2
      <3>2. CASE row'[x][i] = row[x][i]
        BY <2>1, <3>1, <3>2 DEF Shown, EndsAt, Honored, Marked, Live, Tomb
      <3>3. CASE row'[x][i] # row[x][i]
        <4>1. Marked(x, i) /\ ~HasChildren(x)
          BY <2>2, <3>1, <3>3
        <4>2. x = b
          BY <2>3, <4>1
        <4>3. Honored(b, x, i) /\ Honored(b, x, i)'
          BY <3>1, <4>1, <4>2 DEF Honored, Marked
        <4> QED BY <4>3 DEF Shown, EndsAt
      <3> QED BY <3>2, <3>3
    <2> QED BY <1>0, <2>1, <2>4, ViewStays
  <1>2. CASE \E a \in Ids, f \in Files : \E found \in SUBSET Idents : Starting(a, f, found)
    <2>1. <<row, deleted>>' = <<row, deleted>>
      BY <1>0, <1>2, StartStep
    <2> QED BY <2>1
  <1>3. CASE Bury \/ (\E i \in Idents : MarkDeleted(i)) \/ (\E moved \in SUBSET Idents : FinishIngest(moved))
    <2>1. UNCHANGED <<parent, forkTs>> /\ job # None
      BY <1>3 DEF MarkDeleted, Bury, FinishIngest, store
    <2>2. job' # job
      <3>1. CASE Bury
        <4>1. job'.marked = None /\ job.marked # None
          BY <1>0, <3>1, BuryRows, BuryFrame
        <4> QED BY <4>1
      <3>2. ASSUME NEW i \in Idents, MarkDeleted(i) PROVE job' # job
        <4>1. job'.marked = i /\ job.marked = None /\ i # None
          BY <1>0, <3>2, MarkRows, MarkFrame, BranchesAssumption
        <4> QED BY <4>1
      <3>3. ASSUME NEW moved \in SUBSET Idents, FinishIngest(moved) PROVE job' # job
        BY <2>1, <3>3 DEF FinishIngest
      <3> QED BY <1>3, <3>1, <3>2, <3>3
    <2>3. \A x \in Ids, i \in Idents :
            x # job.branch => row'[x][i] = row[x][i] /\ deleted'[x][i] = deleted[x][i]
      <3>1. CASE Bury
        BY <1>0, <3>1, BuryRows
      <3>2. ASSUME NEW j \in Idents, MarkDeleted(j)
            PROVE  row' = row /\ \A x \in Ids, i \in Idents : x # job.branch => deleted'[x][i] = deleted[x][i]
        BY <1>0, <3>2, MarkRows, MarkFrame
      <3>3. ASSUME NEW moved \in SUBSET Idents, FinishIngest(moved)
            PROVE  \A x \in Ids, i \in Idents :
                      x # job.branch => row'[x][i] = row[x][i] /\ deleted'[x][i] = deleted[x][i]
        BY <1>0, <3>3, FinishRows DEF FinishedRow, FinishedMarker
      <3> QED BY <1>3, <3>1, <3>2, <3>3
    <2>4. ASSUME job.branch \notin Ancestors(b) PROVE View(b)' = View(b)
      <3>1. ASSUME NEW x \in Ancestors(b), NEW i \in Idents
            PROVE  (Shown(b, x, i)' <=> Shown(b, x, i)) /\ (EndsAt(b, x, i)' <=> EndsAt(b, x, i))
        <4>1. row'[x][i] = row[x][i] /\ deleted'[x][i] = deleted[x][i]
          BY <1>0, <2>3, <2>4
        <4> QED BY <2>1, <4>1 DEF Shown, EndsAt, Honored, Marked, Live, Tomb
      <3> QED BY <1>0, <2>1, <3>1, ViewStays
    <2> QED BY <2>1, <2>2, <2>4
  <1>4. ASSUME NEW a \in Ids, NEW j \in Idents, Collect(a, j) PROVE View(b)' = View(b)
    <2>1. /\ UNCHANGED <<parent, forkTs, deleted>> /\ Tomb(a, j)
          /\ \A x \in Ids, i \in Idents : row'[x][i] = IF x = a /\ i = j THEN None ELSE row[x][i]
      BY <1>0, <1>4, CollectStep
    <2>2. ASSUME NEW x \in Ancestors(b), NEW i \in Idents
          PROVE  (Shown(b, x, i)' <=> Shown(b, x, i)) /\ (EndsAt(b, x, i)' <=> EndsAt(b, x, i))
      <3>1. x \in Ids /\ x \notin purged /\ (Honored(b, x, i)' <=> Honored(b, x, i))
        BY <1>0, <2>1 DEF Honored, Marked
      <3>2. CASE x = a /\ i = j
        <4>1. Marked(x, i) /\ ~Live(x, i)
          BY <1>0, <2>1, <3>1, <3>2 DEF TombIsMarked, Tomb, Live
        <4>2. ~Live(x, i)' /\ ~Tomb(x, i)'
          BY <2>1, <3>1, <3>2 DEF Live, Tomb
        <4> QED BY <3>1, <4>1, <4>2 DEF Shown, EndsAt
      <3>3. CASE ~(x = a /\ i = j)
        <4>1. row'[x][i] = row[x][i] /\ deleted' = deleted
          BY <2>1, <3>1, <3>3
        <4> QED BY <3>1, <4>1 DEF Shown, EndsAt, Marked, Live, Tomb
      <3> QED BY <3>2, <3>3
    <2> QED BY <1>0, <2>1, <2>2, ViewStays
  <1> QED BY <1>0, <1>1, <1>2, <1>3, <1>4, StepIs

(* What a branch sees changes only by an ingest of a branch of its line, or *)
(* when a branch of its line was purged: the collector of tombstones and    *)
(* the burying of soft-deleted rows change nobody's view.                   *)
(* [purge_branch, tombstone_gc.rs delete_revision]                          *)
THEOREM AncestorsAloneChangeAView == Spec => OnlyAncestorsChangeAView
  <1>1. BranchInv /\ BranchInv' /\ [Next]_vars
          => [<<row, deleted>>' # <<row, deleted>> =>
                \A b \in Ids : View(b)' # View(b) =>
                  \/ job # None /\ job' # job /\ job.branch \in Ancestors(b)
                  \/ ~Unpurged(b)]_vars
    BY ViewStep DEF BranchInv
  <1> QED BY <1>1, BranchInvariance, PTL DEF Spec, OnlyAncestorsChangeAView
=============================================================================
