-------------------------- MODULE SpeculativePatch --------------------------
(* The write path of agents: write_file and apply_patch open a patch on a   *)
(* file, write it and index it as Speculative; confirm_patch, revert_patch, *)
(* the file-system sync and its sweep of old patches end it.                *)
(*                                                                          *)
(* Every session has one request at a time; the sync thread handles the     *)
(* events of changed files beside them.  Patches, leases, counts, events    *)
(* and pre-write snapshots are in memory; files, confirm tokens, rows and   *)
(* the merge lock are durable.  An ingest reads the files of its batch,     *)
(* reads each again when its turn comes, and commits it later; promoting,   *)
(* reverting and marking choose rows and change them later.  The inside of  *)
(* a mutation is in WriteCoordinator.                                       *)
EXTENDS Naturals, FiniteSets, FiniteSetsExt

CONSTANTS Sessions,        \* sessions of agents
          Sync,            \* the thread cis-fs-sync
          Files,           \* source files of the repository
          None,            \* absence of a session, a snapshot or a row
          MaxId,           \* bound on patch ids
          Bounds           \* how many writes and other requests of each session, flushes of
                           \* the sync thread, edits by other programs, faults (failed
                           \* operations and crashes) and merges a behaviour may have

(* A file has two names: requests, patches, leases and the tracker use the  *)
(* absolute path (resolve_repo_path), rows and events the relative one.     *)
PathForms == {"abs", "rel"} \X Files
Abs(f) == <<"abs", f>>
Rel(f) == <<"rel", f>>

Record == [session : Sessions, path : PathForms]

ASSUME SpeculativePatchAssumption ==
  /\ IsFiniteSet(Sessions) /\ Sync \notin Sessions
  /\ None \notin Sessions \cup Files \cup {Sync} \cup Record
  /\ MaxId \in Nat
  /\ Bounds \subseteq [writes : [Sessions -> Nat], requests : [Sessions -> Nat],
                      flushes : Nat, edits : Nat, faults : Nat, merges : Nat]

ASSUME RowAssumption == None \notin [content : Nat, status : {"Active", "Speculative", "Tombstone"}]

VARIABLES
  file,      \* content of each file: 0 as found, a patch id, Edited or Absent
  row,       \* the rows of each file: of its stable id and of content-addressed ids
  tokens,    \* patch ids with a .cis_confirm_<id> file
  locked,    \* a merge holds the lock of the branch
  patch,     \* PatchRecord of each open patch
  snap,      \* pre-write content of each patch, None when there is none
  lease,     \* session that leases a path
  refs,      \* SpeculativePathTracker: how often a path is registered
  nextId,    \* next patch id
  events,    \* files with an event in the debouncer
  call,      \* what each session's request and the sync thread are doing
  seen,      \* what a thread has read of files and rows and is going to use
  astray,    \* files whose rows went wrong in a known way; read by the properties only
  left,      \* what is left of the bounds
  failed     \* a fault has happened; read by the properties only

disk == <<file, row, tokens>>
memory == <<patch, snap, lease, refs, nextId>>
work == <<seen, astray>>
vars == <<disk, locked, work, memory, events, call, left, failed>>

Threads == Sessions \cup {Sync}
Ids == 1..MaxId
Edited == MaxId + 1
Contents == 0..Edited
Absent == Edited + 1   \* no file, or an empty one, which a snapshot does not tell from none
Stable == Absent + 1   \* stands for the stable id among the ids of contents
Slots == {Stable} \cup Contents
Strays == {"overtaken", "revived", "skipped"}

(* A file has one symbol, in every version, whose body tells versions apart;*)
(* an edit in place puts it at an id made from the content.                 *)
Row == [content : Contents, status : {"Active", "Speculative", "Tombstone"}]
NothingSeen == [todo |-> {}, read |-> [f \in Files |-> Absent], at |-> None,
                beaten |-> {}, rids |-> {}]
Open == {i \in Ids : patch[i] # None}
On(f) == {i \in Open : patch[i].path = Abs(f)}
Idle == [op |-> "none", pc |-> "idle", f |-> None, id |-> 0, owner |-> None,
         ids |-> {}, files |-> {}, batch |-> {}]

TypeOK ==
  /\ file \in [Files -> Contents \cup {Absent}] /\ row \in [Files -> [Slots -> Row \cup {None}]]
  /\ \A t \in Threads :
       seen[t] \in [todo : SUBSET Files, read : [Files -> Contents \cup {Absent}],
                   at : Files \cup {None}, beaten : SUBSET Files, rids : SUBSET Slots]
  /\ astray \in [Files -> SUBSET Strays]
  /\ tokens \subseteq Ids /\ locked \in BOOLEAN
  /\ \A i \in Ids : patch[i] # None => patch[i] \in Record
  /\ \A i \in Ids : snap[i] # None => snap[i] \in [f : Files, content : Contents \cup {Absent}]
  /\ lease \in [PathForms -> Sessions \cup {None}]
  /\ refs \in [PathForms -> Nat] /\ nextId \in 1..(MaxId + 1)
  /\ events \subseteq Files
  /\ \A t \in Threads :
       /\ call[t].op \in {"none", "write", "confirm", "revert", "reindex", "flush", "sweep"}
       /\ call[t].pc \in {"idle", "next", "promote", "promoted", "clear", "wal_promote",
                          "set_active", "check", "restore", "remove", "removed", "clear_reverted", "wal_revert",
                          "set_tombstone", "reindex_reverted", "open", "capture", "token", "write",
                          "ingest", "files", "commit", "mark", "set_speculative", "probe"}
       /\ call[t].ids \subseteq Ids /\ call[t].files \cup call[t].batch \subseteq Files

Init ==
  /\ file \in [Files -> {0, Absent}]
  /\ row = [f \in Files |-> [s \in Slots |->
              IF s = Stable /\ file[f] = 0 THEN [content |-> 0, status |-> "Active"] ELSE None]]
  /\ seen = [t \in Threads |-> NothingSeen] /\ astray = [f \in Files |-> {}]
  /\ tokens = {} /\ locked = FALSE
  /\ patch = [i \in Ids |-> None] /\ snap = [i \in Ids |-> None]
  /\ lease = [p \in PathForms |-> None] /\ refs = [p \in PathForms |-> 0] /\ nextId = 1
  /\ events = {} /\ call = [t \in Threads |-> Idle] /\ left \in Bounds /\ failed = FALSE

---------------------------------------------------------------------------
(* Helpers *)

At(t, pc) == call[t].pc = pc
Goto(t, pc) == call' = [call EXCEPT ![t].pc = pc]
Spend(what) == left[what] > 0 /\ left' = [left EXCEPT ![what] = @ - 1]
SpendOf(s, what) == left[what][s] > 0 /\ left' = [left EXCEPT ![what][s] = @ - 1]
Fault == Spend("faults") /\ failed' = TRUE
NoFault == UNCHANGED <<left, failed>>

(* Where a thread goes when a patch it was ending has been ended, or could  *)
(* not be: a write to its next step, the sync thread to the next patch.     *)
Continue(t) ==
  call' = [call EXCEPT ![t] = IF @.op \in {"write", "flush", "sweep"}
                                THEN [@ EXCEPT !.pc = "next"] ELSE Idle]

(* Changing a file makes an event; the watcher is taken to be reliable.     *)
Put(f, content) == file' = [file EXCEPT ![f] = content] /\ events' = events \cup {f}

(* The live rows of a file, of its rows fr, and the primary one: Active     *)
(* before Speculative; which of several depends on their order.             *)
WithStatus(fr, status) == {s \in Slots : fr[s] # None /\ fr[s].status = status}
Live(fr) == WithStatus(fr, "Active") \cup WithStatus(fr, "Speculative")
Primaries(fr) == IF WithStatus(fr, "Active") # {} THEN WithStatus(fr, "Active") ELSE Live(fr)

ActiveRow(content) == [content |-> content, status |-> "Active"]

(* What the rows of a file may be after content was ingested: no live row,  *)
(* the stable id is taken; one with this content, it is Active again; one   *)
(* with another, it is retired and the id of the content taken.             *)
Upserted(fr, content) ==
  IF Live(fr) = {} THEN {[fr EXCEPT ![Stable] = ActiveRow(content)]}
  ELSE {IF fr[p].content = content THEN [fr EXCEPT ![p] = ActiveRow(content)]
        ELSE [[fr EXCEPT ![p].status = "Tombstone"] EXCEPT ![content] = ActiveRow(content)] :
          p \in Primaries(fr)}

(* The rows of a file show what it holds: one is live, and has its content. *)
Show(fr, content) == \E s \in Slots : Live(fr) = {s} /\ fr[s].content = content

Stray(f, how) == astray' = [astray EXCEPT ![f] = @ \cup {how}]

(* unregister and release, after the record is gone.                        *)
EndLease(path, session) ==
  /\ refs' = [refs EXCEPT ![path] = IF @ = 0 THEN 0 ELSE @ - 1]
  /\ lease' = [lease EXCEPT ![path] = IF @ = session THEN None ELSE @]

(* newer_open_patch_on_paths                                                *)
NewerOpen(i) == patch[i] # None /\ \E j \in Open : j > i /\ patch[j].path = patch[i].path

(* pending_patch_for_path: the newest open patch on a file, or 0.           *)
Pending(f) == IF On(f) = {} THEN 0 ELSE Max(On(f))

---------------------------------------------------------------------------
(* Ingest: apply_index_events_with_config, and the status mutations         *)

(* The pre-parse loop reads the files of the batch.                         *)
ReadFiles(t, fs) ==
  seen' = [seen EXCEPT ![t] =
             [NothingSeen EXCEPT !.todo = fs,
                                 !.read = [f \in Files |-> IF f \in fs THEN file[f] ELSE Absent]]]

(* The file is done with: the next one's turn, or what comes after the      *)
(* ingest.  The sync thread has no batch left once it has ingested it.      *)
Done(t, f) ==
  /\ seen' = [u \in Threads |->
       IF u = t THEN IF seen[t].todo = {f} THEN NothingSeen
                     ELSE [seen[t] EXCEPT !.todo = @ \ {f}, !.at = None]
       ELSE IF At(t, "commit") /\ f \in seen[u].todo /\ seen[u].read[f] # Absent
         THEN [seen[u] EXCEPT !.beaten = @ \cup {f}] ELSE seen[u]]
  /\ IF seen[t].todo # {f} THEN Goto(t, "files")
     ELSE CASE call[t].op = "write" -> Goto(t, "mark")
            [] call[t].op = "reindex" -> Goto(t, "probe")
            [] call[t].op = "flush" /\ call[t].batch = {} -> call' = [call EXCEPT ![t] = Idle]
            [] OTHER -> Continue(t)

(* The turn of a file: while a merge has the branch its event goes to a     *)
(* queue that is thrown away; the file is read again, and ends there if it  *)
(* is missing.  What is indexed is what was read first, if anything was.    *)
SkipFile(t) ==
  /\ At(t, "files")
  /\ \E f \in seen[t].todo :
       /\ locked \/ file[f] = Absent
       /\ Done(t, f) /\ IF locked THEN Stray(f, "skipped") ELSE UNCHANGED astray
  /\ UNCHANGED <<disk, locked, memory, events, left, failed>>

ReadAgain(t) ==
  /\ At(t, "files") /\ Goto(t, "commit")
  /\ \E f \in seen[t].todo :
       /\ ~locked /\ file[f] # Absent
       /\ seen' = [seen EXCEPT ![t].at = f, ![t].read[f] = IF @ = Absent THEN file[f] ELSE @]
  /\ UNCHANGED <<disk, locked, astray, memory, events, left, failed>>

(* commit_graph.  The other threads that have read the file and not         *)
(* committed it are beaten (Done); one that then commits what the file no   *)
(* longer holds has overtaken the later reading.                            *)
CommitFile(t) ==
  /\ At(t, "commit")
  /\ LET f == seen[t].at IN
       \E fr \in Upserted(row[f], seen[t].read[f]) :
         /\ row' = [row EXCEPT ![f] = fr] /\ Done(t, f)
         /\ astray' = [astray EXCEPT ![f] = IF Show(fr, file[f]) THEN {}
                                            ELSE IF f \in seen[t].beaten THEN @ \cup {"overtaken"}
                                            ELSE @]
  /\ UNCHANGED <<file, tokens, locked, memory, events, left, failed>>

IngestFails(t) ==
  /\ At(t, "commit") /\ Fault /\ seen' = [seen EXCEPT ![t] = NothingSeen]
  /\ IF call[t].op = "write" \/ (call[t].op = "flush" /\ call[t].batch = {})
       THEN call' = [call EXCEPT ![t] = Idle] ELSE Continue(t)
  /\ UNCHANGED <<disk, locked, astray, memory, events>>

Ingesting(t) == SkipFile(t) \/ ReadAgain(t) \/ CommitFile(t) \/ IngestFails(t)

(* The rows a mutation is going to change are chosen under the read lock,   *)
(* and changed later without a look at the status they have then.           *)
ChooseRows(t, status) ==
  seen' = [seen EXCEPT ![t].rids = WithStatus(row[call[t].f], status)]

SetRows(t, status) ==
  LET f == call[t].f
      chosen == {s \in seen[t].rids : row[f][s] # None}
  IN  /\ row' = [row EXCEPT ![f] = [s \in Slots |->
                   IF s \in chosen THEN [row[f][s] EXCEPT !.status = status] ELSE row[f][s]]]
      /\ IF status # "Tombstone" /\ chosen \cap WithStatus(row[f], "Tombstone") # {}
           THEN Stray(f, "revived") ELSE UNCHANGED astray
      /\ seen' = [seen EXCEPT ![t] = NothingSeen]

---------------------------------------------------------------------------
Opened == {"capture", "token", "write", "ingest", "files", "commit", "mark", "set_speculative",
           "removed"}

(* Requests.  A session may name any patch, also one that has ended.        *)

Begin(t, op, pc, f, i, ids) ==
  /\ At(t, "idle") /\ SpendOf(t, IF op = "write" THEN "writes" ELSE "requests")
  /\ call' = [call EXCEPT ![t] = [Idle EXCEPT !.op = op, !.pc = pc, !.f = f, !.id = i, !.ids = ids]]
  /\ UNCHANGED <<disk, locked, work, memory, events, failed>>

(* write_file and apply_patch: the open patches of the session on the file  *)
(* are confirmed first.                                                     *)
WriteFile(s, f) ==
  /\ nextId + Cardinality({t \in Sessions : call[t].op = "write" /\ call[t].pc \notin Opened}) <= MaxId
  /\ Begin(s, "write", "next", f, 0, {i \in On(f) : patch[i].session = s})
ConfirmPatch(s, i) == i < nextId /\ Begin(s, "confirm", "promote", None, i, {})
RevertPatch(s, i) == i < nextId /\ Begin(s, "revert", "check", None, i, {})
ReindexPaths(s, f) == Begin(s, "reindex", "ingest", f, 0, {})

(* auto_confirm_older_patches_on_path, in the order of the ids.             *)
NextOlder(t) ==
  /\ At(t, "next") /\ call[t].op = "write"
  /\ LET older == call[t].ids IN
       call' = [call EXCEPT ![t] =
                  IF older = {} THEN [@ EXCEPT !.pc = "open"]
                  ELSE [@ EXCEPT !.id = Min(older), !.ids = older \ {Min(older)}, !.pc = "promote"]]
  /\ UNCHANGED <<disk, locked, work, memory, events, left, failed>>

(* apply_speculative, under merge_spec_gate: refused while a merge has the  *)
(* branch or another session the path.                                      *)
OpenPatch(t) ==
  /\ At(t, "open")
  /\ LET path == Abs(call[t].f) IN
       IF locked \/ lease[path] \notin {None, t}
         THEN call' = [call EXCEPT ![t] = Idle] /\ UNCHANGED memory
         ELSE /\ lease' = [lease EXCEPT ![path] = t]
              /\ refs' = [refs EXCEPT ![path] = @ + 1]
              /\ patch' = [patch EXCEPT ![nextId] = [session |-> t, path |-> path]]
              /\ nextId' = nextId + 1 /\ UNCHANGED snap
              /\ call' = [call EXCEPT ![t].id = nextId, ![t].pc = "capture"]
  /\ UNCHANGED <<disk, locked, work, events, left, failed>>

CapturePreWrite(t) ==
  /\ At(t, "capture") /\ Goto(t, "token")
  /\ snap' = [snap EXCEPT ![call[t].id] = [f |-> call[t].f, content |-> file[call[t].f]]]
  /\ UNCHANGED <<disk, locked, work, patch, lease, refs, nextId, events, left, failed>>

(* The token is on disk before the content.                                 *)
WriteToken(t) ==
  /\ At(t, "token") /\ Goto(t, "write") /\ tokens' = tokens \cup {call[t].id}
  /\ UNCHANGED <<file, row, locked, work, memory, events, left, failed>>

WriteContent(t) ==
  /\ At(t, "write") /\ Goto(t, "ingest") /\ Put(call[t].f, call[t].id)
  /\ UNCHANGED <<row, tokens, locked, work, memory, left, failed>>

(* The snapshot, the token, the diff or the write fails: once the snapshot  *)
(* is made the file is put back, the token of a failed write cleared, and   *)
(* the record removed if it is still there                                  *)
(* (rollback_failed_speculative_write).                                     *)
WriteFails(t) ==
  LET i == call[t].id IN
  /\ call[t].pc \in {"capture", "token", "write"} /\ Fault
  /\ LET pre == IF snap[i] = None THEN file[call[t].f] ELSE snap[i].content
     IN IF At(t, "capture") THEN UNCHANGED <<file, events>> ELSE Put(call[t].f, pre)
  /\ tokens' = IF call[t].pc = "write" THEN tokens \ {i} ELSE tokens
  /\ snap' = [snap EXCEPT ![i] = None] /\ patch' = [patch EXCEPT ![i] = None]
  /\ call' = [call EXCEPT ![t] = IF i \in Open THEN [@ EXCEPT !.pc = "removed", !.owner = t] ELSE Idle]
  /\ UNCHANGED <<row, locked, work, lease, refs, nextId>>

(* speculative_reindex_after_write: ingest puts Active rows, a second graph *)
(* write makes them Speculative.  reindex_paths only ingests.               *)
Ingest(t) ==
  /\ At(t, "ingest") /\ Goto(t, "files") /\ ReadFiles(t, {call[t].f})
  /\ UNCHANGED <<disk, locked, astray, memory, events, left, failed>>

MarkSpeculative(t) ==
  /\ At(t, "mark") /\ ChooseRows(t, "Active") /\ Goto(t, "set_speculative")
  /\ UNCHANGED <<disk, locked, astray, memory, events, left, failed>>

SetSpeculative(t) ==
  /\ At(t, "set_speculative") /\ call' = [call EXCEPT ![t] = Idle]
  /\ \/ SetRows(t, "Speculative") /\ NoFault
     \/ Fault /\ seen' = [seen EXCEPT ![t] = NothingSeen] /\ UNCHANGED <<row, astray>>
  /\ UNCHANGED <<file, tokens, locked, memory, events>>

(* confirm_pending_patches_for_paths: the newest patch, if it has a token.  *)
ConfirmPending(t) ==
  /\ At(t, "probe")
  /\ LET i == Pending(call[t].f) IN
       call' = [call EXCEPT ![t] = IF i \in tokens
                                     THEN [@ EXCEPT !.op = "confirm", !.id = i, !.owner = patch[i].session, !.pc = "promote"]
                                     ELSE Idle]
  /\ UNCHANGED <<disk, locked, work, memory, events, left, failed>>

---------------------------------------------------------------------------
(* Confirming: confirm_patch, and confirm_patch_internal for the write, the *)
(* sync thread and reindex_paths, which act for the session of the patch    *)

(* promote: the record goes first.                                          *)
PromoteRecord(t) ==
  /\ At(t, "promote")
  /\ LET i == call[t].id
         mine == call[t].op = "confirm" /\ call[t].owner = None => patch[i].session = t
     IN IF patch[i] # None /\ mine
          THEN /\ patch' = [patch EXCEPT ![i] = None]
               /\ call' = [call EXCEPT ![t].owner = patch[i].session, ![t].f = patch[i].path[2],
                                       ![t].pc = "promoted"]
          ELSE Continue(t) /\ UNCHANGED patch
  /\ UNCHANGED <<disk, locked, work, snap, lease, refs, nextId, events, left, failed>>

EndPromoted(t) ==
  /\ At(t, "promoted") /\ EndLease(Abs(call[t].f), call[t].owner) /\ Goto(t, "clear")
  /\ UNCHANGED <<disk, locked, work, patch, snap, nextId, events, left, failed>>

(* clear_token_with_retry; a token that cannot be removed is only logged.   *)
ClearToken(t, from, to) ==
  /\ At(t, from) /\ Goto(t, to)
  /\ \/ tokens' = tokens \ {call[t].id} /\ NoFault
     \/ Fault /\ UNCHANGED tokens
  /\ UNCHANGED <<file, row, locked, work, memory, events>>

(* wal_promote_speculative: the Speculative rows of the path.  On an error, *)
(* before the rows are changed or after, the snapshot stays.                *)
WalPromote(t) ==
  /\ At(t, "wal_promote") /\ ChooseRows(t, "Speculative") /\ Goto(t, "set_active")
  /\ UNCHANGED <<disk, locked, astray, memory, events, left, failed>>

SetActive(t) ==
  /\ At(t, "set_active") /\ Continue(t)
  /\ \/ /\ SetRows(t, "Active")
        /\ \/ snap' = [snap EXCEPT ![call[t].id] = None] /\ NoFault
           \/ Fault /\ UNCHANGED snap
     \/ Fault /\ seen' = [seen EXCEPT ![t] = NothingSeen] /\ UNCHANGED <<row, astray, snap>>
  /\ UNCHANGED <<file, tokens, locked, patch, lease, refs, nextId, events>>

---------------------------------------------------------------------------
(* Reverting: revert_patch, and revert_patch_internal for the sync thread   *)

(* Mutant: the sync thread reverts under its own name.                      *)
CheckNewerOwn(t) ==
  /\ At(t, "check")
  /\ LET i == call[t].id IN
       IF NewerOpen(i) \/ patch[i] = None THEN Continue(t)
       ELSE call' = [call EXCEPT ![t].pc = "restore", ![t].f = patch[i].path[2], ![t].owner = t]
  /\ UNCHANGED <<disk, locked, work, memory, events, left, failed>>

(* A newer open patch on the path refuses the revert.  revert_patch goes on *)
(* with an id that has no record, and with the record of another session.   *)
CheckNewer(t) ==
  /\ At(t, "check")
  /\ LET i == call[t].id
         known == patch[i] # None
     IN IF NewerOpen(i) \/ (t = Sync /\ ~known) THEN Continue(t)
        ELSE call' = [call EXCEPT ![t].pc = "restore",
                                  ![t].f = IF known THEN patch[i].path[2] ELSE None,
                                  ![t].owner = IF t = Sync THEN patch[i].session ELSE t]
  /\ UNCHANGED <<disk, locked, work, memory, events, left, failed>>

(* restore_patch: the file as it was, or none, before the record is asked   *)
(* for; on an error the patch stays open.                                   *)
RestoreFile(t) ==
  /\ At(t, "restore")
  /\ LET saved == snap[call[t].id] IN
       \/ /\ Goto(t, "remove") /\ NoFault
          /\ IF saved = None THEN UNCHANGED <<file, events>> ELSE Put(saved.f, saved.content)
       \/ saved # None /\ Fault /\ Continue(t) /\ UNCHANGED <<file, events>>
  /\ UNCHANGED <<row, tokens, locked, work, memory>>

RemoveRecord(t) ==
  /\ At(t, "remove")
  /\ LET i == call[t].id IN
       IF patch[i] # None /\ patch[i].session = call[t].owner
         THEN patch' = [patch EXCEPT ![i] = None] /\ Goto(t, "removed")
         ELSE Continue(t) /\ UNCHANGED patch
  /\ UNCHANGED <<disk, locked, work, snap, lease, refs, nextId, events, left, failed>>

(* Mutant: the lease is released for the thread, not for its session.       *)
EndRemovedOwn(t) ==
  /\ At(t, "removed") /\ EndLease(Abs(call[t].f), t)
  /\ IF call[t].op = "write" THEN call' = [call EXCEPT ![t] = Idle] ELSE Goto(t, "clear_reverted")
  /\ UNCHANGED <<disk, locked, work, patch, snap, nextId, events, left, failed>>

EndRemoved(t) ==
  /\ At(t, "removed") /\ EndLease(Abs(call[t].f), call[t].owner)
  /\ IF call[t].op = "write" THEN call' = [call EXCEPT ![t] = Idle] ELSE Goto(t, "clear_reverted")
  /\ UNCHANGED <<disk, locked, work, patch, snap, nextId, events, left, failed>>

(* wal_revert_speculative tombstones the Speculative rows of the path; then *)
(* the file that was put back is indexed.                                   *)
WalRevert(t) ==
  /\ At(t, "wal_revert") /\ ChooseRows(t, "Speculative") /\ Goto(t, "set_tombstone")
  /\ UNCHANGED <<disk, locked, astray, memory, events, left, failed>>

SetTombstone(t) ==
  /\ At(t, "set_tombstone")
  /\ \/ /\ SetRows(t, "Tombstone")
        /\ \/ snap' = [snap EXCEPT ![call[t].id] = None] /\ Goto(t, "reindex_reverted") /\ NoFault
           \/ Fault /\ Continue(t) /\ UNCHANGED snap
     \/ /\ Fault /\ Continue(t) /\ seen' = [seen EXCEPT ![t] = NothingSeen]
        /\ UNCHANGED <<row, astray, snap>>
  /\ UNCHANGED <<file, tokens, locked, patch, lease, refs, nextId, events>>

ReindexReverted(t) ==
  /\ At(t, "reindex_reverted") /\ Goto(t, "files") /\ ReadFiles(t, {call[t].f})
  /\ UNCHANGED <<disk, locked, astray, memory, events, left, failed>>

---------------------------------------------------------------------------
(* The sync thread *)

(* flush_debounced_reindex: the events that have been quiet long enough.    *)
Drain ==
  /\ At(Sync, "idle") /\ Spend("flushes")
  /\ \E batch \in SUBSET events \ {{}} :
       /\ events' = events \ batch
       /\ call' = [call EXCEPT ![Sync] = [Idle EXCEPT !.op = "flush", !.pc = "next",
                                                      !.files = batch, !.batch = batch]]
  /\ UNCHANGED <<disk, locked, work, memory, failed>>

(* The newest open patch on a changed file is confirmed when its token is   *)
(* there and reverted when it is not.                                       *)
NextEvent ==
  /\ At(Sync, "next") /\ call[Sync].op = "flush"
  /\ \E f \in call[Sync].files :
       LET i == Pending(f) IN
       call' = [call EXCEPT ![Sync] =
                  [@ EXCEPT !.files = call[Sync].files \ {f}, !.id = i, !.f = f,
                            !.pc = CASE i = 0       -> "next"
                                     [] i \in tokens -> "promote"
                                     [] OTHER        -> "check"]]
  /\ UNCHANGED <<disk, locked, work, memory, events, left, failed>>

(* Mutant: nothing if the last of the files had an open patch.              *)
ReindexBatchUnhandled ==
  /\ At(Sync, "next") /\ call[Sync].op = "flush" /\ call[Sync].files = {}
  /\ IF call[Sync].id = 0
       THEN call' = [call EXCEPT ![Sync].pc = "files", ![Sync].batch = {}]
            /\ ReadFiles(Sync, call[Sync].batch)
       ELSE call' = [call EXCEPT ![Sync] = Idle] /\ UNCHANGED seen
  /\ UNCHANGED <<disk, locked, astray, memory, events, left, failed>>

(* All files of the batch are indexed again, also the confirmed ones.       *)
ReindexBatch ==
  /\ At(Sync, "next") /\ call[Sync].op = "flush" /\ call[Sync].files = {}
  /\ call' = [call EXCEPT ![Sync].pc = "files", ![Sync].batch = {}]
  /\ ReadFiles(Sync, call[Sync].batch)
  /\ UNCHANGED <<disk, locked, astray, memory, events, left, failed>>

(* sweep_speculative_orphans: the patches open for longer than the TTL,     *)
(* newest first.                                                            *)
Sweep ==
  /\ At(Sync, "idle")
  /\ \E k \in Open :
       call' = [call EXCEPT ![Sync] = [Idle EXCEPT !.op = "sweep", !.pc = "next",
                                                   !.ids = {i \in Open : i <= k}]]
  /\ UNCHANGED <<disk, locked, work, memory, events, left, failed>>

NextExpired ==
  /\ At(Sync, "next") /\ call[Sync].op = "sweep"
  /\ LET ids == call[Sync].ids IN
       call' = [call EXCEPT ![Sync] =
                  IF ids = {} THEN Idle
                  ELSE [@ EXCEPT !.id = Max(ids), !.ids = ids \ {Max(ids)}, !.pc = "check"]]
  /\ UNCHANGED <<disk, locked, work, memory, events, left, failed>>

---------------------------------------------------------------------------
(* What happens around them *)

(* Another program changes a file, or removes it.                           *)
Edit(f, content) ==
  /\ Spend("edits") /\ Put(f, content)
  /\ UNCHANGED <<row, tokens, locked, work, memory, call, failed>>

(* merge preflight, under merge_spec_gate: the lock, given back when a path *)
(* of a bound revision is registered.  Rows name files by relative path.    *)
MergePreflight ==
  /\ ~locked /\ Spend("merges")
  /\ locked' = (\A f \in Files : refs[Rel(f)] = 0)
  /\ UNCHANGED <<disk, work, memory, events, call, failed>>
MergeEnds ==
  /\ locked /\ locked' = FALSE
  /\ UNCHANGED <<disk, work, memory, events, call, left, failed>>

Crash ==
  /\ Fault /\ patch' = [i \in Ids |-> None] /\ snap' = [i \in Ids |-> None]
  /\ lease' = [p \in PathForms |-> None] /\ refs' = [p \in PathForms |-> 0] /\ nextId' = 1
  /\ events' = {} /\ call' = [t \in Threads |-> Idle] /\ seen' = [t \in Threads |-> NothingSeen]
  /\ UNCHANGED <<disk, locked, astray>>

(* sweep_stale_confirm_sidecars, by a tool or save_workspace.               *)
SweepSidecars ==
  /\ tokens \ Open # {} /\ tokens' = tokens \cap Open
  /\ UNCHANGED <<file, row, locked, work, memory, events, call, left, failed>>

Request(s) ==
  \/ \E f \in Files : WriteFile(s, f) \/ ReindexPaths(s, f)
  \/ \E i \in Ids : ConfirmPatch(s, i) \/ RevertPatch(s, i)
Ending(t) ==
  \/ PromoteRecord(t) \/ EndPromoted(t) \/ ClearToken(t, "clear", "wal_promote") \/ WalPromote(t)
  \/ SetActive(t) \/ CheckNewer(t) \/ RestoreFile(t) \/ RemoveRecord(t) \/ EndRemoved(t)
  \/ ClearToken(t, "clear_reverted", "wal_revert") \/ WalRevert(t) \/ SetTombstone(t)
  \/ ReindexReverted(t) \/ Ingesting(t)
Writing(s) ==
  \/ NextOlder(s) \/ OpenPatch(s) \/ CapturePreWrite(s) \/ WriteToken(s) \/ WriteContent(s)
  \/ WriteFails(s) \/ Ingest(s) \/ MarkSpeculative(s) \/ SetSpeculative(s)
  \/ ConfirmPending(s)
Syncing == Drain \/ NextEvent \/ ReindexBatch \/ Sweep \/ NextExpired

Next ==
  \/ \E s \in Sessions : Request(s) \/ Writing(s)
  \/ \E t \in Threads : Ending(t)
  \/ Syncing
  \/ \E f \in Files, content \in {Edited, Absent} : Edit(f, content)
  \/ MergePreflight \/ MergeEnds \/ Crash \/ SweepSidecars

Spec == Init /\ [][Next]_vars

(* Requests run to their end, and the sync thread sweeps again and again.   *)
FairSpec ==
  /\ Spec
  /\ \A s \in Sessions : WF_vars(Writing(s) \/ Ending(s))
  /\ WF_vars(Syncing \/ Ending(Sync)) /\ SF_vars(Sweep)

---------------------------------------------------------------------------
(* Properties *)

AtRest == \A t \in Threads : At(t, "idle")

(* When nothing runs, the tracker counts the open patches of each path, and *)
(* a leased path has an open patch of the session that leases it: no way of *)
(* ending a patch, and no race of two of them, leaves a path registered     *)
(* (merges refused for ever) or leased (writes refused for ever).           *)
TrackerAgrees ==
  AtRest => \A p \in PathForms :
              /\ refs[p] = Cardinality({i \in Open : patch[i].path = p})
              /\ lease[p] # None => \E i \in Open : patch[i] = [session |-> lease[p], path |-> p]

(* When nothing runs and no event is due, a file has one live row, with what*)
(* the file holds, whatever writes, confirms, reverts, sweeps and edits by  *)
(* others raced: the last change of a file wins in the graph.  Not claimed  *)
(* after a failure or a crash, of a file that is gone, and until the file is*)
(* ingested well again if an ingest committed an older reading after a later*)
(* one, if a mutation made a row live that was retired after it had chosen  *)
(* it, or if the file had its turn while a merge had the branch.            *)
GraphFollowsFile ==
  AtRest /\ events = {} /\ ~failed
    => \A f \in Files : file[f] # Absent /\ astray[f] = {} => Show(row[f], file[f])

(* Every patch ends: it is confirmed, reverted, or swept after its TTL.     *)
PatchesEnd == \A i \in Ids : patch[i] # None ~> patch[i] = None

(* "If any affected_paths are in the active speculative set, release lock   *)
(* and return 409" (merge_preflight.rs).                                    *)
PreflightQuiesces == [][~locked /\ locked' => Open = {}]_vars

(* An open patch has its path leased (PatchWithoutLease, invariants.rs).    *)
LeaseCoversPatch == \A i \in Open : lease[patch[i].path] = patch[i].session

(* "FS sync never sees pending patch + no token as external edit"           *)
(* (mcp_runtime.rs): the sync thread does not undo a patch whose write has  *)
(* not ended.                                                               *)
NoFalseEdit ==
  \A s \in Sessions :
    ~(call[s].op = "write" /\ call[s].pc \in Opened /\ call[Sync].op = "flush"
        /\ call[Sync].id = call[s].id /\ call[Sync].pc = "restore")

(* A revert the code refuses does not change the file.                      *)
RefusedRevertIsInert ==
  [][\A s \in Sessions : RemoveRecord(s) /\ patch' = patch => snap[call[s].id] = None]_vars

(* A row Speculative at rest has an open patch (SpeculativeWithoutPatch,    *)
(* invariants.rs).                                                          *)
SpeculativeHasPatch ==
  AtRest /\ events = {} /\ ~failed
    => \A f \in Files : WithStatus(row[f], "Speculative") # {} => On(f) # {}
=============================================================================
